------------------------ MODULE AnthropicStreamProofs ------------------------
(* A message streamed to its end is collected as it was, and nothing is made *)
(* up of one that was cut short, for messages of any number of blocks of any *)
(* length, streamed in any interleaving.                                     *)
EXTENDS AnthropicStream, SequenceTheorems, FiniteSetTheorems, TLAPS

-----------------------------------------------------------------------------

\* What is known of the message: the assumption about the source.
Known(k) == LET block == source.content[k] IN
            \/ block.type # "tool_use" /\ block.text \in Seq(STRING)
            \/ block.type = "tool_use" /\ block.input \in Seq(STRING) /\ Wrapped(block.input)

\* The first n fragments of a body.
Prefix(body, n) == [j \in 1..n |-> body[j]]

\* What has been collected of a block that was started.
Collected(k) ==
    LET state == blocks[k] block == source.content[k] IN
    /\ state.kind = block.type
    /\ block.type = "tool_use" =>
          /\ state.name = block.name /\ state.id = block.id
          /\ state.partial = Prefix(block.input, sent[k])
          /\ state.input \in {block.input, <<EmptyObject>>}
          /\ position[k] = "closed" /\ sent[k] = Len(block.input) => state.input = block.input
    /\ block.type \in {"text", "thinking"} => state.text = Prefix(block.text, sent[k])

\* The states of a block, with what they take over from the message.
Inputs == {source.content[j].input : j \in Indices} \cup {<<EmptyObject>>}
Ids == {source.content[j].id : j \in Indices} \cup {NoCall}
ToolNames == {source.content[j].name : j \in Indices} \cup {<<>>}
Kinds == {source.content[j].type : j \in Indices} \cup {""}
States == [kind : Kinds, text : Seq(STRING),
           partial : Seq(STRING), input : Inputs, id : Ids, name : ToolNames]

BlockInv(k) == /\ blocks[k] \in States
               /\ sent[k] \in 0..Len(bodyOf(source.content[k]))
               /\ position[k] = "unsent" => sent[k] = 0
               /\ position[k] \in {"unsent", "headless"} => blocks[k].kind = ""
               /\ position[k] \in {"open", "closed"} => Collected(k)

\* What is known once the upstream has sent its message_delta.
StopInv == /\ stopReason \in {"", source.stopReason}
           /\ stopSent => /\ stopReason = source.stopReason
                          /\ \A k \in Indices : position[k] \in {"closed", "headless"}

\* The places of a block.
Positions == {"unsent", "headless", "open", "closed"}

\* The message, its end and each of its blocks, as they relate to one another.
IInv == /\ source \in Messages /\ StopInv
        /\ position \in [Indices -> Positions]
        /\ sent \in [Indices -> Nat] /\ blocks \in [Indices -> States]
        /\ \A k \in Indices : BlockInv(k)

-----------------------------------------------------------------------------

\* A body is a sequence.
LEMMA Bodies ==
    ASSUME source \in Messages, NEW k \in Indices
    PROVE  Known(k) /\ bodyOf(source.content[k]) \in Seq(STRING)
<1>1. IsBlock(source.content[k])
  BY AnthropicStreamAssumption DEF Indices, IsMessage, Range
<1>2. Known(k)
  BY <1>1 DEF IsBlock, Known
<1> QED  BY <1>2 DEF Known, bodyOf

\* A fragment more.
LEMMA LongerPrefix ==
    ASSUME NEW body \in Seq(STRING), NEW n \in 0..Len(body), n < Len(body)
    PROVE  Append(Prefix(body, n), body[n + 1]) = Prefix(body, n + 1)
<1>1. Prefix(body, n) \in Seq(STRING) /\ Len(Prefix(body, n)) = n
  BY DEF Prefix
<1>2. Prefix(body, n + 1) \in Seq(STRING) /\ Len(Prefix(body, n + 1)) = n + 1
  BY DEF Prefix
<1>3. body[n + 1] \in STRING
  OBVIOUS
<1> DEFINE longer == Append(Prefix(body, n), body[n + 1])
<1>4. longer \in Seq(STRING) /\ Len(longer) = n + 1
  BY <1>1, <1>3
<1>5. \A j \in 1..n + 1 : longer[j] = Prefix(body, n + 1)[j]
  BY <1>1, <1>3 DEF Prefix
<1> HIDE DEF longer
<1>6. longer = Prefix(body, n + 1)
  BY <1>2, <1>4, <1>5, SeqEqual
<1> QED  BY <1>6 DEF longer

\* The beginning of a JSON object is none itself: what parses is the whole.
LEMMA OnlyTheWholeParses ==
    ASSUME NEW body \in Seq(STRING), Wrapped(body), NEW n \in 0..Len(body),
           Wrapped(Prefix(body, n))
    PROVE  Prefix(body, n) = body
<1>1. Prefix(body, n) \in Seq(STRING) /\ Len(Prefix(body, n)) = n
  BY DEF Prefix
<1>2. n >= 2 /\ body[n] = Closing
  BY <1>1 DEF Wrapped, Prefix
<1>3. n = Len(body)
  BY <1>2 DEF Wrapped
<1> QED  BY <1>1, <1>3 DEF Prefix

-----------------------------------------------------------------------------

\* The message stays the same, and with it what blocks can be.
LEMMA SameMessage ==
    ASSUME UNCHANGED source
    PROVE  UNCHANGED Indices /\ UNCHANGED States
<1>1. UNCHANGED Indices
  BY DEF Indices
<1>2. UNCHANGED Inputs /\ UNCHANGED Ids /\ UNCHANGED ToolNames /\ UNCHANGED Kinds
  BY <1>1 DEF Inputs, Ids, ToolNames, Kinds
<1> QED  BY <1>1, <1>2 DEF States

\* A block of which nothing is known.
LEMMA NoBlockFacts ==
    /\ NoBlock \in States /\ NoBlock.kind = ""
    /\ NoBlock.text = <<>> /\ NoBlock.partial = <<>> /\ NoBlock.input = <<EmptyObject>>
<1>1. <<>> \in Seq(STRING) /\ "" \in Kinds
  BY DEF Kinds
<1>2. <<EmptyObject>> \in Inputs /\ NoCall \in Ids /\ <<>> \in ToolNames
  BY DEF Inputs, Ids, ToolNames
<1> QED  BY <1>1, <1>2 DEF NoBlock, States

\* A step that touches one block leaves the others as they were.
LEMMA OneBlock ==
    ASSUME IInv, NEW k \in Indices, UNCHANGED source,
           NEW where \in Positions, position' = [position EXCEPT ![k] = where],
           NEW n \in Nat, sent' = [sent EXCEPT ![k] = n],
           NEW state \in States, blocks' = [blocks EXCEPT ![k] = state],
           BlockInv(k)', StopInv'
    PROVE  IInv'
<1>1. UNCHANGED Indices /\ UNCHANGED States
  BY SameMessage
<1>2. /\ position' \in [Indices -> Positions]
      /\ sent' \in [Indices -> Nat] /\ blocks' \in [Indices -> States]
  BY DEF IInv
<1>3. ASSUME NEW j \in Indices PROVE BlockInv(j)'
  <2>1. CASE j = k
    BY <2>1
  <2>2. CASE j # k
    <3>1. position'[j] = position[j] /\ sent'[j] = sent[j] /\ blocks'[j] = blocks[j]
      BY <2>2 DEF IInv
    <3> QED  BY <1>1, <3>1, ZenonT(30) DEF IInv, BlockInv, Collected
  <2> QED  BY <2>1, <2>2
<1> QED  BY <1>1, <1>2, <1>3 DEF IInv

\* While a block is under way, the message has not stopped.
LEMMA StillStreaming ==
    ASSUME IInv, NEW k \in Indices, UNCHANGED <<source, stopSent, stopReason>>,
           NEW where, position' = [position EXCEPT ![k] = where],
           where \in {"closed", "headless"} \/ position[k] \notin {"closed", "headless"}
    PROVE  StopInv'
<1>1. UNCHANGED Indices
  BY DEF Indices
<1>2. CASE stopSent
  <2>1. where \in {"closed", "headless"}
    BY <1>2 DEF IInv, StopInv
  <2> QED  BY <1>1, <1>2, <2>1 DEF IInv, StopInv
<1>3. CASE ~stopSent
  BY <1>3 DEF IInv, StopInv
<1> QED  BY <1>2, <1>3

\* A block starts with the beginning of its text, a call empty.
LEMMA StartStep ==
    ASSUME IInv, NEW k \in Indices, NEW n \in 0..Len(bodyOf(source.content[k])), BlockStart(k, n)
    PROVE  IInv'
<1> DEFINE block == source.content[k]
           start == SubSeq(bodyOf(block), 1, n)
           state == startedBlock(block, start)
<1>1. source.content[k].type = "tool_use" =>
          source.content[k].id \in Ids /\ source.content[k].name \in ToolNames
  BY DEF Ids, ToolNames
<1>2. n \in Nat /\ start = Prefix(bodyOf(block), n) /\ start \in Seq(STRING)
  <2>1. bodyOf(block) \in Seq(STRING)
    BY Bodies DEF IInv
  <2>2. \A body \in Seq(STRING) : n \in 0..Len(body) =>
            SubSeq(body, 1, n) = Prefix(body, n) /\ SubSeq(body, 1, n) \in Seq(STRING)
    BY DEF Prefix
  <2> QED  BY <2>1, <2>2
<1>3. /\ state \in States /\ state.kind = block.type
      /\ block.type \in {"text", "thinking"} => state.text = start
      /\ state.partial = <<>> /\ state.input = <<EmptyObject>>
      /\ block.type = "tool_use" => state.name = block.name /\ state.id = block.id
  <2> HIDE DEF start
  <2>1. Known(k) /\ block.type \in Kinds
    BY Bodies DEF IInv, Kinds
  <2>2. CASE block.type = "tool_use"
    BY <1>1, <2>1, <2>2, NoBlockFacts DEF startedBlock, States
  <2>3. CASE block.type \in {"text", "thinking"}
    BY <1>2, <2>1, <2>3, NoBlockFacts DEF startedBlock, States
  <2>4. CASE block.type \notin {"text", "thinking", "tool_use"}
    BY <2>1, <2>4, NoBlockFacts DEF startedBlock, States
  <2> QED  BY <2>1, <2>2, <2>3, <2>4 DEF Known
<1>4. \A body : Prefix(body, 0) = <<>>
  BY DEF Prefix
<1>5. /\ UNCHANGED <<source, stopSent, stopReason>> /\ sent' = [sent EXCEPT ![k] = n]
      /\ position' = [position EXCEPT ![k] = "open"] /\ blocks' = [blocks EXCEPT ![k] = state]
      /\ block.type = "tool_use" => n = 0
      /\ position[k] = "unsent"
  BY DEF BlockStart
<1>6. position'[k] = "open" /\ blocks'[k] = state /\ sent'[k] = n /\ UNCHANGED States
  <2> HIDE DEF state
  <2> QED  BY <1>5, SameMessage DEF IInv
<1>7. BlockInv(k)'
  <2> HIDE DEF state, start
  <2>1. Collected(k)'
    <3>1. block.type = "tool_use" => Prefix(block.input, n) = <<>>
      BY <1>4, <1>5
    <3>2. block.type \in {"text", "thinking"} => bodyOf(block) = block.text
      BY DEF bodyOf
    <3> QED  BY <1>2, <1>3, <1>5, <1>6, <3>1, <3>2 DEF Collected
  <2>2. sent'[k] \in 0..Len(bodyOf(source'.content[k]))
    BY <1>5, <1>6
  <2> QED  BY <1>3, <1>6, <2>1, <2>2 DEF BlockInv
<1>8. StopInv'
  BY <1>5, StillStreaming
<1> HIDE DEF state
<1> QED  BY <1>2, <1>3, <1>5, <1>7, <1>8, OneBlock DEF Positions

\* A delta is the next fragment of the block's body.
LEMMA DeltaStep ==
    ASSUME IInv, NEW k \in Indices, BlockDelta(k)
    PROVE  IInv'
<1> DEFINE block == source.content[k]
           body == bodyOf(block)
           n == sent[k]
           where == IF position[k] = "unsent" THEN "headless" ELSE position[k]
           state == IF block.type = "tool_use"
                    THEN [blocks[k] EXCEPT !.partial = Append(@, body[n + 1])]
                    ELSE [blocks[k] EXCEPT !.text = Append(@, body[n + 1])]
<1>1. /\ Known(k) /\ BlockInv(k) /\ body \in Seq(STRING)
      /\ n \in 0..Len(body) /\ n < Len(body) /\ blocks[k] \in States
  BY Bodies DEF IInv, BlockInv, BlockDelta
<1>2. Append(Prefix(body, n), body[n + 1]) = Prefix(body, n + 1)
  BY <1>1, LongerPrefix
<1>3. body[n + 1] \in STRING
  BY <1>1
<1>4. /\ state \in States /\ state.kind = blocks[k].kind
      /\ state.name = blocks[k].name /\ state.id = blocks[k].id /\ state.input = blocks[k].input
      /\ IF block.type = "tool_use" THEN state.partial = Append(blocks[k].partial, body[n + 1])
                                    ELSE state.text = Append(blocks[k].text, body[n + 1])
  <2> DEFINE longer(s) == Append(s, body[n + 1])
  <2>1. blocks[k].partial \in Seq(STRING) /\ blocks[k].text \in Seq(STRING)
    BY <1>1 DEF States
  <2>2. longer(blocks[k].partial) \in Seq(STRING) /\ longer(blocks[k].text) \in Seq(STRING)
    BY <1>3, <2>1
  <2>3. state = IF block.type = "tool_use"
                THEN [blocks[k] EXCEPT !.partial = longer(blocks[k].partial)]
                ELSE [blocks[k] EXCEPT !.text = longer(blocks[k].text)]
    OBVIOUS
  <2> HIDE DEF longer, state
  <2>4. /\ state \in States /\ state.kind = blocks[k].kind
        /\ state.name = blocks[k].name /\ state.id = blocks[k].id /\ state.input = blocks[k].input
        /\ IF block.type = "tool_use" THEN state.partial = longer(blocks[k].partial)
                                      ELSE state.text = longer(blocks[k].text)
    BY <1>1, <2>2, <2>3 DEF States
  <2> QED  BY <2>4 DEF longer
<1>5. /\ UNCHANGED <<source, stopSent, stopReason>>
      /\ position' = [position EXCEPT ![k] = where] /\ position'[k] = where
      /\ position[k] \in Positions \ {"closed"} /\ where \in {"headless", "open"}
      /\ sent' = [sent EXCEPT ![k] = n + 1] /\ sent'[k] = n + 1
  BY DEF BlockDelta, IInv, Positions
<1>6. blocks' = [blocks EXCEPT ![k] = state]
  BY <1>5 DEF BlockDelta, withDelta, IInv
<1>7. blocks'[k] = state /\ UNCHANGED States
  <2> HIDE DEF state
  <2> QED  BY <1>5, <1>6, SameMessage DEF IInv
<1>8. BlockInv(k)'
  <2>1. CASE where = "headless"
    <3>1. blocks[k].kind = ""
      BY <1>1, <1>5, <2>1 DEF BlockInv
    <3> HIDE DEF state, where
    <3>2. sent'[k] \in 0..Len(bodyOf(source'.content[k]))
      BY <1>1, <1>5
    <3> QED  BY <1>4, <1>5, <1>7, <2>1, <3>1, <3>2 DEF BlockInv
  <2>2. CASE where = "open"
    <3>1. position[k] = "open" /\ Collected(k)
      BY <1>1, <1>5, <2>2 DEF BlockInv
    <3>2. block.type = "tool_use" => body = block.input
      BY DEF bodyOf
    <3>3. block.type \in {"text", "thinking"} => body = block.text
      BY DEF bodyOf
    <3> HIDE DEF state, where, body
    <3>4. Collected(k)'
      BY <1>2, <1>4, <1>5, <1>7, <2>2, <3>1, <3>2, <3>3 DEF Collected
    <3>5. sent'[k] \in 0..Len(bodyOf(source'.content[k]))
      BY <1>1, <1>5 DEF body
    <3> QED  BY <1>4, <1>5, <1>7, <2>2, <3>4, <3>5 DEF BlockInv
  <2> QED  BY <1>5, <2>1, <2>2
<1>9. n + 1 \in Nat
  BY <1>1
<1>10. StopInv'
  <2>1. where \in {"closed", "headless"} \/ position[k] \notin {"closed", "headless"}
    BY <1>5 DEF Positions
  <2> HIDE DEF where
  <2> QED  BY <1>5, <2>1, StillStreaming
<1> HIDE DEF state, n, where
<1> QED  BY <1>4, <1>5, <1>6, <1>8, <1>9, <1>10, OneBlock DEF Positions

\* The end of a block takes over the input of a call if it is complete.
LEMMA StopStep ==
    ASSUME IInv, NEW k \in Indices, BlockStop(k)
    PROVE  IInv'
<1> DEFINE block == source.content[k]
           n == sent[k]
           state == withInput(blocks[k])
<1>1. /\ Known(k) /\ BlockInv(k) /\ Collected(k) /\ blocks[k] \in States /\ n \in Nat
      /\ n \in 0..Len(bodyOf(block))
  BY Bodies DEF IInv, BlockInv, BlockStop
<1>2. /\ state \in States
      /\ state.kind = block.type /\ state.name = blocks[k].name /\ state.id = blocks[k].id
      /\ state.partial = blocks[k].partial /\ state.text = blocks[k].text
      /\ block.type = "tool_use" =>
            /\ state.input \in {block.input, <<EmptyObject>>}
            /\ n = Len(block.input) => state.input = block.input
  <2>1. CASE blocks[k].kind = "tool_use" /\ Wrapped(blocks[k].partial)
    <3>1. block.type = "tool_use" /\ blocks[k].partial = Prefix(block.input, n)
          /\ Wrapped(block.input) /\ block.input \in Seq(STRING) /\ n \in 0..Len(block.input)
      BY <1>1, <2>1 DEF Collected, Known, bodyOf
    <3>2. Prefix(block.input, n) = block.input
      BY <2>1, <3>1, OnlyTheWholeParses
    <3>3. state = [blocks[k] EXCEPT !.input = block.input]
      BY <2>1, <3>1, <3>2 DEF withInput
    <3> HIDE DEF state
    <3>4. block.input \in Inputs
      BY DEF Inputs
    <3> QED  BY <1>1, <3>1, <3>3, <3>4 DEF States, Collected
  <2>2. CASE ~(blocks[k].kind = "tool_use" /\ Wrapped(blocks[k].partial))
    <3>1. ASSUME block.type = "tool_use" PROVE n # Len(block.input)
      <4>1. /\ blocks[k].partial = Prefix(block.input, n) /\ block.input \in Seq(STRING)
            /\ Wrapped(block.input) /\ ~Wrapped(Prefix(block.input, n))
        BY <1>1, <2>2, <3>1 DEF Collected, Known
      <4>2. Prefix(block.input, Len(block.input)) = block.input
        BY <4>1 DEF Prefix
      <4> QED  BY <4>1, <4>2
    <3>2. state = blocks[k]
      BY <2>2 DEF withInput
    <3> HIDE DEF state
    <3> QED  BY <1>1, <3>1, <3>2 DEF Collected
  <2> QED  BY <2>1, <2>2
<1>3. /\ UNCHANGED <<source, sent, stopSent, stopReason>> /\ sent' = [sent EXCEPT ![k] = n]
      /\ position' = [position EXCEPT ![k] = "closed"] /\ position'[k] = "closed"
      /\ blocks' = [blocks EXCEPT ![k] = state] /\ blocks'[k] = state
  BY DEF BlockStop, IInv
<1>4. UNCHANGED States
  BY <1>3, SameMessage
<1>5. BlockInv(k)'
  <2> HIDE DEF state
  <2>1. Collected(k)'
    BY <1>1, <1>2, <1>3 DEF Collected
  <2>2. sent'[k] \in 0..Len(bodyOf(source'.content[k]))
    BY <1>1, <1>3
  <2>3. blocks'[k] \in States' /\ position'[k] = "closed"
    BY <1>2, <1>3, <1>4
  <2> QED  BY <2>1, <2>2, <2>3 DEF BlockInv
<1>6. StopInv'
  BY <1>3, StillStreaming
<1> HIDE DEF state, n
<1> QED  BY <1>1, <1>2, <1>3, <1>5, <1>6, OneBlock DEF Positions

\* What has been collected is what was sent of the message.
THEOREM Invariant == Spec => []IInv
<1>1. ASSUME Init PROVE IInv
  <2>1. /\ source \in Messages /\ NoBlock \in States
        /\ position = [k \in Indices |-> "unsent"] /\ sent = [k \in Indices |-> 0]
        /\ blocks = [k \in Indices |-> NoBlock] /\ NoBlock.kind = ""
    BY <1>1, NoBlockFacts DEF Init
  <2> USE DEF Positions
  <2>2. ASSUME NEW k \in Indices PROVE BlockInv(k)
    <3>1. bodyOf(source.content[k]) \in Seq(STRING)
      BY <2>1, Bodies
    <3>2. 0 \in 0..Len(bodyOf(source.content[k]))
      BY <3>1
    <3> QED  BY <2>1, <3>2 DEF BlockInv
  <2>3. StopInv
    BY <1>1 DEF Init, StopInv
  <2> QED  BY <2>1, <2>2, <2>3 DEF IInv
<1>2. ASSUME IInv, [Next]_vars PROVE IInv'
  <2>1. CASE \E k \in Indices : \/ \E n \in 0..Len(bodyOf(source.content[k])) : BlockStart(k, n)
                                \/ BlockDelta(k) \/ BlockStop(k)
    BY <1>2, <2>1, StartStep, DeltaStep, StopStep
  <2>2. CASE StopReason \/ StreamError \/ EndOfBody \/ Ended \/ UNCHANGED vars
    <3>1. UNCHANGED <<source, position, sent, blocks>>
      BY <2>2 DEF StopReason, StreamError, EndOfBody, Ended, vars, upstreamVars
    <3>2. UNCHANGED Indices /\ UNCHANGED States
      BY <3>1, SameMessage
    <3>3. \A k : BlockInv(k) => BlockInv(k)'
      BY <3>1, <3>2 DEF BlockInv, Collected
    <3>4. StopInv'
      <4>1. CASE StopReason
        BY <3>1, <3>2, <4>1 DEF StopReason, StopInv
      <4>2. CASE StreamError \/ EndOfBody \/ Ended \/ UNCHANGED vars
        <5>1. UNCHANGED <<stopSent, stopReason>>
          BY <4>2 DEF StreamError, EndOfBody, Ended, vars, upstreamVars
        <5> QED  BY <1>2, <3>1, <3>2, <5>1 DEF IInv, StopInv
      <4> QED  BY <2>2, <4>1, <4>2
    <3> QED  BY <1>2, <3>1, <3>2, <3>3, <3>4 DEF IInv
  <2> QED  BY <1>2, <2>1, <2>2 DEF Next
<1> QED  BY <1>1, <1>2, PTL DEF Spec

-----------------------------------------------------------------------------

\* A later place has a higher rank.
LEMMA RanksIncrease ==
    ASSUME NEW n \in Nat, NEW places, places \subseteq 1..n,
           NEW p \in places, NEW q \in places, p < q
    PROVE  rank(p, places) < rank(q, places)
  <1> DEFINE upto(x) == {other \in places : other <= x}
  <1>0. \A x \in places : x \in Nat
    OBVIOUS
  <1>1. IsFiniteSet(upto(q))
    <2>1. IsFiniteSet(1..n)
      BY FS_Interval
    <2>2. upto(q) \subseteq 1..n
      OBVIOUS
    <2> QED
      BY <2>1, <2>2, FS_Subset
  <1>2. upto(p) \subseteq upto(q) /\ upto(p) # upto(q)
    <2>1. q \in upto(q) /\ q \notin upto(p)
      BY <1>0
    <2>2. \A x \in places : x <= p => x <= q
      <3> TAKE x \in places
      <3>1. x \in Nat /\ p \in Nat /\ q \in Nat
        BY <1>0
      <3> QED
        BY <3>1
    <2> QED
      BY <2>1, <2>2
  <1>3. /\ Cardinality(upto(p)) <= Cardinality(upto(q))
        /\ Cardinality(upto(p)) # Cardinality(upto(q))
    <2> HIDE DEF upto
    <2> QED
      BY <1>1, <1>2, FS_Subset
  <1>4. Cardinality(upto(p)) \in Nat /\ Cardinality(upto(q)) \in Nat
    <2> HIDE DEF upto
    <2> QED
      BY <1>1, <1>2, FS_Subset, FS_CardinalityType
  <1> QED
    BY <1>3, <1>4 DEF rank

\* Ranks count the places, from one on.
LEMMA RanksCount ==
    ASSUME NEW n \in Nat, NEW places, places \subseteq 1..n
    PROVE  /\ Cardinality(places) \in Nat
           /\ \A p \in places : rank(p, places) \in 1..Cardinality(places)
           /\ \A k \in 1..Cardinality(places) : \E p \in places : rank(p, places) = k
  <1> DEFINE m == Cardinality(places)
             rankOf == [p \in places |-> rank(p, places)]
             ranks == {rank(p, places) : p \in places}
  <1>1. IsFiniteSet(places) /\ m \in Nat
    <2>1. IsFiniteSet(1..n)
      BY FS_Interval
    <2>2. IsFiniteSet(places)
      BY <2>1, FS_Subset
    <2> QED
      BY <2>2, FS_CardinalityType
  <1>2. ASSUME NEW p \in places
        PROVE  rank(p, places) \in 1..m
    <2> DEFINE upto == {other \in places : other <= p}
    <2>1. p \in upto /\ upto \subseteq places
      OBVIOUS
    <2>2. Cardinality(upto) <= m /\ IsFiniteSet(upto)
      BY <1>1, <2>1, FS_Subset
    <2>3. Cardinality(upto) \in Nat /\ Cardinality(upto) # 0
      <3> HIDE DEF upto
      <3> QED
        BY <2>1, <2>2, FS_CardinalityType, FS_EmptySet
    <2> QED
      BY <1>1, <2>2, <2>3 DEF rank
  <1>3. ranks = 1..m
    <2>1. ranks \subseteq 1..m
      BY <1>2
    <2>2. rankOf \in Injection(places, ranks)
      <3>1. rankOf \in [places -> ranks]
        OBVIOUS
      <3>2. ASSUME NEW p \in places, NEW q \in places, rankOf[p] = rankOf[q]
            PROVE  p = q
        <4>1. rank(p, places) = rank(q, places)
          BY <3>2
        <4>2. p \in Nat /\ q \in Nat
          OBVIOUS
        <4>3. rank(p, places) \in Nat
          BY <1>2
        <4>4. CASE p < q
          <5>1. rank(p, places) < rank(q, places)
            BY <4>4, RanksIncrease
          <5> QED
            BY <4>1, <4>3, <5>1
        <4>5. CASE q < p
          <5>1. rank(q, places) < rank(p, places)
            BY <4>5, RanksIncrease
          <5> QED
            BY <4>1, <4>3, <5>1
        <4> QED
          BY <4>2, <4>4, <4>5
      <3> QED
        BY <3>1, <3>2 DEF Injection, IsInjective
    <2>3. IsFiniteSet(1..m) /\ Cardinality(1..m) = m
      BY <1>1, FS_Interval
    <2>4. IsFiniteSet(ranks) /\ Cardinality(ranks) <= m
      BY <2>1, <2>3, FS_Subset
    <2>5. m <= Cardinality(ranks)
      BY <2>2, <2>4, FS_Injection
    <2>6. Cardinality(ranks) = Cardinality(1..m)
      BY <1>1, <2>3, <2>4, <2>5, FS_CardinalityType
    <2> HIDE DEF ranks
    <2> QED
      BY <2>1, <2>3, <2>6, FS_Subset
  <1> QED
    BY <1>1, <1>2, <1>3

\* Subsequences of the same places have the same places of their sequences.
LEMMA ChosenPlace ==
    ASSUME NEW n \in Nat, NEW places \in SUBSET (1..n), NEW s, NEW t,
           NEW k \in 1..Cardinality(places)
    PROVE  \E place \in places : /\ subsequence(s, places)[k] = s[place]
                                 /\ subsequence(t, places)[k] = t[place]
<1> DEFINE chosen == CHOOSE place \in places : rank(place, places) = k
<1>1. chosen \in places
  BY RanksCount
<1>2. subsequence(s, places)[k] = s[chosen] /\ subsequence(t, places)[k] = t[chosen]
  BY DEF subsequence
<1> QED  BY <1>1, <1>2

\* The places of the blocks are the first numbers.
LEMMA IndicesRange ==
    ASSUME source \in Messages
    PROVE  \E n \in Nat : Indices = 1..n
BY AnthropicStreamAssumption DEF IsMessage, Indices

\* The aggregated message has, at every place, what is shown of the block there.
LEMMA AggregatedContent ==
    ASSUME IInv
    PROVE  LET places == {k \in Indices : blocks[k].kind \in Collectable}
               shown == subsequence(source.content, places)
           IN /\ aggregated.stopReason = stopReason
              /\ DOMAIN shown = 1..Cardinality(places)
              /\ aggregated.content = [j \in 1..Cardinality(places) |-> aggregated.content[j]]
              /\ \A j \in 1..Cardinality(places) : \E k \in places :
                    shown[j] = source.content[k] /\ aggregated.content[j] = contentOf(blocks[k])
<1> DEFINE places == {k \in Indices : blocks[k].kind \in Collectable}
           m == Cardinality(places)
           kept == subsequence(blocks, places)
<1>1. PICK n \in Nat : Indices = 1..n
  BY IndicesRange DEF IInv
<1>2. \A s : DOMAIN subsequence(s, places) = 1..m
  BY DEF subsequence
<1>3. aggregated = [content |-> [j \in 1..m |-> contentOf(kept[j])], stopReason |-> stopReason]
  BY <1>2, Zenon DEF aggregated
<1>4. \A j \in 1..m : \E k \in places :
          subsequence(source.content, places)[j] = source.content[k] /\ kept[j] = blocks[k]
  <2>1. places \in SUBSET (1..n)
    BY <1>1
  <2> HIDE DEF places
  <2>2. \A s, t : \A j \in 1..m :
            \E k \in places : subsequence(s, places)[j] = s[k] /\ subsequence(t, places)[j] = t[k]
    BY <1>1, <2>1, ChosenPlace
  <2> QED  BY <2>2
<1> HIDE DEF places, m, kept
<1> QED  BY <1>2, <1>3, <1>4 DEF places, m, kept

\* What is known of a block of which something is shown.
LEMMA ShownBlock ==
    ASSUME IInv, NEW k \in Indices, blocks[k].kind \in Collectable
    PROVE  contentOf(blocks[k]) \in ShownOf(source.content[k])
<1> DEFINE block == source.content[k]
           n == sent[k]
<1>1. IsBlock(block)
  BY AnthropicStreamAssumption DEF IInv, Indices, IsMessage, Range
<1>2. Collected(k) /\ n \in 0..Len(bodyOf(block))
  BY DEF IInv, BlockInv, Collectable, Positions
<1>3. CASE block.type = "tool_use"
  <2>1. block = [type |-> block.type, id |-> block.id, name |-> block.name, input |-> block.input]
    BY <1>1, <1>3 DEF IsBlock
  <2>2. /\ blocks[k].kind = "tool_use" /\ blocks[k].id = block.id /\ blocks[k].name = block.name
        /\ blocks[k].input \in {block.input, <<EmptyObject>>}
    BY <1>2, <1>3 DEF Collected
  <2>3. contentOf(blocks[k]) = [type |-> block.type, id |-> block.id, name |-> block.name,
                                input |-> blocks[k].input]
    BY <1>3, <2>2 DEF contentOf
  <2> QED  BY <1>3, <2>1, <2>2, <2>3 DEF ShownOf
<1>4. CASE block.type # "tool_use"
  <2>1. block = [type |-> block.type, text |-> block.text] /\ block.text \in Seq(STRING)
    BY <1>1, <1>4 DEF IsBlock
  <2>2. blocks[k].kind = block.type /\ blocks[k].text = Prefix(block.text, n)
        /\ n \in 0..Len(block.text)
    BY <1>2, <1>4 DEF Collected, bodyOf, Collectable
  <2>3. Prefix(block.text, n) = SubSeq(block.text, 1, n)
    BY <2>1, <2>2 DEF Prefix
  <2>4. contentOf(blocks[k]) = [type |-> block.type, text |-> SubSeq(block.text, 1, n)]
    BY <1>4, <2>2, <2>3 DEF contentOf
  <2>5. contentOf(blocks[k]) = [block EXCEPT !.text = SubSeq(block.text, 1, n)]
    <3>1. ASSUME NEW b, NEW start, b = [type |-> b.type, text |-> b.text]
          PROVE  [b EXCEPT !.text = start] = [type |-> b.type, text |-> start]
      BY <3>1
    <3> HIDE DEF block, n
    <3> QED  BY <2>1, <2>4, <3>1
  <2> QED  BY <1>4, <2>2, <2>5 DEF ShownOf
<1> QED  BY <1>3, <1>4

\* Whatever breaks off where, a client is shown of the message some of its
\* blocks in their order, their texts from the beginning, and of the arguments
\* of a call all or none (stream.go content_block_stop).
THEOREM NothingIsMadeUp == Spec => []NothingMadeUp
<1>1. ASSUME IInv PROVE NothingMadeUp
  <2> DEFINE places == {k \in Indices : blocks[k].kind \in Collectable}
             shown == subsequence(source.content, places)
             m == Cardinality(places)
  <2>1. /\ aggregated.stopReason = stopReason /\ DOMAIN shown = 1..m
        /\ aggregated.content = [j \in 1..m |-> aggregated.content[j]]
        /\ \A j \in 1..m : \E k \in places :
              shown[j] = source.content[k] /\ aggregated.content[j] = contentOf(blocks[k])
    BY <1>1, AggregatedContent, Zenon
  <2>2. \A k \in places : contentOf(blocks[k]) \in ShownOf(source.content[k])
    BY <1>1, ShownBlock
  <2>3. places \in SUBSET Indices
    OBVIOUS
  <2>4. stopReason \in {"", source.stopReason}
    BY <1>1 DEF IInv, StopInv
  <2> HIDE DEF places, m
  <2>5. DOMAIN aggregated.content = DOMAIN shown
    BY <2>1
  <2>6. \A j \in DOMAIN shown : aggregated.content[j] \in ShownOf(shown[j])
    BY <2>1, <2>2
  <2> QED  BY <2>1, <2>3, <2>4, <2>5, <2>6 DEF NothingMadeUp
<1> QED  BY <1>1, Invariant, PTL

-----------------------------------------------------------------------------

\* A block that was sent to its end and stopped is collected as it was sent.
LEMMA WholeBlock ==
    ASSUME IInv, NEW k \in Indices, position[k] = "closed", WhollySent(k),
           source.content[k].type \in Collectable
    PROVE  contentOf(blocks[k]) = source.content[k]
<1> DEFINE block == source.content[k]
<1>1. IsBlock(block)
  BY AnthropicStreamAssumption DEF IInv, Indices, IsMessage, Range
<1>2. Collected(k) /\ sent[k] = Len(bodyOf(block))
  BY DEF IInv, BlockInv, WhollySent
<1>3. \A body \in Seq(STRING) : Prefix(body, Len(body)) = body
  BY DEF Prefix
<1>4. CASE block.type = "tool_use"
  <2>1. block = [type |-> block.type, id |-> block.id, name |-> block.name, input |-> block.input]
    BY <1>1, <1>4 DEF IsBlock
  <2>2. /\ blocks[k].kind = "tool_use" /\ blocks[k].id = block.id
        /\ blocks[k].name = block.name /\ blocks[k].input = block.input
    BY <1>2, <1>4 DEF Collected, bodyOf
  <2> QED  BY <1>4, <2>1, <2>2 DEF contentOf
<1>5. CASE block.type # "tool_use"
  <2>1. block = [type |-> block.type, text |-> block.text] /\ block.text \in Seq(STRING)
    BY <1>1, <1>5 DEF IsBlock
  <2>2. blocks[k].kind = block.type /\ blocks[k].text = block.text
    BY <1>2, <1>3, <1>5, <2>1 DEF Collected, bodyOf, Collectable
  <2> QED  BY <1>5, <2>1, <2>2 DEF contentOf
<1> QED  BY <1>4, <1>5

\* A stream that was sent to its end is collected to the message that was
\* streamed, whatever the order its blocks came in, but for the blocks of other
\* kinds and those without a start (stream.go AggregateAnthropicStream).
THEOREM StreamReassembled == Spec => []Reassembled
<1>1. ASSUME IInv PROVE Reassembled
  <2> DEFINE collectable == {k \in Indices : /\ source.content[k].type \in Collectable
                                             /\ position[k] # "headless"}
             shown == subsequence(source.content, collectable)
             m == Cardinality(collectable)
  <2> SUFFICES ASSUME stopSent, \A k \in Indices : WhollySent(k)
               PROVE  aggregated = [source EXCEPT !.content = shown]
    BY DEF Reassembled
  <2>1. source = [content |-> source.content, stopReason |-> source.stopReason]
    BY <1>1, AnthropicStreamAssumption DEF IInv, IsMessage
  <2>2. \A k \in Indices : blocks[k].kind = IF position[k] = "headless" THEN ""
                                            ELSE source.content[k].type
    BY <1>1 DEF IInv, StopInv, BlockInv, Collected
  <2>3. collectable = {k \in Indices : blocks[k].kind \in Collectable}
    BY <2>2 DEF Collectable
  <2>4. /\ aggregated.stopReason = stopReason /\ DOMAIN shown = 1..m
        /\ aggregated.content = [j \in 1..m |-> aggregated.content[j]]
        /\ \A j \in 1..m : \E k \in collectable :
              shown[j] = source.content[k] /\ aggregated.content[j] = contentOf(blocks[k])
    <3> HIDE DEF collectable
    <3> QED  BY <1>1, <2>3, AggregatedContent, Zenon
  <2>5. \A k \in collectable : contentOf(blocks[k]) = source.content[k]
    BY <1>1, WholeBlock DEF IInv, StopInv
  <2>6. stopReason = source.stopReason
    BY <1>1 DEF IInv, StopInv
  <2>7. aggregated = [content |-> aggregated.content, stopReason |-> aggregated.stopReason]
    BY DEF aggregated
  <2>8. shown = [j \in 1..m |-> shown[j]]
    BY DEF subsequence
  <2> HIDE DEF collectable, m, shown
  <2>9. \A j \in 1..m : aggregated.content[j] = shown[j]
    BY <2>4, <2>5
  <2>10. aggregated.content = shown
    BY <2>4, <2>8, <2>9
  <2> QED  BY <2>1, <2>4, <2>6, <2>7, <2>10
<1> QED  BY <1>1, Invariant, PTL
=============================================================================
