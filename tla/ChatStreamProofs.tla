-------------------------- MODULE ChatStreamProofs --------------------------
(* What is known of ChatStream at every place of its control flow, for any   *)
(* number of tool calls, any texts and any length of stream: the inductive   *)
(* invariant, part by part, with the proof that every step keeps it; that    *)
(* nothing is lost; from the client's copy of every item at every place of   *)
(* the code, that the stream follows the protocol; and that the collected    *)
(* answer is the streamed one.                                               *)
EXTENDS ChatPaths, FiniteSetTheorems, FunctionTheorems, SequenceTheorems, TLAPS

-----------------------------------------------------------------------------
(* Part 1: the parts of the invariant, and the types.                        *)

ClosingText == {"text.done", "text.part.done", "text.item.done"}
ClosingTool == {"input.delta", "tool.done", "tool.item.done"}
Finishing == {"tools"} \cup ClosingTool
Over == {"fail", "returned"}

\* Where the handler is, and how far the response has come for a client that
\* is still there.
PlaceInv ==
    /\ live => (done => pc = "returned")
    /\ live /\ pc = "created" => phase = "none"
    /\ live /\ pc = "in_progress" => phase = "created"
    /\ live /\ pc \notin {"created", "in_progress", "returned"} => phase = "in_progress"
    /\ Answered => pc = "returned"
    /\ broken => pc \in Over /\ ~Answered

\* The output order, and the indices that point into it.
OrderInv ==
    /\ nextOutputIndex = Len(outputOrder)
    /\ textStarted => /\ textOutputIndex + 1 \in DOMAIN outputOrder
                      /\ outputOrder[textOutputIndex + 1] = "text"
    /\ \A i \in CallIDs : tools[i].announced =>
           /\ tools[i].outputIndex + 1 \in DOMAIN outputOrder
           /\ outputOrder[tools[i].outputIndex + 1] = i
    /\ \A k \in DOMAIN outputOrder :
           IF outputOrder[k] = "text" THEN textStarted /\ k = textOutputIndex + 1
           ELSE tools[outputOrder[k]].announced /\ k = tools[outputOrder[k]].outputIndex + 1

\* What is known of a tool call before and after it is announced.
ToolInv ==
    \A i \in CallIDs :
        /\ tools[i].callID = IF i \in sentIDs THEN i ELSE NoCall
        /\ tools[i].name = sentNames[i]
        /\ tools[i].announced <=> i \in sentIDs /\ sentNames[i] # <<>>
        /\ tools[i].announced => tools[i].kind \in {"function_call", "custom_tool_call"}
        /\ ~tools[i].announced => tools[i].arguments = <<>> /\ ~tools[i].done
        /\ tools[i].announced => \E k \in DOMAIN toolOrder : toolOrder[k] = i
        /\ ~SplitNames => /\ sentNames[i] \in Names \cup {<<>>}
                          /\ tools[i].announced => tools[i].kind = toolKind(tools[i].name)

\* What the converter is about to write.
PcInv ==
    /\ textStarted \/ text = <<>>
    /\ pc = "item.added" /\ subject = "text" =>
           textStarted /\ text = <<>> /\ textOutputIndex + 1 = Len(outputOrder)
    /\ pc = "item.added" /\ subject # "text" =>
           /\ tools[subject].announced /\ tools[subject].arguments = <<>>
           /\ tools[subject].outputIndex + 1 = Len(outputOrder)
    /\ pc = "part.added" => subject = "text" /\ textStarted /\ text = <<>>
    /\ pc = "delta" /\ subject = "text" => textStarted
    /\ pc = "delta" /\ subject # "text" => tools[subject].announced
    /\ pc \in ClosingText => textStarted
    /\ pc \in ClosingTool => /\ cursor \in DOMAIN toolOrder /\ subject = toolOrder[cursor]
                             /\ tools[subject].announced /\ tools[subject].done
    /\ pc \notin Finishing \cup Over => cursor = 1 /\ \A i \in CallIDs : ~tools[i].done
    /\ pc = "input.delta" => tools[subject].kind = "custom_tool_call"

\* The tools are closed in their order, each once.
CursorInv ==
    pc \in Finishing =>
        /\ \A k \in DOMAIN toolOrder : k < cursor /\ tools[toolOrder[k]].announced
                                          => tools[toolOrder[k]].done
        /\ \A k \in DOMAIN toolOrder : k > cursor => ~tools[toolOrder[k]].done
        /\ pc = "tools" /\ cursor \in DOMAIN toolOrder => ~tools[toolOrder[cursor]].done

OrderOnce == \A j, k \in DOMAIN toolOrder : toolOrder[j] = toolOrder[k] => j = k

\* Nothing that was sent has been dropped on the way.
SentInv ==
    pc \notin Over =>
        /\ sentText = IF pc \in {"item.added", "part.added", "delta"} /\ subject = "text"
                      THEN text \o delta ELSE text
        /\ textStarted <=> sentText # <<>>
        /\ \A i \in CallIDs :
               /\ tools[i].announced /\ ~(pc = "item.added" /\ subject = i)
                      => tools[i].pending = <<>>
               /\ sentArguments[i] = IF pc = "delta" /\ subject = i
                                     THEN tools[i].arguments \o delta
                                     ELSE tools[i].arguments \o tools[i].pending

IInv == /\ TypeOK /\ PlaceInv /\ OrderInv /\ ToolInv /\ PcInv /\ CursorInv
        /\ OrderOnce /\ SentInv

-----------------------------------------------------------------------------
(* Types *)

\* Unwrapping the input of a custom tool yields a text again.
LEMMA BodyType ==
    ASSUME NEW kind, NEW arguments \in Seq(STRING)
    PROVE  callBody(kind, arguments) \in Seq(STRING)
  <1>1. SubSeq(arguments, 2, Len(arguments) - 1) \in Seq(STRING)
    <2>1. \A i \in 2..Len(arguments) - 1 : arguments[i] \in STRING
      BY ElementOfSeq, LenProperties
    <2> QED
      BY <2>1, SubSeqProperties, LenProperties
  <1> QED
    BY <1>1 DEF callBody, customToolInput

\* A message item is an item, open or finished.
LEMMA MessageType ==
    ASSUME NEW body \in Seq(STRING)
    PROVE  MessageItem(body) \in ItemState /\ Finished(MessageItem(body)) \in ItemState
  BY EmptySeq DEF MessageItem, Finished, ItemState

\* So is the item of a tool call that has its kind.
LEMMA ToolItemType ==
    ASSUME NEW tool \in ToolState, tool.kind \in {"function_call", "custom_tool_call"}
    PROVE  toolItem(tool) \in ItemState /\ Finished(toolItem(tool)) \in ItemState
  <1>1. callBody(tool.kind, tool.arguments) \in Seq(STRING)
    BY BodyType DEF ToolState
  <1> QED
    BY <1>1 DEF toolItem, Finished, ItemState, ToolState

\* Replacing one item, if it is there at all, leaves a sequence of items.
LEMMA ReplaceType ==
    ASSUME NEW S, NEW s \in Seq(S), NEW k, NEW e, k \in 1..Len(s) => e \in S
    PROVE  [s EXCEPT ![k] = e] \in Seq(S)
  <1>1. CASE k \in 1..Len(s)
    BY <1>1, ExceptSeq
  <1>2. CASE k \notin 1..Len(s)
    <2>1. [s EXCEPT ![k] = e] = s
      BY <1>2, LenProperties
    <2> QED
      BY <2>1
  <1> QED
    BY <1>1, <1>2

\* Every event leaves the client with a sequence of items.
LEMMA EventTypes ==
    ASSUME items \in Seq(ItemState), NEW index \in Nat
    PROVE  /\ \A new \in ItemState : ItemAdded(index, new) => items' \in Seq(ItemState)
           /\ \A new \in ItemState : ItemDone(index, new) => items' \in Seq(ItemState)
           /\ \A body \in Seq(STRING) : Delta(index, body) => items' \in Seq(ItemState)
           /\ \A body \in Seq(STRING) : BodyDone(index, body) => items' \in Seq(ItemState)
           /\ \A body \in Seq(STRING) : PartDone(index, body) => items' \in Seq(ItemState)
           /\ PartAdded(index) => items' \in Seq(ItemState)
  <1>1. ASSUME NEW new \in ItemState, ItemAdded(index, new)
        PROVE  items' \in Seq(ItemState)
    BY <1>1, ReplaceType, AppendProperties DEF ItemAdded, Show
  <1>2. ASSUME NEW new \in ItemState, ItemDone(index, new)
        PROVE  items' \in Seq(ItemState)
    <2>1. Finished(new) \in ItemState
      BY DEF Finished, ItemState
    <2> QED
      BY <1>2, <2>1, ReplaceType DEF ItemDone, Show
  <1> DEFINE it == items[index + 1]
  <1>3. index + 1 \in 1..Len(items) => it \in ItemState
    BY ElementOfSeq
  <1>4. ASSUME NEW body \in Seq(STRING), Delta(index, body)
        PROVE  items' \in Seq(ItemState)
    <2>1. index + 1 \in 1..Len(items) => [it EXCEPT !.body = @ \o body] \in ItemState
      BY <1>3, ConcatProperties DEF ItemState
    <2>2. [items EXCEPT ![index + 1] = [it EXCEPT !.body = @ \o body]] \in Seq(ItemState)
      BY <2>1, ReplaceType
    <2> QED
      BY <1>4, <2>2 DEF Delta, Show
  <1>5. ASSUME NEW body \in Seq(STRING), BodyDone(index, body)
        PROVE  items' \in Seq(ItemState)
    <2> DEFINE full == [items EXCEPT ![index + 1] = [it EXCEPT !.body = body]]
    <2>1. index + 1 \in 1..Len(items) => [it EXCEPT !.body = body] \in ItemState
      BY <1>3 DEF ItemState
    <2>2. full \in Seq(ItemState)
      BY <2>1, ReplaceType
    <2>3. index + 1 \in 1..Len(full) => full[index + 1] \in ItemState
      BY <2>2, ElementOfSeq
    <2>4. index + 1 \in 1..Len(full)
              => [full[index + 1] EXCEPT !.stage = "sealed"] \in ItemState
      BY <2>3 DEF ItemState
    <2>5. [full EXCEPT ![index + 1] = [full[index + 1] EXCEPT !.stage = "sealed"]]
              \in Seq(ItemState)
      BY <2>2, <2>4, ReplaceType
    <2> QED
      BY <1>5, <2>5 DEF BodyDone, Show
  <1>6. ASSUME NEW body \in Seq(STRING), PartDone(index, body)
        PROVE  items' \in Seq(ItemState)
    <2> DEFINE full == [items EXCEPT ![index + 1] = [it EXCEPT !.body = body]]
    <2>1. index + 1 \in 1..Len(items) => [it EXCEPT !.body = body] \in ItemState
      BY <1>3 DEF ItemState
    <2>2. full \in Seq(ItemState)
      BY <2>1, ReplaceType
    <2>3. index + 1 \in 1..Len(full) => full[index + 1] \in ItemState
      BY <2>2, ElementOfSeq
    <2>4. index + 1 \in 1..Len(full)
              => [full[index + 1] EXCEPT !.stage = "closed"] \in ItemState
      BY <2>3 DEF ItemState
    <2>5. [full EXCEPT ![index + 1] = [full[index + 1] EXCEPT !.stage = "closed"]]
              \in Seq(ItemState)
      BY <2>2, <2>4, ReplaceType
    <2> QED
      BY <1>6, <2>5 DEF PartDone, Show
  <1>7. ASSUME PartAdded(index)
        PROVE  items' \in Seq(ItemState)
    <2>1. index + 1 \in 1..Len(items) => [it EXCEPT !.stage = "part"] \in ItemState
      BY <1>3 DEF ItemState
    <2>2. [items EXCEPT ![index + 1] = [it EXCEPT !.stage = "part"]] \in Seq(ItemState)
      BY <2>1, ReplaceType
    <2> QED
      BY <1>7, <2>2 DEF PartAdded, Show
  <1> QED
    BY <1>1, <1>2, <1>4, <1>5, <1>6, <1>7

\* finish() builds a sequence of items: everything in the output order has
\* been announced and so has its kind.
LEMMA FinalOutputType ==
    ASSUME TypeOK, OrderInv, ToolInv
    PROVE  finalOutput \in Seq(ItemState)
  <1>1. Finished(MessageItem(<<>>)) \in ItemState
    BY MessageType, EmptySeq
  <1>2. ASSUME NEW k \in DOMAIN outputOrder
        PROVE  finalOutputOf(outputOrder[k]) \in ItemState
    <2>1. CASE outputOrder[k] = "text"
      BY <2>1, MessageType DEF finalOutputOf, TypeOK, ConverterTypeOK
    <2>2. CASE outputOrder[k] # "text"
      <3>1. outputOrder[k] \in CallIDs
        <4>1. outputOrder \in Seq(CallIDs \cup {"text"})
          BY DEF TypeOK, ConverterTypeOK
        <4>2. outputOrder[k] \in CallIDs \cup {"text"}
          BY <4>1, ElementOfSeq, LenProperties
        <4> QED
          BY <2>2, <4>2
      <3>2. tools[outputOrder[k]] \in ToolState
        BY <3>1 DEF TypeOK, ConverterTypeOK
      <3>3. tools[outputOrder[k]].kind \in {"function_call", "custom_tool_call"}
        BY <2>2, <3>1 DEF OrderInv, ToolInv
      <3>4. Finished(toolItem(tools[outputOrder[k]])) \in ItemState
        BY <3>2, <3>3, ToolItemType
      <3>5. finalOutputOf(outputOrder[k]) = Finished(toolItem(tools[outputOrder[k]]))
        BY <2>2 DEF finalOutputOf
      <3> QED
        BY <3>4, <3>5
    <2> QED
      BY <2>1, <2>2
  <1>3. DOMAIN outputOrder = 1..Len(outputOrder) /\ Len(outputOrder) \in Nat
    BY LenProperties DEF TypeOK, ConverterTypeOK
  <1>4. [k \in DOMAIN outputOrder |-> finalOutputOf(outputOrder[k])] \in Seq(ItemState)
    BY <1>2, <1>3
  <1>5. <<Finished(MessageItem(<<>>))>> \in Seq(ItemState)
    BY <1>1
  <1> QED
    BY <1>4, <1>5 DEF finalOutput

\* What a step leaves alone keeps its type.
LEMMA UnchangedTypes ==
    ASSUME TypeOK
    PROVE  /\ UNCHANGED streamVars => StreamTypeOK'
           /\ UNCHANGED <<pc, subject, delta, cursor>> => ControlTypeOK'
           /\ UNCHANGED converterVars => ConverterTypeOK'
           /\ UNCHANGED sentVars => SentTypeOK'
  <1>1. UNCHANGED streamVars => StreamTypeOK'
    BY DEF TypeOK, streamVars, clientVars, StreamTypeOK
  <1>2. UNCHANGED <<pc, subject, delta, cursor>> => ControlTypeOK'
    BY DEF TypeOK, ControlTypeOK
  <1>3. UNCHANGED converterVars => ConverterTypeOK'
    BY DEF TypeOK, converterVars, ConverterTypeOK
  <1>4. UNCHANGED sentVars => SentTypeOK'
    BY DEF TypeOK, sentVars, SentTypeOK
  <1> QED
    BY <1>1, <1>2, <1>3, <1>4

\* A sequence of one element.
LEMMA SingletonSeq ==
    ASSUME NEW S, NEW e \in S
    PROVE  <<e>> \in Seq(S)
  OBVIOUS

\* The values ReadToolDelta passes on are texts.
LEMMA ToolDeltaInputs ==
    ASSUME ReadToolDelta
    PROVE  \E i \in CallIDs, id \in CallIDs \cup {NoCall},
              name \in Names \cup {<<>>}, arguments \in Seq(STRING) :
               /\ id \in {i, NoCall} /\ name \in Seq(STRING)
               /\ name # <<>> /\ ~SplitNames => sentNames[i] = <<>>
               /\ ToolDelta(i, id, name, arguments)
  <1>1. <<>> \in Seq(STRING)
    BY EmptySeq
  <1>2. \A name \in Names \cup {<<>>} : name \in Seq(STRING)
    BY <1>1, ChatStreamAssumption
  <1>3. ASSUME NEW fragment \in Fragments
        PROVE  <<fragment>> \in Seq(STRING)
    <2>1. fragment \in STRING
      BY ChatStreamAssumption
    <2> QED
      BY <2>1, SingletonSeq
  <1> QED
    BY <1>1, <1>2, <1>3 DEF ReadToolDelta

\* What the upstream has sent is recorded as texts, names and ids.
LEMMA SentTypeStep ==
    ASSUME TypeOK, [Next]_vars
    PROVE  SentTypeOK'
  <1>1. ASSUME NEW fragment \in Fragments, TextDelta(fragment)
        PROVE  SentTypeOK'
    <2>1. Append(sentText, fragment) \in Seq(STRING) /\ chunks + 1 \in 0..MaxChunks
      BY <1>1, ChatStreamAssumption, AppendProperties DEF TextDelta, TypeOK, SentTypeOK
    <2> QED
      BY <1>1, <2>1 DEF TextDelta, TypeOK, SentTypeOK
  <1>2. CASE ReadToolDelta
    <2>1. PICK i \in CallIDs, id \in CallIDs \cup {NoCall}, name \in Seq(STRING),
               arguments \in Seq(STRING) :
              ToolDelta(i, id, name, arguments)
      BY <1>2, ToolDeltaInputs
    <2>2. /\ sentArguments[i] \o arguments \in Seq(STRING)
          /\ sentNames[i] \o name \in Seq(STRING)
          /\ chunks + 1 \in 0..MaxChunks
      BY <2>1, ConcatProperties, ChatStreamAssumption DEF ToolDelta, TypeOK, SentTypeOK
    <2> QED
      BY <2>1, <2>2 DEF ToolDelta, TypeOK, SentTypeOK
  <1>3. ASSUME NEW reason \in FinishReasons, FinishReason(reason)
        PROVE  SentTypeOK'
    BY <1>3, ChatStreamAssumption DEF FinishReason, TypeOK, SentTypeOK
  <1>4. CASE UpstreamFails
    BY <1>4 DEF UpstreamFails, TypeOK, SentTypeOK
  <1>5. CASE EndOfStream \/ Write \/ LoseClient \/ UNCHANGED vars
    <2>1. UNCHANGED sentVars
      BY <1>5 DEF EndOfStream, Write, LoseClient, vars, WriteCreated, WriteInProgress,
         WriteItemAdded, WritePartAdded, WriteDelta, WriteTextDone, WritePartDone,
         WriteTextItemDone, NextTool, WriteInputDelta, WriteToolDone, WriteToolItemDone,
         WriteFinal, WriteFailed, WriteError
    <2> QED
      BY <2>1, UnchangedTypes
  <1>6. CASE ReasoningDelta
    BY <1>6, ChatStreamAssumption DEF ReasoningDelta, TypeOK, SentTypeOK
  <1> QED
    BY <1>1, <1>2, <1>3, <1>4, <1>5, <1>6 DEF Next, Read, Returned

\* A tool keeps its shape through every delta.
LEMMA ToolTypes ==
    ASSUME TypeOK, NEW tool \in ToolState, NEW i \in CallIDs, NEW id \in {i, NoCall},
           NEW name \in Seq(STRING), NEW arguments \in Seq(STRING)
    PROVE  /\ withPending(withHeader(tool, id, name), arguments) \in ToolState
           /\ announceTool(tool) \in ToolState
  <1>1. withHeader(tool, id, name) \in ToolState
    BY ConcatProperties DEF withHeader, ToolState
  <1>2. \A other \in ToolState : withPending(other, arguments) \in ToolState
    BY ConcatProperties DEF withPending, ToolState
  <1>3. announceTool(tool) \in ToolState
    BY DEF announceTool, toolKind, ToolState, TypeOK, ConverterTypeOK
  <1> QED
    BY <1>1, <1>2, <1>3

\* The converter's fields keep their types.
LEMMA ConverterTypeStep ==
    ASSUME TypeOK, PcInv, [Next]_vars
    PROVE  ConverterTypeOK'
  <1>1. ASSUME NEW fragment \in Fragments, TextDelta(fragment)
        PROVE  ConverterTypeOK'
    <2>1. Append(outputOrder, "text") \in Seq(CallIDs \cup {"text"})
      BY AppendProperties DEF TypeOK, ConverterTypeOK
    <2>2. /\ textStarted \in BOOLEAN /\ textOutputIndex \in Nat /\ nextOutputIndex \in Nat
          /\ outputOrder \in Seq(CallIDs \cup {"text"})
      BY DEF TypeOK, ConverterTypeOK
    <2>3. /\ outputOrder' \in Seq(CallIDs \cup {"text"})
          /\ textStarted' \in BOOLEAN
          /\ textOutputIndex' \in Nat /\ nextOutputIndex' \in Nat
      <3>1. CASE textStarted
        BY <1>1, <2>2, <3>1 DEF TextDelta
      <3>2. CASE ~textStarted
        BY <1>1, <2>1, <2>2, <3>2 DEF TextDelta
      <3> QED
        BY <3>1, <3>2
    <2>4. UNCHANGED <<text, tools, toolOrder, finishReason>>
      BY <1>1 DEF TextDelta
    <2> QED
      BY <2>3, <2>4 DEF TypeOK, ConverterTypeOK
  <1>2. CASE ReadToolDelta
    <2>1. PICK i \in CallIDs, id \in CallIDs \cup {NoCall},
               name \in Seq(STRING), arguments \in Seq(STRING) :
              id \in {i, NoCall} /\ ToolDelta(i, id, name, arguments)
      BY <1>2, ToolDeltaInputs
    <2> DEFINE tool == withPending(withHeader(tools[i], id, name), arguments)
    <2>2. tool \in ToolState /\ announceTool(tool) \in ToolState
      BY <2>1, ToolTypes DEF TypeOK, ConverterTypeOK
    <2>3. /\ Append(toolOrder, i) \in Seq(CallIDs)
          /\ Append(outputOrder, i) \in Seq(CallIDs \cup {"text"})
      BY AppendProperties DEF TypeOK, ConverterTypeOK
    <2>4. tools' \in [CallIDs -> ToolState]
      <3>1. tools' \in {[tools EXCEPT ![i] = tool], [tools EXCEPT ![i] = announceTool(tool)]}
        BY <2>1 DEF ToolDelta
      <3> HIDE DEF tool
      <3> QED
        BY <3>1, <2>2 DEF TypeOK, ConverterTypeOK
    <2>5. /\ toolOrder' \in {toolOrder, Append(toolOrder, i)}
          /\ outputOrder' \in {outputOrder, Append(outputOrder, i)}
          /\ nextOutputIndex' \in {nextOutputIndex, nextOutputIndex + 1}
          /\ UNCHANGED <<textStarted, textOutputIndex, text, finishReason>>
      BY <2>1 DEF ToolDelta
    <2>6. toolOrder' \in Seq(CallIDs) /\ outputOrder' \in Seq(CallIDs \cup {"text"})
      BY <2>3, <2>5 DEF TypeOK, ConverterTypeOK
    <2>7. nextOutputIndex' \in Nat
      <3>1. nextOutputIndex \in Nat
        BY DEF TypeOK, ConverterTypeOK
      <3> QED
        BY <2>5, <3>1
    <2> QED
      BY <2>4, <2>5, <2>6, <2>7 DEF TypeOK, ConverterTypeOK
  <1>3. ASSUME NEW reason \in FinishReasons, FinishReason(reason)
        PROVE  ConverterTypeOK'
    BY <1>3 DEF FinishReason, TypeOK, ConverterTypeOK
  <1>4. CASE WriteItemAdded
    <2>1. CASE subject = "text"
      BY <1>4, <2>1 DEF WriteItemAdded, TypeOK, ConverterTypeOK
    <2>2. CASE subject # "text"
      <3>1. subject \in CallIDs /\ tools[subject] \in ToolState
        BY <2>2 DEF TypeOK, ControlTypeOK, ConverterTypeOK
      <3>2. [tools[subject] EXCEPT !.pending = <<>>] \in ToolState
        BY <3>1, EmptySeq DEF ToolState
      <3>3. tools' \in [CallIDs -> ToolState]
        BY <1>4, <2>2, <3>1, <3>2 DEF WriteItemAdded, TypeOK, ConverterTypeOK
      <3> QED
        BY <1>4, <2>2, <3>3 DEF WriteItemAdded, TypeOK, ConverterTypeOK
    <2> QED
      BY <2>1, <2>2
  <1>5. CASE WriteDelta
    <2>1. CASE subject = "text"
      <3>1. text \o delta \in Seq(STRING)
        BY ConcatProperties DEF TypeOK, ConverterTypeOK, ControlTypeOK
      <3> QED
        BY <1>5, <2>1, <3>1 DEF WriteDelta, TypeOK, ConverterTypeOK
    <2>2. CASE subject # "text"
      <3>1. subject \in CallIDs /\ tools[subject] \in ToolState
        BY <2>2 DEF TypeOK, ControlTypeOK, ConverterTypeOK
      <3>2. [tools[subject] EXCEPT !.arguments = @ \o delta] \in ToolState
        BY <3>1, ConcatProperties DEF ToolState, TypeOK, ControlTypeOK
      <3>3. tools' \in [CallIDs -> ToolState]
        BY <1>5, <2>2, <3>1, <3>2 DEF WriteDelta, TypeOK, ConverterTypeOK
      <3> QED
        BY <1>5, <2>2, <3>3 DEF WriteDelta, TypeOK, ConverterTypeOK
    <2> QED
      BY <2>1, <2>2
  <1>6. CASE NextTool
    <2>1. toolOrder[cursor] \in CallIDs
      <3>1. cursor \in Nat \ {0} /\ toolOrder \in Seq(CallIDs)
        BY DEF TypeOK, ConverterTypeOK, ControlTypeOK
      <3>2. cursor \in 1..Len(toolOrder)
        BY <1>6, <3>1, LenProperties DEF NextTool
      <3> QED
        BY <3>1, <3>2, ElementOfSeq
    <2>2. [tools[toolOrder[cursor]] EXCEPT !.done = TRUE] \in ToolState
      BY <2>1 DEF ToolState, TypeOK, ConverterTypeOK
    <2>3. tools' \in [CallIDs -> ToolState]
      BY <1>6, <2>1, <2>2 DEF NextTool, TypeOK, ConverterTypeOK
    <2> QED
      BY <1>6, <2>3 DEF NextTool, TypeOK, ConverterTypeOK
  <1>7. CASE UpstreamFails \/ EndOfStream \/ LoseClient \/ UNCHANGED vars
    <2>1. UNCHANGED converterVars
      BY <1>7 DEF UpstreamFails, EndOfStream, LoseClient, vars
    <2> QED
      BY <2>1, UnchangedTypes
  <1>8. ASSUME Write, ~WriteItemAdded, ~WriteDelta, ~NextTool
        PROVE  ConverterTypeOK'
    <2>1. UNCHANGED converterVars
      BY <1>8 DEF Write, WriteCreated, WriteInProgress, WritePartAdded, WriteTextDone,
         WritePartDone, WriteTextItemDone, WriteInputDelta, WriteToolDone, WriteToolItemDone,
         WriteFinal, WriteFailed, WriteError
    <2> QED
      BY <2>1, UnchangedTypes
  <1>9. CASE ReasoningDelta
    BY <1>9, UnchangedTypes DEF ReasoningDelta
  <1> QED
    BY <1>1, <1>2, <1>3, <1>4, <1>5, <1>6, <1>7, <1>8, <1>9 DEF Next, Read, Returned

\* While a tool is being closed, the subject is that tool.
LEMMA ClosingToolTypes ==
    ASSUME TypeOK, ToolInv, PcInv, pc \in ClosingTool
    PROVE  /\ subject \in CallIDs
           /\ subjectIndex = tools[subject].outputIndex /\ subjectIndex \in Nat
           /\ callBody(tools[subject].kind, tools[subject].arguments) \in Seq(STRING)
           /\ toolItem(tools[subject]) \in ItemState
  <1>1. cursor \in DOMAIN toolOrder /\ subject = toolOrder[cursor] /\ tools[subject].announced
    BY DEF PcInv
  <1>2. subject \in CallIDs
    <2>1. toolOrder \in Seq(CallIDs)
      BY DEF TypeOK, ConverterTypeOK
    <2> QED
      BY <1>1, <2>1, ElementOfSeq, LenProperties
  <1>3. tools[subject] \in ToolState
    BY <1>2 DEF TypeOK, ConverterTypeOK
  <1>4. subjectIndex = tools[subject].outputIndex
    BY <1>2, ChatStreamAssumption DEF subjectIndex
  <1>5. tools[subject].outputIndex \in Nat /\ tools[subject].arguments \in Seq(STRING)
    BY <1>3 DEF ToolState
  <1>6. tools[subject].kind \in {"function_call", "custom_tool_call"}
    BY <1>1, <1>2 DEF ToolInv
  <1> QED
    BY <1>2, <1>3, <1>4, <1>5, <1>6, BodyType, ToolItemType

\* Control and inputs keep their types.
LEMMA ControlTypeStep ==
    ASSUME TypeOK, [Next]_vars
    PROVE  ControlTypeOK'
  <1>1. /\ subject \in CallIDs \cup {"text"} /\ delta \in Seq(STRING) /\ cursor \in Nat \ {0}
        /\ <<>> \in Seq(STRING)
    BY EmptySeq DEF TypeOK, ControlTypeOK
  <1>2. ASSUME NEW fragment \in Fragments, TextDelta(fragment)
        PROVE  ControlTypeOK'
    <2>1. <<fragment>> \in Seq(STRING)
      BY ChatStreamAssumption, SingletonSeq
    <2> QED
      BY <1>1, <1>2, <2>1 DEF TextDelta, ControlTypeOK
  <1>3. CASE ReadToolDelta
    <2>1. PICK i \in CallIDs, id \in CallIDs \cup {NoCall},
               name \in Seq(STRING), arguments \in Seq(STRING) :
              id \in {i, NoCall} /\ ToolDelta(i, id, name, arguments)
      BY <1>3, ToolDeltaInputs
    <2>2. /\ pc' \in {"item.added", "delta", "reading"} /\ delta' \in {<<>>, arguments}
          /\ subject' = i /\ cursor' = cursor
      BY <2>1 DEF ToolDelta
    <2> QED
      BY <1>1, <2>2 DEF ControlTypeOK
  <1>4. CASE WriteItemAdded
    <2>1. delta' \in Seq(STRING)
      <3>1. CASE subject = "text"
        BY <1>1, <1>4, <3>1 DEF WriteItemAdded
      <3>2. CASE subject # "text"
        <4>1. tools[subject] \in ToolState
          BY <1>1, <3>2 DEF TypeOK, ConverterTypeOK
        <4>2. tools[subject].pending \in Seq(STRING)
          BY <4>1 DEF ToolState
        <4> QED
          BY <1>4, <3>2, <4>2 DEF WriteItemAdded
      <3> QED
        BY <3>1, <3>2
    <2>2. pc' \in {"part.added", "reading", "delta"} /\ UNCHANGED <<subject, cursor>>
      BY <1>4 DEF WriteItemAdded
    <2> QED
      BY <1>1, <2>1, <2>2 DEF ControlTypeOK
  <1>5. CASE NextTool
    <2>1. toolOrder[cursor] \in CallIDs
      <3>1. toolOrder \in Seq(CallIDs)
        BY DEF TypeOK, ConverterTypeOK
      <3>2. cursor \in 1..Len(toolOrder)
        BY <1>1, <1>5, <3>1, LenProperties DEF NextTool
      <3> QED
        BY <3>1, <3>2, ElementOfSeq
    <2>2. /\ pc' \in {"tools", "input.delta", "tool.done"} /\ UNCHANGED delta
          /\ subject' \in {subject, toolOrder[cursor]} /\ cursor' \in {cursor, cursor + 1}
      BY <1>5 DEF NextTool
    <2>3. cursor' \in Nat \ {0}
      BY <1>1, <2>2
    <2> QED
      BY <1>1, <2>1, <2>2, <2>3 DEF ControlTypeOK
  <1>6. CASE WriteToolItemDone
    BY <1>1, <1>6 DEF WriteToolItemDone, ControlTypeOK
  <1>7. ASSUME NEW reason \in FinishReasons, FinishReason(reason)
        PROVE  ControlTypeOK'
    BY <1>7, UnchangedTypes DEF FinishReason
  <1>10. CASE ReasoningDelta
    BY <1>10, UnchangedTypes DEF ReasoningDelta
  <1>8. CASE UNCHANGED vars
    BY <1>8, UnchangedTypes DEF vars
  <1>9. ASSUME \/ UpstreamFails \/ EndOfStream \/ LoseClient
               \/ Write /\ ~WriteItemAdded /\ ~NextTool /\ ~WriteToolItemDone
        PROVE  ControlTypeOK'
    <2>1. /\ UNCHANGED <<delta, cursor>> /\ subject' \in {subject, "text"}
          /\ pc' \in {pc, "created", "in_progress", "reading", "item.added", "part.added",
                      "delta", "text.done", "text.part.done", "text.item.done", "tools",
                      "input.delta", "tool.done", "tool.item.done", "fail", "returned"}
      BY <1>9 DEF UpstreamFails, EndOfStream, LoseClient, Write, WriteCreated, WriteInProgress,
         WritePartAdded, WriteDelta, WriteTextDone, WritePartDone, WriteTextItemDone,
         WriteInputDelta, WriteToolDone, WriteFinal, WriteFailed, WriteError
    <2> QED
      BY <2>1 DEF TypeOK, ControlTypeOK
  <1> QED
    BY <1>2, <1>3, <1>4, <1>5, <1>6, <1>7, <1>8, <1>9, <1>10 DEF Next, Read, Returned

\* The stream and the client's copy of it keep their types: items are written under
\* indices the client has.
LEMMA StreamTypeStep ==
    ASSUME TypeOK, OrderInv, ToolInv, PcInv, [Next]_vars
    PROVE  StreamTypeOK'
  <1>1. /\ done \in BOOLEAN /\ live \in BOOLEAN
        /\ phase \in {"none", "created", "in_progress"} \cup Terminal
        /\ items \in Seq(ItemState) /\ output \in Seq(ItemState)
    BY DEF TypeOK, StreamTypeOK
  <1>2. ASSUME items' \in Seq(ItemState), UNCHANGED <<done, live, phase, output>>
        PROVE  StreamTypeOK'
    BY <1>1, <1>2 DEF StreamTypeOK
  <1>3. /\ textOutputIndex \in Nat /\ text \in Seq(STRING) /\ delta \in Seq(STRING)
        /\ MessageItem(text) \in ItemState /\ MessageItem(<<>>) \in ItemState
    BY MessageType, EmptySeq DEF TypeOK, ConverterTypeOK, ControlTypeOK
  <1>4. CASE WriteCreated \/ WriteInProgress
    BY <1>1, <1>4 DEF WriteCreated, WriteInProgress, PhaseEvent, StreamTypeOK
  <1>5. CASE WriteItemAdded
    <2>1. UNCHANGED <<done, live, phase, output>>
      BY <1>5 DEF WriteItemAdded, ItemAdded, Show
    <2>2. CASE subject = "text"
      <3>1. items' \in Seq(ItemState)
        BY <1>1, <1>3, <1>5, <2>2, EventTypes DEF WriteItemAdded
      <3> QED
        BY <1>2, <2>1, <3>1
    <2>3. CASE subject # "text"
      <3>1. tools[subject] \in ToolState /\ subject \in CallIDs
        BY <2>3 DEF TypeOK, ControlTypeOK, ConverterTypeOK
      <3>2. tools[subject].announced
        BY <1>5, <2>3 DEF PcInv, WriteItemAdded
      <3>3. tools[subject].kind \in {"function_call", "custom_tool_call"}
        BY <3>1, <3>2 DEF ToolInv
      <3>4. toolItem(tools[subject]) \in ItemState
        BY <3>1, <3>3, ToolItemType
      <3>5. tools[subject].outputIndex \in Nat
        BY <3>1 DEF ToolState
      <3>6. items' \in Seq(ItemState)
        BY <1>1, <1>5, <2>3, <3>4, <3>5, EventTypes DEF WriteItemAdded
      <3> QED
        BY <1>2, <2>1, <3>6
    <2> QED
      BY <2>2, <2>3
  <1>6. CASE WritePartAdded
    <2>1. items' \in Seq(ItemState)
      BY <1>1, <1>3, <1>6, EventTypes DEF WritePartAdded
    <2> QED
      BY <1>2, <1>6, <2>1 DEF WritePartAdded, PartAdded, Show
  <1>7. CASE WriteDelta
    <2>1. UNCHANGED <<done, live, phase, output>>
      BY <1>7 DEF WriteDelta, Delta, Show, clientVars
    <2>2. CASE subject = "text"
      <3>1. items' \in Seq(ItemState)
        BY <1>1, <1>3, <1>7, <2>2, EventTypes DEF WriteDelta
      <3> QED
        BY <1>2, <2>1, <3>1
    <2>3. CASE subject # "text"
      <3>1. tools[subject] \in ToolState
        BY <2>3 DEF TypeOK, ControlTypeOK, ConverterTypeOK
      <3>2. tools[subject].outputIndex \in Nat
        BY <3>1 DEF ToolState
      <3>3. Delta(tools[subject].outputIndex, delta) => items' \in Seq(ItemState)
        BY <1>1, <1>3, <3>2, EventTypes
      <3>4. Delta(tools[subject].outputIndex, delta) \/ UNCHANGED clientVars
        BY <1>7, <2>3 DEF WriteDelta
      <3> QED
        BY <1>1, <1>2, <2>1, <3>3, <3>4 DEF clientVars
    <2> QED
      BY <2>2, <2>3
  <1>8. CASE WriteTextDone
    <2>1. items' \in Seq(ItemState)
      BY <1>1, <1>3, <1>8, EventTypes DEF WriteTextDone
    <2> QED
      BY <1>2, <1>8, <2>1 DEF WriteTextDone, BodyDone, Show
  <1>9. CASE WritePartDone
    <2>1. items' \in Seq(ItemState)
      BY <1>1, <1>3, <1>9, EventTypes DEF WritePartDone
    <2> QED
      BY <1>2, <1>9, <2>1 DEF WritePartDone, PartDone, Show
  <1>10. CASE WriteTextItemDone
    <2>1. items' \in Seq(ItemState)
      BY <1>1, <1>3, <1>10, EventTypes DEF WriteTextItemDone
    <2> QED
      BY <1>2, <1>10, <2>1 DEF WriteTextItemDone, ItemDone, Show
  <1>11. CASE WriteInputDelta
    <2>1. items' \in Seq(ItemState)
      BY <1>1, <1>11, ClosingToolTypes, EventTypes DEF WriteInputDelta, ClosingTool
    <2> QED
      BY <1>2, <1>11, <2>1 DEF WriteInputDelta, Delta, Show
  <1>12. CASE WriteToolDone
    <2>1. items' \in Seq(ItemState)
      BY <1>1, <1>12, ClosingToolTypes, EventTypes DEF WriteToolDone, ClosingTool
    <2> QED
      BY <1>2, <1>12, <2>1 DEF WriteToolDone, BodyDone, Show
  <1>13. CASE WriteToolItemDone
    <2>1. items' \in Seq(ItemState)
      BY <1>1, <1>13, ClosingToolTypes, EventTypes DEF WriteToolItemDone, ClosingTool
    <2> QED
      BY <1>2, <1>13, <2>1 DEF WriteToolItemDone, ItemDone, Show
  <1>14. CASE WriteFinal
    <2>1. finalOutput \in Seq(ItemState) /\ finalStatus \in Terminal
      BY FinalOutputType DEF finalStatus, Terminal
    <2> QED
      BY <1>1, <1>14, <2>1 DEF WriteFinal, TerminalEvent, StreamTypeOK
  <1>15. CASE WriteFailed
    <2>1. <<>> \in Seq(ItemState) /\ "failed" \in Terminal
      BY EmptySeq DEF Terminal
    <2> QED
      BY <1>1, <1>15, <2>1 DEF WriteFailed, TerminalEvent, StreamTypeOK
  <1>16. CASE WriteError
    BY <1>1, <1>16 DEF WriteError, clientVars, StreamTypeOK
  <1>17. CASE LoseClient
    BY <1>1, <1>17 DEF LoseClient, ClientGone, StreamTypeOK
  <1>18. CASE Read \/ NextTool \/ UNCHANGED vars
    <2>1. UNCHANGED streamVars
      BY <1>18 DEF Read, TextDelta, ReadToolDelta, ToolDelta, FinishReason, ReasoningDelta,
         UpstreamFails, EndOfStream, NextTool, vars
    <2> QED
      BY <2>1, UnchangedTypes
  <1> QED
    BY <1>4, <1>5, <1>6, <1>7, <1>8, <1>9, <1>10, <1>11, <1>12, <1>13, <1>14, <1>15, <1>16,
       <1>17, <1>18 DEF Next, Write, Returned

-----------------------------------------------------------------------------
(* Part 2: every step keeps the invariant, and what follows from it.         *)

\* Types are kept by every step.
LEMMA TypeStep ==
    ASSUME TypeOK, OrderInv, ToolInv, PcInv, [Next]_vars
    PROVE  TypeOK'
  BY SentTypeStep, ConverterTypeStep, ControlTypeStep, StreamTypeStep DEF TypeOK

-----------------------------------------------------------------------------
(* Control flow *)

\* How far the response has come is known again after every step.
LEMMA PlaceStep ==
    ASSUME PlaceInv, [Next]_vars
    PROVE  PlaceInv'
  <1>1. CASE UNCHANGED vars
    BY <1>1 DEF vars, streamVars, clientVars, sentVars, PlaceInv, Answered
  <1>2. CASE WriteCreated
    BY <1>2 DEF WriteCreated, PhaseEvent, sentVars, PlaceInv, Answered, Over
  <1>3. CASE WriteInProgress
    BY <1>3 DEF WriteInProgress, PhaseEvent, sentVars, PlaceInv, Answered, Over
  <1>4. CASE UpstreamFails
    BY <1>4 DEF UpstreamFails, streamVars, clientVars, PlaceInv, Answered, Over
  <1>5. ASSUME \/ Read /\ ~UpstreamFails
               \/ WriteItemAdded \/ WritePartAdded \/ WriteDelta \/ WriteTextDone
               \/ WritePartDone \/ WriteTextItemDone \/ NextTool \/ WriteInputDelta
               \/ WriteToolDone \/ WriteToolItemDone
        PROVE  PlaceInv'
    <2>1. /\ UNCHANGED <<done, live, phase, broken>>
          /\ pc \notin {"created", "in_progress", "fail", "returned"}
          /\ pc' \notin {"created", "in_progress", "fail", "returned"}
      <3>1. CASE Read /\ ~UpstreamFails
        BY <3>1 DEF Read, TextDelta, ReadToolDelta, ToolDelta, FinishReason, ReasoningDelta,
           EndOfStream, streamVars, clientVars, sentVars
      <3>2. CASE WriteItemAdded \/ WritePartAdded \/ WriteDelta \/ WriteTextDone
        BY <3>2 DEF WriteItemAdded, WritePartAdded, WriteDelta, WriteTextDone, ItemAdded,
           PartAdded, Delta, BodyDone, Show, clientVars, sentVars
      <3>3. CASE WritePartDone \/ WriteTextItemDone \/ NextTool \/ WriteInputDelta
        BY <3>3 DEF WritePartDone, WriteTextItemDone, NextTool, WriteInputDelta, PartDone,
           ItemDone, Delta, Show, streamVars, clientVars, sentVars
      <3>4. CASE WriteToolDone \/ WriteToolItemDone
        BY <3>4 DEF WriteToolDone, WriteToolItemDone, BodyDone, ItemDone, Show, sentVars
      <3> QED
        BY <1>5, <3>1, <3>2, <3>3, <3>4
    <2> QED
      BY <2>1 DEF PlaceInv, Answered, Over
  <1>6. CASE WriteFinal
    BY <1>6 DEF WriteFinal, TerminalEvent, sentVars, PlaceInv, Answered, Over
  <1>7. CASE WriteFailed
    BY <1>7 DEF WriteFailed, TerminalEvent, sentVars, PlaceInv, Answered, Over
  <1>8. CASE WriteError
    BY <1>8 DEF WriteError, writesNext, clientVars, sentVars, PlaceInv, Answered, Over
  <1>9. CASE LoseClient
    BY <1>9 DEF LoseClient, ClientGone, sentVars, PlaceInv, Answered, Over
  <1> QED
    BY <1>1, <1>2, <1>3, <1>4, <1>5, <1>6, <1>7, <1>8, <1>9 DEF Next, Write, Returned

\* The element a tool is announced on.
nowAnnounced(i) == ~tools[i].announced /\ tools'[i].callID # NoCall /\ tools'[i].name # <<>>

\* What one tool_calls element does to the tool it is about; the other tools
\* are left alone.
toolDeltaEffect(i, id, name, arguments) ==
    /\ \A j \in CallIDs : j # i =>
          /\ tools'[j] = tools[j] /\ sentArguments'[j] = sentArguments[j]
          /\ sentNames'[j] = sentNames[j] /\ (j \in sentIDs' <=> j \in sentIDs)
    /\ sentArguments'[i] = sentArguments[i] \o arguments
    /\ sentNames'[i] = sentNames[i] \o name
    /\ i \in sentIDs' <=> i \in sentIDs \/ id = i
    /\ tools'[i].name = tools[i].name \o name
    /\ tools'[i].callID = IF id = NoCall THEN tools[i].callID ELSE i
    /\ tools'[i].arguments = tools[i].arguments
    /\ tools'[i].done = tools[i].done
    /\ tools'[i].pending = IF tools[i].announced THEN tools[i].pending
                           ELSE tools[i].pending \o arguments
    /\ tools'[i].announced <=> tools[i].announced \/ nowAnnounced(i)
    /\ nowAnnounced(i) => /\ tools'[i].outputIndex = nextOutputIndex
                          /\ tools'[i].kind = toolKind(tools'[i].name)
                          /\ nextOutputIndex' = nextOutputIndex + 1
                          /\ outputOrder' = Append(outputOrder, i)
                          /\ pc' = "item.added" /\ delta' = <<>>
    /\ ~nowAnnounced(i) => /\ tools'[i].outputIndex = tools[i].outputIndex
                           /\ tools'[i].kind = tools[i].kind
                           /\ UNCHANGED <<nextOutputIndex, outputOrder>>
                           /\ pc' = IF tools[i].announced /\ arguments # <<>> THEN "delta"
                                                                           ELSE "reading"
                           /\ delta' = IF tools[i].announced THEN arguments ELSE <<>>
    /\ pc = "reading" /\ subject' = i
    /\ toolOrder' = IF \E k \in DOMAIN toolOrder : toolOrder[k] = i
                    THEN toolOrder ELSE Append(toolOrder, i)
    /\ UNCHANGED <<streamVars, cursor, textStarted, textOutputIndex, text, sentText, broken>>

\* What toolDelta does to the tool, the two orders and the history, in one place.
LEMMA ToolDeltaEffect ==
    ASSUME TypeOK, NEW i \in CallIDs, NEW id \in CallIDs \cup {NoCall}, id \in {i, NoCall},
           NEW name \in Seq(STRING), NEW arguments \in Seq(STRING),
           ToolDelta(i, id, name, arguments)
    PROVE  toolDeltaEffect(i, id, name, arguments)
  <1> DEFINE tool == withPending(withHeader(tools[i], id, name), arguments)
  <1>1. tools[i] \in ToolState /\ tools \in [CallIDs -> ToolState]
    BY DEF TypeOK, ConverterTypeOK
  <1>2. /\ sentArguments \in [CallIDs -> Seq(STRING)] /\ sentNames \in [CallIDs -> Seq(STRING)]
        /\ sentIDs \subseteq CallIDs
    BY DEF TypeOK, SentTypeOK
  <1>3. /\ tool.name = tools[i].name \o name
        /\ tool.callID = IF id = NoCall THEN tools[i].callID ELSE i
        /\ tool.arguments = tools[i].arguments
        /\ tool.done = tools[i].done /\ tool.announced = tools[i].announced
        /\ tool.kind = tools[i].kind /\ tool.outputIndex = tools[i].outputIndex
        /\ tool.pending = IF tools[i].announced THEN tools[i].pending
                          ELSE tools[i].pending \o arguments
    BY <1>1 DEF withPending, withHeader, ToolState
  <1>4. tool \in ToolState
    BY <1>1, ToolTypes
  <1>5. /\ announceTool(tool).name = tool.name /\ announceTool(tool).callID = tool.callID
        /\ announceTool(tool).arguments = tool.arguments
        /\ announceTool(tool).pending = tool.pending /\ announceTool(tool).done = tool.done
        /\ announceTool(tool).announced = TRUE
        /\ announceTool(tool).kind = toolKind(tool.name)
        /\ announceTool(tool).outputIndex = nextOutputIndex
    BY <1>4 DEF announceTool, ToolState
  <1> HIDE DEF tool
  <1>6. /\ tools' = [tools EXCEPT ![i] = IF announceable(tool) THEN announceTool(tool) ELSE tool]
        /\ sentArguments' = [sentArguments EXCEPT ![i] = @ \o arguments]
        /\ sentNames' = [sentNames EXCEPT ![i] = @ \o name]
        /\ sentIDs' = IF id = NoCall THEN sentIDs ELSE sentIDs \cup {i}
        /\ toolOrder' = IF i \in {toolOrder[k] : k \in DOMAIN toolOrder} THEN toolOrder
                                                                   ELSE Append(toolOrder, i)
        /\ subject' = i /\ pc = "reading"
        /\ IF announceable(tool)
           THEN /\ nextOutputIndex' = nextOutputIndex + 1
                /\ outputOrder' = Append(outputOrder, i)
                /\ pc' = "item.added" /\ delta' = <<>>
           ELSE /\ pc' = IF tool.announced /\ arguments # <<>> THEN "delta" ELSE "reading"
                /\ delta' = IF tool.announced THEN arguments ELSE <<>>
                /\ UNCHANGED <<nextOutputIndex, outputOrder>>
    BY DEF ToolDelta, tool
  <1>7. /\ tools'[i] = IF announceable(tool) THEN announceTool(tool) ELSE tool
        /\ \A j \in CallIDs : j # i => tools'[j] = tools[j]
    BY <1>1, <1>6
  <1>8. tools'[i].name = tool.name /\ tools'[i].callID = tool.callID
    BY <1>5, <1>7
  <1>9. nowAnnounced(i) <=> announceable(tool)
    BY <1>3, <1>8 DEF announceable, nowAnnounced
  <1>10. /\ tools'[i].arguments = tool.arguments /\ tools'[i].pending = tool.pending
         /\ tools'[i].done = tool.done
         /\ tools'[i].announced <=> tool.announced \/ nowAnnounced(i)
         /\ nowAnnounced(i) => /\ tools'[i].outputIndex = nextOutputIndex
                               /\ tools'[i].kind = toolKind(tool.name)
         /\ ~nowAnnounced(i) => /\ tools'[i].outputIndex = tool.outputIndex
                                /\ tools'[i].kind = tool.kind
    <2>1. CASE nowAnnounced(i)
      BY <1>5, <1>7, <1>9, <2>1
    <2>2. CASE ~nowAnnounced(i)
      BY <1>7, <1>9, <2>2
    <2> QED
      BY <2>1, <2>2
  <1>11. /\ \A j \in CallIDs : j # i => /\ sentArguments'[j] = sentArguments[j]
                                       /\ sentNames'[j] = sentNames[j]
                                       /\ (j \in sentIDs' <=> j \in sentIDs)
         /\ sentArguments'[i] = sentArguments[i] \o arguments
         /\ sentNames'[i] = sentNames[i] \o name
         /\ i \in sentIDs' <=> i \in sentIDs \/ id = i
    BY <1>2, <1>6, ChatStreamAssumption
  <1>12. UNCHANGED <<streamVars, cursor, textStarted, textOutputIndex, text, sentText, broken>>
    BY DEF ToolDelta
  <1>13. /\ nowAnnounced(i) => /\ nextOutputIndex' = nextOutputIndex + 1
                               /\ outputOrder' = Append(outputOrder, i)
                               /\ pc' = "item.added" /\ delta' = <<>>
         /\ ~nowAnnounced(i) => /\ UNCHANGED <<nextOutputIndex, outputOrder>>
                                /\ pc' = IF tools[i].announced /\ arguments # <<>> THEN "delta"
                                                                                ELSE "reading"
                                /\ delta' = IF tools[i].announced THEN arguments ELSE <<>>
    BY <1>3, <1>6, <1>9
  <1>14. toolOrder' = IF \E k \in DOMAIN toolOrder : toolOrder[k] = i
                      THEN toolOrder ELSE Append(toolOrder, i)
    BY <1>6
  <1> QED
    BY <1>3, <1>6, <1>7, <1>8, <1>10, <1>11, <1>12, <1>13, <1>14 DEF toolDeltaEffect

header(tool) == <<tool.outputIndex, tool.callID, tool.name, tool.kind, tool.announced>>

\* Only tool_calls elements change what is known of a call besides its content.
LEMMA HeadersKept ==
    ASSUME TypeOK, [Next]_vars, ~ReadToolDelta
    PROVE  \A i \in CallIDs : header(tools'[i]) = header(tools[i])
  <1>1. tools \in [CallIDs -> ToolState]
    BY DEF TypeOK, ConverterTypeOK
  <1>2. ASSUME NEW j, NEW tool,
               tool \in {[tools[j] EXCEPT !.pending = <<>>],
                         [tools[j] EXCEPT !.arguments = @ \o delta],
                         [tools[j] EXCEPT !.done = TRUE]},
               tools' = [tools EXCEPT ![j] = tool]
        PROVE  \A i \in CallIDs : header(tools'[i]) = header(tools[i])
    <2> TAKE i \in CallIDs
    <2>1. tools[i] \in ToolState
      BY <1>1
    <2>2. CASE i = j
      <3>1. tools'[i] = tool
        BY <1>1, <1>2, <2>2
      <3>2. tool \in {[tools[i] EXCEPT !.pending = <<>>],
                      [tools[i] EXCEPT !.arguments = @ \o delta],
                      [tools[i] EXCEPT !.done = TRUE]}
        BY <1>2, <2>2
      <3> HIDE <1>2
      <3>3. header(tool) = header(tools[i])
        BY <2>1, <3>2 DEF header, ToolState
      <3> QED
        BY <3>1, <3>3
    <2>3. CASE i # j
      BY <1>1, <1>2, <2>3
    <2> QED
      BY <2>2, <2>3
  <1>3. CASE WriteItemAdded
    <2>1. UNCHANGED tools \/ tools' = [tools EXCEPT ![subject].pending = <<>>]
      BY <1>3 DEF WriteItemAdded
    <2> QED
      BY <1>2, <2>1
  <1>4. CASE WriteDelta
    <2>1. UNCHANGED tools \/ tools' = [tools EXCEPT ![subject].arguments = @ \o delta]
      BY <1>4 DEF WriteDelta
    <2> QED
      BY <1>2, <2>1
  <1>5. CASE NextTool
    <2>1. UNCHANGED tools \/ tools' = [tools EXCEPT ![toolOrder[cursor]].done = TRUE]
      BY <1>5 DEF NextTool
    <2> QED
      BY <1>2, <2>1
  <1>6. ASSUME ~WriteItemAdded, ~WriteDelta, ~NextTool
        PROVE  UNCHANGED tools
    BY <1>6 DEF Next, Read, TextDelta, FinishReason, ReasoningDelta, UpstreamFails, EndOfStream,
       Write, WriteCreated, WriteInProgress, WritePartAdded, WriteTextDone, WritePartDone,
       WriteTextItemDone, WriteInputDelta, WriteToolDone, WriteToolItemDone, WriteFinal,
       WriteFailed, WriteError, LoseClient, Returned, vars, converterVars
  <1> QED
    BY <1>3, <1>4, <1>5, <1>6

\* A step that is no tool delta either leaves the indices and the order of
\* the output alone or opens the message item.
LEMMA OrderKept ==
    ASSUME [Next]_vars, ~ReadToolDelta,
           ~(\E fragment \in Fragments : TextDelta(fragment))
    PROVE  UNCHANGED <<textStarted, textOutputIndex, outputOrder, nextOutputIndex, toolOrder>>
  BY DEF Next, Read, FinishReason, ReasoningDelta, UpstreamFails, EndOfStream, Write,
     WriteCreated, WriteInProgress, WriteItemAdded, WritePartAdded, WriteDelta, WriteTextDone,
     WritePartDone, WriteTextItemDone, NextTool, WriteInputDelta, WriteToolDone,
     WriteToolItemDone, WriteFinal, WriteFailed, WriteError, LoseClient, Returned,
     vars, converterVars

\* Entries of the output order are appended by what takes the next index.
LEMMA OrderStep ==
    ASSUME TypeOK, OrderInv, ToolInv, PcInv, [Next]_vars
    PROVE  OrderInv'
  <1>1. /\ outputOrder \in Seq(CallIDs \cup {"text"}) /\ Len(outputOrder) \in Nat
        /\ DOMAIN outputOrder = 1..Len(outputOrder)
        /\ nextOutputIndex = Len(outputOrder) /\ textOutputIndex \in Nat
        /\ \A k \in DOMAIN outputOrder : outputOrder[k] \in CallIDs \cup {"text"}
    BY LenProperties, ElementOfSeq DEF TypeOK, ConverterTypeOK, OrderInv
  <1>2. \A i \in CallIDs : tools[i].outputIndex \in Nat
    BY DEF TypeOK, ConverterTypeOK, ToolState
  <1>3. ASSUME NEW e \in CallIDs \cup {"text"}, outputOrder' = Append(outputOrder, e)
        PROVE  /\ Len(outputOrder') = Len(outputOrder) + 1
               /\ DOMAIN outputOrder' = 1..(Len(outputOrder) + 1)
               /\ \A k \in DOMAIN outputOrder : outputOrder'[k] = outputOrder[k]
               /\ outputOrder'[Len(outputOrder) + 1] = e
    BY <1>1, <1>3, AppendProperties, LenProperties
  <1>4. ASSUME NEW fragment \in Fragments, TextDelta(fragment)
        PROVE  OrderInv'
    <2>1. UNCHANGED tools
      BY <1>4 DEF TextDelta
    <2>2. CASE textStarted
      <3>1. UNCHANGED <<textStarted, textOutputIndex, outputOrder, nextOutputIndex>>
        BY <1>4, <2>2 DEF TextDelta
      <3> QED
        BY <2>1, <3>1 DEF OrderInv
    <2>3. CASE ~textStarted
      <3>1. /\ textStarted' /\ textOutputIndex' = nextOutputIndex
            /\ nextOutputIndex' = nextOutputIndex + 1
            /\ outputOrder' = Append(outputOrder, "text")
        BY <1>4, <2>3 DEF TextDelta
      <3>2. /\ Len(outputOrder') = Len(outputOrder) + 1
            /\ DOMAIN outputOrder' = 1..(Len(outputOrder) + 1)
            /\ \A k \in DOMAIN outputOrder : outputOrder'[k] = outputOrder[k]
            /\ outputOrder'[Len(outputOrder) + 1] = "text"
        BY <1>3, <3>1
      <3>3. \A k \in DOMAIN outputOrder : outputOrder[k] # "text"
        BY <2>3 DEF OrderInv
      <3>4. nextOutputIndex' = Len(outputOrder')
        BY <1>1, <3>1, <3>2
      <3>5. textOutputIndex' + 1 = Len(outputOrder) + 1
        BY <1>1, <3>1
      <3>6. \A i \in CallIDs : tools'[i].announced =>
                /\ tools'[i].outputIndex + 1 \in DOMAIN outputOrder'
                /\ outputOrder'[tools'[i].outputIndex + 1] = i
        BY <1>1, <2>1, <3>2 DEF OrderInv
      <3>7. ASSUME NEW k \in DOMAIN outputOrder'
            PROVE  IF outputOrder'[k] = "text" THEN textStarted' /\ k = textOutputIndex' + 1
                   ELSE /\ tools'[outputOrder'[k]].announced
                        /\ k = tools'[outputOrder'[k]].outputIndex + 1
        <4>1. CASE k = Len(outputOrder) + 1
          BY <3>1, <3>2, <3>5, <4>1
        <4>2. CASE k # Len(outputOrder) + 1
          <5>1. k \in DOMAIN outputOrder
            BY <1>1, <3>2, <3>7, <4>2
          <5>2. outputOrder'[k] = outputOrder[k] /\ outputOrder[k] # "text"
            BY <3>2, <3>3, <5>1
          <5> QED
            BY <2>1, <5>1, <5>2 DEF OrderInv
        <4> QED
          BY <4>1, <4>2
      <3>8. textOutputIndex' + 1 \in DOMAIN outputOrder'
            /\ outputOrder'[textOutputIndex' + 1] = "text"
        BY <1>1, <3>2, <3>5
      <3> QED
        BY <3>4, <3>6, <3>7, <3>8 DEF OrderInv
    <2> QED
      BY <2>2, <2>3
  <1>5. CASE ReadToolDelta
    <2>1. PICK i \in CallIDs, id \in CallIDs \cup {NoCall},
               name \in Seq(STRING), arguments \in Seq(STRING) :
              id \in {i, NoCall} /\ ToolDelta(i, id, name, arguments)
      BY <1>5, ToolDeltaInputs
    <2> DEFINE now == nowAnnounced(i)
    <2>2. /\ \A j \in CallIDs : j # i => tools'[j] = tools[j]
          /\ tools'[i].announced <=> tools[i].announced \/ now
          /\ now => /\ tools'[i].outputIndex = nextOutputIndex
                    /\ nextOutputIndex' = nextOutputIndex + 1
                    /\ outputOrder' = Append(outputOrder, i)
          /\ ~now => /\ tools'[i].outputIndex = tools[i].outputIndex
                     /\ UNCHANGED <<nextOutputIndex, outputOrder>>
          /\ UNCHANGED <<textStarted, textOutputIndex>>
      <3>1. toolDeltaEffect(i, id, name, arguments)
        BY <2>1, ToolDeltaEffect
      <3> QED
        BY <3>1 DEF toolDeltaEffect
    <2>3. now => ~tools[i].announced
      BY DEF nowAnnounced
    <2>4. i # "text"
      BY ChatStreamAssumption
    <2>5. CASE ~now
      <3>1. \A j \in CallIDs : /\ tools'[j].outputIndex = tools[j].outputIndex
                              /\ tools'[j].announced <=> tools[j].announced
        BY <2>2, <2>5
      <3>2. \A k \in DOMAIN outputOrder : outputOrder[k] # "text" => outputOrder[k] \in CallIDs
        BY <1>1
      <3> QED
        BY <2>2, <2>5, <3>1, <3>2 DEF OrderInv
    <2>6. CASE now
      <3>2. /\ Len(outputOrder') = Len(outputOrder) + 1
            /\ DOMAIN outputOrder' = 1..(Len(outputOrder) + 1)
            /\ \A k \in DOMAIN outputOrder : outputOrder'[k] = outputOrder[k]
            /\ outputOrder'[Len(outputOrder) + 1] = i
        BY <1>3, <2>2, <2>6
      <3>3. \A k \in DOMAIN outputOrder : outputOrder[k] # i
        BY <2>3, <2>4, <2>6 DEF OrderInv
      <3>4. nextOutputIndex' = Len(outputOrder')
        BY <1>1, <2>2, <2>6, <3>2
      <3>5. tools'[i].outputIndex + 1 = Len(outputOrder) + 1 /\ tools'[i].announced
        BY <1>1, <2>2, <2>6
      <3>6. ASSUME NEW j \in CallIDs, tools'[j].announced
            PROVE  /\ tools'[j].outputIndex + 1 \in DOMAIN outputOrder'
                   /\ outputOrder'[tools'[j].outputIndex + 1] = j
        <4>1. CASE j = i
          BY <1>1, <3>2, <3>5, <4>1
        <4>2. CASE j # i
          <5>1. tools[j].announced /\ tools'[j] = tools[j]
            BY <2>2, <3>6, <4>2
          <5> QED
            BY <1>1, <3>2, <5>1 DEF OrderInv
        <4> QED
          BY <4>1, <4>2
      <3>7. ASSUME NEW k \in DOMAIN outputOrder'
            PROVE  IF outputOrder'[k] = "text" THEN textStarted' /\ k = textOutputIndex' + 1
                   ELSE /\ tools'[outputOrder'[k]].announced
                        /\ k = tools'[outputOrder'[k]].outputIndex + 1
        <4>1. CASE k = Len(outputOrder) + 1
          BY <2>4, <3>2, <3>5, <4>1
        <4>2. CASE k # Len(outputOrder) + 1
          <5>1. k \in DOMAIN outputOrder
            BY <1>1, <3>2, <3>7, <4>2
          <5>2. outputOrder'[k] = outputOrder[k] /\ outputOrder[k] # i
            BY <3>2, <3>3, <5>1
          <5>3. outputOrder[k] # "text" => tools'[outputOrder[k]] = tools[outputOrder[k]]
            BY <1>1, <2>2, <5>1, <5>2
          <5> QED
            BY <2>2, <5>1, <5>2, <5>3 DEF OrderInv
        <4> QED
          BY <4>1, <4>2
      <3>8. textStarted' => /\ textOutputIndex' + 1 \in DOMAIN outputOrder'
                            /\ outputOrder'[textOutputIndex' + 1] = "text"
        <4>1. textStarted => /\ textOutputIndex + 1 \in DOMAIN outputOrder
                             /\ outputOrder[textOutputIndex + 1] = "text"
          BY DEF OrderInv
        <4>2. \A k \in DOMAIN outputOrder : k \in DOMAIN outputOrder'
          BY <1>1, <3>2
        <4> QED
          BY <2>2, <3>2, <4>1, <4>2
      <3> QED
        BY <3>4, <3>6, <3>7, <3>8 DEF OrderInv
    <2> QED
      BY <2>5, <2>6
  <1>6. ASSUME ~ReadToolDelta, ~(\E fragment \in Fragments : TextDelta(fragment))
        PROVE  OrderInv'
    <2>1. UNCHANGED <<textStarted, textOutputIndex, outputOrder, nextOutputIndex>>
      BY <1>6, OrderKept
    <2>2. \A i \in CallIDs : /\ tools'[i].outputIndex = tools[i].outputIndex
                            /\ tools'[i].announced = tools[i].announced
      BY <1>6, HeadersKept DEF header
    <2>3. \A k \in DOMAIN outputOrder : outputOrder[k] # "text" => outputOrder[k] \in CallIDs
      BY <1>1
    <2> QED
      BY <2>1, <2>2, <2>3 DEF OrderInv
  <1> QED
    BY <1>4, <1>5, <1>6

\* What the other steps do to the state of the tools.
LEMMA ToolsEffect ==
    ASSUME TypeOK, PcInv, [Next]_vars, ~ReadToolDelta
    PROVE  /\ WriteItemAdded /\ subject # "text" =>
                 \A i \in CallIDs :
                     /\ i # subject => tools'[i] = tools[i]
                     /\ i = subject => tools'[i] = [tools[subject] EXCEPT !.pending = <<>>]
           /\ WriteDelta /\ subject # "text" =>
                 \A i \in CallIDs :
                     /\ i # subject => tools'[i] = tools[i]
                     /\ i = subject => tools'[i] = [tools[subject] EXCEPT !.arguments = @ \o delta]
           /\ NextTool /\ closable(tools[toolOrder[cursor]]) =>
                 \A i \in CallIDs :
                     /\ i # toolOrder[cursor] => tools'[i] = tools[i]
                     /\ i = toolOrder[cursor] =>
                            tools'[i] = [tools[toolOrder[cursor]] EXCEPT !.done = TRUE]
           /\ ~(WriteItemAdded /\ subject # "text") /\ ~(WriteDelta /\ subject # "text")
              /\ ~(NextTool /\ closable(tools[toolOrder[cursor]])) => UNCHANGED tools
  <1>1. tools \in [CallIDs -> ToolState]
    BY DEF TypeOK, ConverterTypeOK
  <1>3. WriteItemAdded /\ subject # "text" => tools' = [tools EXCEPT ![subject].pending = <<>>]
    BY DEF WriteItemAdded
  <1>4. WriteDelta /\ subject # "text" => tools' = [tools EXCEPT ![subject].arguments = @ \o delta]
    BY DEF WriteDelta
  <1>5. NextTool /\ closable(tools[toolOrder[cursor]])
            => tools' = [tools EXCEPT ![toolOrder[cursor]].done = TRUE]
    BY DEF NextTool
  <1>6. ~(WriteItemAdded /\ subject # "text") /\ ~(WriteDelta /\ subject # "text")
        /\ ~(NextTool /\ closable(tools[toolOrder[cursor]])) => UNCHANGED tools
    <2>1. /\ WriteItemAdded /\ subject = "text" => UNCHANGED tools
          /\ WriteDelta /\ subject = "text" => UNCHANGED tools
          /\ NextTool /\ ~closable(tools[toolOrder[cursor]]) => UNCHANGED tools
      BY DEF WriteItemAdded, WriteDelta, NextTool
    <2>2. ASSUME ~WriteItemAdded, ~WriteDelta, ~NextTool
          PROVE  UNCHANGED tools
      BY <2>2 DEF Next, Read, TextDelta, FinishReason, ReasoningDelta, UpstreamFails, EndOfStream,
         Write, WriteCreated, WriteInProgress, WritePartAdded, WriteTextDone, WritePartDone,
         WriteTextItemDone, WriteInputDelta, WriteToolDone, WriteToolItemDone, WriteFinal,
         WriteFailed, WriteError, LoseClient, Returned, vars, converterVars
    <2> QED
      BY <2>1, <2>2
  <1>7. WriteItemAdded /\ subject # "text" =>
            \A i \in CallIDs :
                /\ i # subject => tools'[i] = tools[i]
                /\ i = subject => tools'[i] = [tools[subject] EXCEPT !.pending = <<>>]
    BY <1>1, <1>3
  <1>8. WriteDelta /\ subject # "text" =>
            \A i \in CallIDs :
                /\ i # subject => tools'[i] = tools[i]
                /\ i = subject => tools'[i] = [tools[subject] EXCEPT !.arguments = @ \o delta]
    BY <1>1, <1>4
  <1>9. NextTool /\ closable(tools[toolOrder[cursor]]) =>
            \A i \in CallIDs :
                /\ i # toolOrder[cursor] => tools'[i] = tools[i]
                /\ i = toolOrder[cursor] =>
                       tools'[i] = [tools[toolOrder[cursor]] EXCEPT !.done = TRUE]
    BY <1>1, <1>5
  <1> QED
    BY <1>6, <1>7, <1>8, <1>9

\* A call that has not been announced is touched by tool_calls elements only.
LEMMA UnannouncedKept ==
    ASSUME TypeOK, PcInv, [Next]_vars, ~ReadToolDelta, NEW i \in CallIDs, ~tools[i].announced
    PROVE  tools'[i] = tools[i]
  <1>1. WriteItemAdded /\ subject # "text" => tools[subject].announced
    BY DEF PcInv, WriteItemAdded
  <1>2. WriteDelta /\ subject # "text" => tools[subject].announced
    BY DEF PcInv, WriteDelta
  <1>3. closable(tools[toolOrder[cursor]]) => tools[toolOrder[cursor]].announced
    BY DEF closable
  <1> QED
    BY <1>1, <1>2, <1>3, ToolsEffect

\* Header, announcement and kind of a tool agree with what was sent, also when
\* a delta announces it.
LEMMA ToolStep ==
    ASSUME TypeOK, ToolInv, PcInv, [Next]_vars
    PROVE  ToolInv'
  <1>1. CASE ReadToolDelta
    <2>1. PICK i \in CallIDs, id \in CallIDs \cup {NoCall},
               name \in Names \cup {<<>>}, arguments \in Seq(STRING) :
              /\ id \in {i, NoCall} /\ name \in Seq(STRING)
              /\ name # <<>> /\ ~SplitNames => sentNames[i] = <<>>
              /\ ToolDelta(i, id, name, arguments)
      BY <1>1, ToolDeltaInputs
    <2>2. /\ \A j \in CallIDs : j # i =>
                 /\ tools'[j] = tools[j]
                 /\ sentNames'[j] = sentNames[j] /\ (j \in sentIDs' <=> j \in sentIDs)
          /\ sentNames'[i] = sentNames[i] \o name
          /\ i \in sentIDs' <=> i \in sentIDs \/ id = i
          /\ tools'[i].name = tools[i].name \o name
          /\ tools'[i].callID = IF id = NoCall THEN tools[i].callID ELSE i
          /\ tools'[i].arguments = tools[i].arguments
          /\ tools'[i].done = tools[i].done
          /\ tools'[i].announced <=> tools[i].announced \/ nowAnnounced(i)
          /\ nowAnnounced(i) => tools'[i].kind = toolKind(tools'[i].name)
          /\ ~nowAnnounced(i) => tools'[i].kind = tools[i].kind
          /\ toolOrder' = IF \E k \in DOMAIN toolOrder : toolOrder[k] = i
                          THEN toolOrder ELSE Append(toolOrder, i)
      <3>1. toolDeltaEffect(i, id, name, arguments)
        BY <2>1, ToolDeltaEffect
      <3> QED
        BY <3>1 DEF toolDeltaEffect
    <2>3. /\ tools[i].callID = IF i \in sentIDs THEN i ELSE NoCall
          /\ tools[i].name = sentNames[i]
          /\ tools[i].announced <=> i \in sentIDs /\ sentNames[i] # <<>>
          /\ tools[i].announced => tools[i].kind \in {"function_call", "custom_tool_call"}
          /\ ~tools[i].announced => tools[i].arguments = <<>> /\ ~tools[i].done
          /\ ~SplitNames => /\ sentNames[i] \in Names \cup {<<>>}
                            /\ tools[i].announced => tools[i].kind = toolKind(tools[i].name)
      BY DEF ToolInv
    <2>4. sentNames[i] \in Seq(STRING) /\ i # NoCall
      BY ChatStreamAssumption DEF TypeOK, SentTypeOK
    <2>5. /\ sentNames[i] # <<>> => sentNames[i] \o name # <<>>
          /\ name = <<>> => sentNames[i] \o name = sentNames[i]
          /\ sentNames[i] = <<>> => sentNames[i] \o name = name
      BY <2>1, <2>4, ConcatProperties, LenProperties, EmptySeq
    <2>6. tools'[i].callID = IF i \in sentIDs' THEN i ELSE NoCall
      BY <2>1, <2>2, <2>3, <2>4
    <2>7. tools'[i].name = sentNames'[i]
      BY <2>2, <2>3
    <2>8. tools'[i].announced <=> i \in sentIDs' /\ sentNames'[i] # <<>>
      BY <2>2, <2>3, <2>4, <2>5, <2>6, <2>7 DEF nowAnnounced
    <2>9. tools'[i].announced => tools'[i].kind \in {"function_call", "custom_tool_call"}
      BY <2>2, <2>3 DEF toolKind
    <2>10. ~tools'[i].announced => tools'[i].arguments = <<>> /\ ~tools'[i].done
      BY <2>2, <2>3
    <2>11. ASSUME ~SplitNames
           PROVE  /\ sentNames'[i] \in Names \cup {<<>>}
                  /\ tools'[i].announced => tools'[i].kind = toolKind(tools'[i].name)
      BY <2>1, <2>2, <2>3, <2>5, <2>11
    <2>12. toolOrder \in Seq(CallIDs)
      BY DEF TypeOK, ConverterTypeOK
    <2>13. /\ \A k \in DOMAIN toolOrder : k \in DOMAIN toolOrder' /\ toolOrder'[k] = toolOrder[k]
           /\ \E k \in DOMAIN toolOrder' : toolOrder'[k] = i
      <3>1. CASE \E k \in DOMAIN toolOrder : toolOrder[k] = i
        BY <2>2, <3>1
      <3>2. CASE ~\E k \in DOMAIN toolOrder : toolOrder[k] = i
        <4>1. toolOrder' = Append(toolOrder, i)
          BY <2>2, <3>2
        <4>2. Len(toolOrder) + 1 \in DOMAIN toolOrder' /\ toolOrder'[Len(toolOrder) + 1] = i
          BY <2>12, <4>1, AppendProperties, LenProperties
        <4>3. \A k \in DOMAIN toolOrder : k \in DOMAIN toolOrder' /\ toolOrder'[k] = toolOrder[k]
          BY <2>12, <4>1, AppendProperties, LenProperties
        <4> QED
          BY <4>2, <4>3
      <3> QED
        BY <3>1, <3>2
    <2>14. ASSUME NEW j \in CallIDs, j # i
           PROVE  /\ tools'[j] = tools[j] /\ sentNames'[j] = sentNames[j]
                  /\ j \in sentIDs' <=> j \in sentIDs
                  /\ tools[j].announced => \E k \in DOMAIN toolOrder' : toolOrder'[k] = j
      BY <2>2, <2>13, <2>14 DEF ToolInv
    <2> SUFFICES ASSUME NEW j \in CallIDs
                 PROVE  /\ tools'[j].callID = IF j \in sentIDs' THEN j ELSE NoCall
                        /\ tools'[j].name = sentNames'[j]
                        /\ tools'[j].announced <=> j \in sentIDs' /\ sentNames'[j] # <<>>
                        /\ tools'[j].announced
                               => tools'[j].kind \in {"function_call", "custom_tool_call"}
                        /\ ~tools'[j].announced
                               => tools'[j].arguments = <<>> /\ ~tools'[j].done
                        /\ tools'[j].announced => \E k \in DOMAIN toolOrder' : toolOrder'[k] = j
                        /\ ~SplitNames => /\ sentNames'[j] \in Names \cup {<<>>}
                                          /\ tools'[j].announced
                                                 => tools'[j].kind = toolKind(tools'[j].name)
      BY DEF ToolInv
    <2>15. CASE j = i
      BY <2>6, <2>7, <2>8, <2>9, <2>10, <2>11, <2>13, <2>15
    <2>16. CASE j # i
      BY <2>14, <2>16 DEF ToolInv
    <2> QED
      BY <2>15, <2>16
  <1>2. CASE ~ReadToolDelta
    <2>1. /\ UNCHANGED <<sentNames, sentIDs>>
          /\ UNCHANGED toolOrder
      BY <1>2 DEF Next, Read, TextDelta, FinishReason, ReasoningDelta, UpstreamFails, EndOfStream,
         Write, WriteCreated, WriteInProgress, WriteItemAdded, WritePartAdded, WriteDelta,
         WriteTextDone, WritePartDone, WriteTextItemDone, NextTool, WriteInputDelta,
         WriteToolDone, WriteToolItemDone, WriteFinal, WriteFailed, WriteError, LoseClient,
         Returned, vars, converterVars, sentVars
    <2>2. \A i \in CallIDs : /\ tools'[i].callID = tools[i].callID
                            /\ tools'[i].name = tools[i].name
                            /\ tools'[i].kind = tools[i].kind
                            /\ tools'[i].announced = tools[i].announced
      BY <1>2, HeadersKept DEF header
    <2>3. \A i \in CallIDs : ~tools[i].announced => tools'[i] = tools[i]
      BY <1>2, UnannouncedKept
    <2> QED
      BY <2>1, <2>2, <2>3 DEF ToolInv
  <1> QED
    BY <1>1, <1>2

\* A step that touches neither the converter's state nor, but for the place
\* it goes on at, its control.
quietStep ==
    /\ UNCHANGED <<textStarted, textOutputIndex, text, tools, toolOrder, outputOrder,
                   delta, sentText, sentArguments, sentNames, sentIDs>>
    /\ \/ UNCHANGED <<pc, subject, cursor>>
       \/ pc' \in Over
       \/ pc = "created" /\ pc' = "in_progress" /\ UNCHANGED <<subject, cursor>>
       \/ pc = "in_progress" /\ pc' = "reading" /\ UNCHANGED <<subject, cursor>>
       \/ pc = "reading" /\ subject' = "text" /\ UNCHANGED cursor
          /\ pc' = IF textStarted THEN "text.done" ELSE "tools"
       \/ pc = "part.added" /\ pc' = "delta" /\ UNCHANGED <<subject, cursor>>
       \/ pc = "text.done" /\ pc' = "text.part.done" /\ UNCHANGED <<subject, cursor>>
       \/ pc = "text.part.done" /\ pc' = "text.item.done" /\ UNCHANGED <<subject, cursor>>
       \/ pc = "text.item.done" /\ pc' = "tools" /\ UNCHANGED <<subject, cursor>>
       \/ pc = "input.delta" /\ pc' = "tool.done" /\ UNCHANGED <<subject, cursor>>
       \/ pc = "tool.done" /\ pc' = "tool.item.done" /\ UNCHANGED <<subject, cursor>>
       \/ pc = "tool.item.done" /\ pc' = "tools" /\ UNCHANGED subject /\ cursor' = cursor + 1

\* Steps that touch neither tools nor orders nor history.
LEMMA QuietSteps ==
    ASSUME [Next]_vars, ~(\E fragment \in Fragments : TextDelta(fragment)), ~ReadToolDelta,
           ~WriteItemAdded, ~WriteDelta, ~NextTool
    PROVE  quietStep
  <1>1. CASE Write
    BY <1>1 DEF Write, WriteCreated, WriteInProgress, WritePartAdded, WriteTextDone,
       WritePartDone, WriteTextItemDone, WriteInputDelta, WriteToolDone, WriteToolItemDone,
       WriteFinal, WriteFailed, WriteError, vars, converterVars, sentVars, quietStep, Over
  <1>2. CASE ~Write
    BY <1>2 DEF Next, Read, FinishReason, ReasoningDelta, UpstreamFails, EndOfStream, LoseClient,
       Returned, vars, converterVars, sentVars, quietStep, Over
  <1> QED
    BY <1>1, <1>2

\* Every place is left for one whose precondition holds.
LEMMA PcStep ==
    ASSUME TypeOK, OrderInv, ToolInv, PcInv, [Next]_vars
    PROVE  PcInv'
  <1> USE ChatStreamAssumption
  <1>1. /\ subject \in CallIDs \cup {"text"} /\ nextOutputIndex = Len(outputOrder)
        /\ nextOutputIndex \in Nat /\ outputOrder \in Seq(CallIDs \cup {"text"})
        /\ toolOrder \in Seq(CallIDs) /\ textStarted \in BOOLEAN
    BY DEF TypeOK, ControlTypeOK, ConverterTypeOK, OrderInv
  <1>2. ASSUME NEW fragment \in Fragments, TextDelta(fragment)
        PROVE  PcInv'
    <2>1. /\ pc = "reading" /\ UNCHANGED <<text, tools, toolOrder, cursor>>
          /\ subject' = "text" /\ textStarted'
          /\ pc' \in {"delta", "item.added"}
          /\ pc' = "item.added" => /\ ~textStarted /\ textOutputIndex' = nextOutputIndex
                                   /\ outputOrder' = Append(outputOrder, "text")
      <3>1. CASE textStarted
        BY <1>2, <3>1 DEF TextDelta
      <3>2. CASE ~textStarted
        BY <1>2, <3>2 DEF TextDelta
      <3> QED
        BY <3>1, <3>2
    <2>2. pc' = "item.added" => textOutputIndex' + 1 = Len(outputOrder') /\ text' = <<>>
      <3>1. ASSUME pc' = "item.added"
            PROVE  textOutputIndex' + 1 = Len(outputOrder')
        BY <1>1, <2>1, <3>1, AppendProperties
      <3> QED
        BY <2>1, <3>1 DEF PcInv
    <2>3. cursor = 1 /\ \A i \in CallIDs : ~tools[i].done
      BY <2>1 DEF PcInv, Finishing, ClosingTool, Over
    <2> QED
      BY <2>1, <2>2, <2>3 DEF PcInv, ClosingText, ClosingTool
  <1>3. CASE ReadToolDelta
    <2>1. PICK i \in CallIDs, id \in CallIDs \cup {NoCall},
               name \in Seq(STRING), arguments \in Seq(STRING) :
              id \in {i, NoCall} /\ ToolDelta(i, id, name, arguments)
      BY <1>3, ToolDeltaInputs
    <2>2. toolDeltaEffect(i, id, name, arguments)
      BY <2>1, ToolDeltaEffect
    <2>3. /\ \A j \in CallIDs : tools'[j].done = tools[j].done
          /\ UNCHANGED <<cursor, textStarted, textOutputIndex, text>>
          /\ pc = "reading" /\ subject' = i /\ i # "text"
          /\ pc' \in {"item.added", "delta", "reading"}
      BY <2>2 DEF toolDeltaEffect
    <2>4. /\ pc' = "delta" => tools'[i].announced
          /\ pc' = "item.added" => nowAnnounced(i) /\ tools'[i].announced
      BY <2>2 DEF toolDeltaEffect
    <2>5. ASSUME pc' = "item.added"
          PROVE  tools'[i].arguments = <<>> /\ tools'[i].outputIndex + 1 = Len(outputOrder')
      <3>1. ~tools[i].announced
        BY <2>4, <2>5 DEF nowAnnounced
      <3>2. /\ tools'[i].arguments = tools[i].arguments
            /\ tools'[i].outputIndex = nextOutputIndex
            /\ outputOrder' = Append(outputOrder, i)
        BY <2>2, <2>4, <2>5 DEF toolDeltaEffect
      <3>3. tools[i].arguments = <<>>
        BY <3>1 DEF ToolInv
      <3> QED
        BY <1>1, <3>2, <3>3, AppendProperties
    <2>6. cursor = 1 /\ \A j \in CallIDs : ~tools[j].done
      BY <2>3 DEF PcInv, Finishing, ClosingTool, Over
    <2>7. textStarted \/ text = <<>>
      BY DEF PcInv
    <2> QED
      BY <2>3, <2>4, <2>5, <2>6, <2>7 DEF PcInv, ClosingText, ClosingTool
  <1>4. CASE WriteItemAdded
    <2>1. /\ pc = "item.added" /\ UNCHANGED <<subject, cursor, textStarted, text>>
          /\ subject = "text" => pc' = "part.added"
          /\ subject # "text" => pc' \in {"reading", "delta"}
      BY <1>4 DEF WriteItemAdded
    <2>2. \A i \in CallIDs : tools'[i].announced = tools[i].announced
      BY <1>4, HeadersKept DEF header, WriteItemAdded, ReadToolDelta, ToolDelta
    <2>3. \A i \in CallIDs : ~tools'[i].done
      <3>1. \A i \in CallIDs : ~tools[i].done /\ tools[i] \in ToolState
        BY <2>1 DEF PcInv, Finishing, ClosingTool, Over, TypeOK, ConverterTypeOK
      <3>2. \A tool \in ToolState : [tool EXCEPT !.pending = <<>>].done = tool.done
        BY DEF ToolState
      <3>3. CASE subject = "text"
        BY <1>4, <3>1, <3>3 DEF WriteItemAdded
      <3>4. CASE subject # "text"
        <4>1. ~ReadToolDelta
          BY <2>1 DEF ReadToolDelta, ToolDelta
        <4> QED
          BY <1>4, <3>1, <3>2, <3>4, <4>1, ToolsEffect
      <3> QED
        BY <3>3, <3>4
    <2>4. cursor = 1
      BY <2>1 DEF PcInv, Finishing, ClosingTool, Over
    <2>5. /\ textStarted \/ text = <<>>
          /\ subject = "text" => textStarted /\ text = <<>>
          /\ subject # "text" => tools[subject].announced
      BY <2>1 DEF PcInv
    <2>6. subject # "text" => tools'[subject].announced
      BY <1>1, <2>2, <2>5
    <2> QED
      BY <2>1, <2>3, <2>4, <2>5, <2>6 DEF PcInv, ClosingText, ClosingTool
  <1>5. CASE WriteDelta
    <2>1. /\ pc = "delta" /\ pc' = "reading" /\ UNCHANGED <<subject, cursor, textStarted>>
          /\ subject # "text" => UNCHANGED text
      BY <1>5 DEF WriteDelta
    <2>2. \A i \in CallIDs : ~tools'[i].done
      <3>1. \A i \in CallIDs : ~tools[i].done /\ tools[i] \in ToolState
        BY <2>1 DEF PcInv, Finishing, ClosingTool, Over, TypeOK, ConverterTypeOK
      <3>2. \A tool \in ToolState : [tool EXCEPT !.arguments = @ \o delta].done = tool.done
        BY DEF ToolState
      <3>3. CASE subject = "text"
        BY <1>5, <3>1, <3>3 DEF WriteDelta
      <3>4. CASE subject # "text"
        <4>1. ~ReadToolDelta
          BY <2>1 DEF ReadToolDelta, ToolDelta
        <4> QED
          BY <1>5, <3>1, <3>2, <3>4, <4>1, ToolsEffect
      <3> QED
        BY <3>3, <3>4
    <2>3. cursor = 1 /\ (subject = "text" => textStarted) /\ (textStarted \/ text = <<>>)
      BY <2>1 DEF PcInv, Finishing, ClosingTool, Over
    <2> QED
      BY <2>1, <2>2, <2>3 DEF PcInv, ClosingText, ClosingTool
  <1>6. CASE NextTool
    <2>1. /\ pc = "tools" /\ UNCHANGED <<textStarted, text, toolOrder>>
          /\ IF closable(tools[toolOrder[cursor]])
             THEN /\ subject' = toolOrder[cursor] /\ cursor' = cursor
                  /\ pc' = IF tools[toolOrder[cursor]].kind = "custom_tool_call"
                           THEN "input.delta" ELSE "tool.done"
             ELSE pc' = "tools"
      BY <1>6 DEF NextTool
    <2>2. textStarted \/ text = <<>>
      BY DEF PcInv
    <2>3. CASE closable(tools[toolOrder[cursor]])
      <3>1. cursor \in DOMAIN toolOrder /\ toolOrder[cursor] \in CallIDs
        <4>1. cursor \in Nat \ {0}
          BY DEF TypeOK, ControlTypeOK
        <4>2. cursor \in 1..Len(toolOrder)
          BY <1>1, <1>6, <4>1, LenProperties DEF NextTool
        <4> QED
          BY <1>1, <4>2, ElementOfSeq, LenProperties
      <3> DEFINE i == toolOrder[cursor]
      <3>2. ~ReadToolDelta
        BY <2>1 DEF ReadToolDelta, ToolDelta
      <3>3. tools'[i] = [tools[i] EXCEPT !.done = TRUE] /\ tools[i] \in ToolState
        BY <1>6, <2>3, <3>1, <3>2, ToolsEffect DEF TypeOK, ConverterTypeOK
      <3>4. tools'[i].done /\ tools'[i].announced /\ tools'[i].kind = tools[i].kind
        BY <2>3, <3>3 DEF ToolState, closable
      <3>5. i # "text"
        BY <3>1
      <3> QED
        BY <2>1, <2>2, <2>3, <3>1, <3>4, <3>5
           DEF PcInv, ClosingText, ClosingTool, Finishing, Over
    <2>4. CASE ~closable(tools[toolOrder[cursor]])
      BY <2>1, <2>2, <2>4 DEF PcInv, ClosingText, ClosingTool, Finishing, Over
    <2> QED
      BY <2>3, <2>4
  <1>7. ASSUME ~(\E fragment \in Fragments : TextDelta(fragment)), ~ReadToolDelta,
               ~WriteItemAdded, ~WriteDelta, ~NextTool
        PROVE  PcInv'
    <2>1. quietStep
      BY <1>7, QuietSteps
    <2> QED
      BY <2>1 DEF quietStep, PcInv, ClosingText, ClosingTool, Finishing, Over
  <1> QED
    BY <1>2, <1>3, <1>4, <1>5, <1>6, <1>7

\* A tool enters toolOrder with its first delta only.
LEMMA OrderOnceStep ==
    ASSUME TypeOK, OrderOnce, [Next]_vars
    PROVE  OrderOnce'
  <1>1. toolOrder \in Seq(CallIDs) /\ DOMAIN toolOrder = 1..Len(toolOrder) /\ Len(toolOrder) \in Nat
    BY LenProperties DEF TypeOK, ConverterTypeOK
  <1>2. CASE ReadToolDelta
    <2>1. PICK i \in CallIDs, id \in CallIDs \cup {NoCall},
               name \in Seq(STRING), arguments \in Seq(STRING) :
              id \in {i, NoCall} /\ ToolDelta(i, id, name, arguments)
      BY <1>2, ToolDeltaInputs
    <2>2. toolDeltaEffect(i, id, name, arguments)
      BY <2>1, ToolDeltaEffect
    <2>3. toolOrder' = IF \E k \in DOMAIN toolOrder : toolOrder[k] = i
                       THEN toolOrder ELSE Append(toolOrder, i)
      BY <2>2 DEF toolDeltaEffect
    <2>4. CASE \E k \in DOMAIN toolOrder : toolOrder[k] = i
      BY <2>3, <2>4 DEF OrderOnce
    <2>5. CASE ~\E k \in DOMAIN toolOrder : toolOrder[k] = i
      <3>1. /\ DOMAIN toolOrder' = 1..(Len(toolOrder) + 1)
            /\ \A k \in DOMAIN toolOrder : toolOrder'[k] = toolOrder[k]
            /\ toolOrder'[Len(toolOrder) + 1] = i
        BY <1>1, <2>3, <2>5, AppendProperties, LenProperties
      <3>2. \A k \in DOMAIN toolOrder' : k \in DOMAIN toolOrder \/ k = Len(toolOrder) + 1
        BY <1>1, <3>1
      <3> QED
        BY <2>5, <3>1, <3>2 DEF OrderOnce
    <2> QED
      BY <2>4, <2>5
  <1>3. CASE ~ReadToolDelta
    <2>1. UNCHANGED toolOrder
      BY <1>3 DEF Next, Read, TextDelta, FinishReason, ReasoningDelta, UpstreamFails, EndOfStream,
         Write, WriteCreated, WriteInProgress, WriteItemAdded, WritePartAdded, WriteDelta,
         WriteTextDone, WritePartDone, WriteTextItemDone, NextTool, WriteInputDelta,
         WriteToolDone, WriteToolItemDone, WriteFinal, WriteFailed, WriteError, LoseClient,
         Returned, vars, converterVars
    <2> QED
      BY <2>1 DEF OrderOnce
  <1> QED
    BY <1>2, <1>3

\* The closing loop goes on to the next tool when the last one is done.
LEMMA CursorStep ==
    ASSUME TypeOK, ToolInv, PcInv, OrderOnce, CursorInv, [Next]_vars
    PROVE  CursorInv'
  <1>1. /\ toolOrder \in Seq(CallIDs) /\ cursor \in Nat \ {0}
        /\ DOMAIN toolOrder = 1..Len(toolOrder) /\ Len(toolOrder) \in Nat
        /\ \A k \in DOMAIN toolOrder : toolOrder[k] \in CallIDs
    BY LenProperties, ElementOfSeq DEF TypeOK, ControlTypeOK, ConverterTypeOK
  <1>2. CASE NextTool
    <2>1. /\ pc = "tools" /\ UNCHANGED toolOrder /\ cursor \in DOMAIN toolOrder
          /\ IF closable(tools[toolOrder[cursor]])
             THEN pc' \in ClosingTool /\ cursor' = cursor
             ELSE pc' = "tools" /\ cursor' = cursor + 1 /\ UNCHANGED tools
      <3>1. pc = "tools" /\ cursor <= Len(toolOrder)
        BY <1>2 DEF NextTool
      <3>2. cursor \in DOMAIN toolOrder
        BY <1>1, <3>1
      <3> QED
        BY <1>2, <3>1, <3>2 DEF NextTool, ClosingTool
    <2>2. /\ \A k \in DOMAIN toolOrder : k < cursor /\ tools[toolOrder[k]].announced
                                          => tools[toolOrder[k]].done
          /\ \A k \in DOMAIN toolOrder : k > cursor => ~tools[toolOrder[k]].done
          /\ ~tools[toolOrder[cursor]].done
      BY <2>1 DEF CursorInv, Finishing
    <2>3. CASE closable(tools[toolOrder[cursor]])
      <3>1. ~ReadToolDelta
        BY <2>1 DEF ReadToolDelta, ToolDelta
      <3>2. \A i \in CallIDs : i # toolOrder[cursor] => tools'[i] = tools[i]
        BY <1>2, <2>3, <3>1, ToolsEffect
      <3>3. \A k \in DOMAIN toolOrder : k # cursor => tools'[toolOrder[k]] = tools[toolOrder[k]]
        BY <1>1, <2>1, <3>2 DEF OrderOnce
      <3>4. \A k \in DOMAIN toolOrder : k < cursor \/ k > cursor => k # cursor
        BY <1>1
      <3>5. pc' # "tools"
        BY <2>1, <2>3 DEF ClosingTool
      <3> QED
        BY <2>1, <2>2, <2>3, <3>3, <3>4, <3>5 DEF CursorInv
    <2>4. CASE ~closable(tools[toolOrder[cursor]])
      <3>1. tools[toolOrder[cursor]].announced => tools[toolOrder[cursor]].done
        BY <2>4 DEF closable
      <3>2. \A k \in DOMAIN toolOrder : /\ k < cursor + 1 => k < cursor \/ k = cursor
                                        /\ k > cursor + 1 => k > cursor
                                        /\ k = cursor + 1 => k > cursor
        BY <1>1
      <3> QED
        BY <2>1, <2>2, <2>4, <3>1, <3>2 DEF CursorInv
    <2> QED
      BY <2>3, <2>4
  <1>3. ASSUME ~(\E fragment \in Fragments : TextDelta(fragment)), ~ReadToolDelta,
               ~WriteItemAdded, ~WriteDelta, ~NextTool
        PROVE  CursorInv'
    <2>1. quietStep
      BY <1>3, QuietSteps
    <2>2. CASE pc \in {"reading", "text.item.done"}
      <3>1. cursor = 1 /\ \A i \in CallIDs : ~tools[i].done
        BY <2>2 DEF PcInv, Finishing, ClosingTool, Over
      <3>2. /\ UNCHANGED <<tools, toolOrder>>
            /\ UNCHANGED cursor \/ pc' \in Over
        BY <2>1, <2>2 DEF quietStep
      <3>3. \A k \in DOMAIN toolOrder : ~(k < 1)
        BY <1>1
      <3>4. pc' \in Over => pc' \notin Finishing
        BY DEF Over, Finishing, ClosingTool
      <3> QED
        BY <1>1, <3>1, <3>2, <3>3, <3>4 DEF CursorInv
    <2>3. CASE pc = "tool.item.done" /\ pc' = "tools" /\ cursor' = cursor + 1
      <3>1. tools[toolOrder[cursor]].done
        BY <2>3 DEF PcInv, ClosingTool
      <3>2. \A k \in DOMAIN toolOrder : /\ k < cursor + 1 => k < cursor \/ k = cursor
                                        /\ k > cursor + 1 => k > cursor
                                        /\ k = cursor + 1 => k > cursor
        BY <1>1
      <3>3. /\ \A k \in DOMAIN toolOrder : k < cursor /\ tools[toolOrder[k]].announced
                                            => tools[toolOrder[k]].done
            /\ \A k \in DOMAIN toolOrder : k > cursor => ~tools[toolOrder[k]].done
        BY <2>3 DEF CursorInv, Finishing, ClosingTool
      <3>4. UNCHANGED <<tools, toolOrder>>
        BY <2>1 DEF quietStep
      <3> QED
        BY <2>3, <3>1, <3>2, <3>3, <3>4 DEF CursorInv
    <2>4. CASE /\ pc \notin {"reading", "text.item.done"}
               /\ ~(pc = "tool.item.done" /\ pc' = "tools" /\ cursor' = cursor + 1)
      <3>1. /\ UNCHANGED <<tools, toolOrder>>
            /\ pc' \in Finishing => pc \in Finishing /\ UNCHANGED cursor
            /\ pc' = "tools" => pc = "tools"
        BY <2>1, <2>4 DEF quietStep, Finishing, ClosingTool, Over
      <3> QED
        BY <3>1 DEF CursorInv
    <2> QED
      BY <2>2, <2>3, <2>4
  <1>4. ASSUME NEW fragment \in Fragments, TextDelta(fragment)
        PROVE  pc' \notin Finishing
    BY <1>4 DEF TextDelta, Finishing, ClosingTool
  <1>5. CASE ReadToolDelta \/ WriteItemAdded \/ WriteDelta
    <2>1. pc' \in {"item.added", "delta", "reading", "part.added"}
      BY <1>5 DEF ReadToolDelta, ToolDelta, WriteItemAdded, WriteDelta
    <2> QED
      BY <2>1 DEF CursorInv, Finishing, ClosingTool
  <1> QED
    BY <1>2, <1>3, <1>4, <1>5 DEF CursorInv

\* Joining texts.
LEMMA TextConcat ==
    /\ \A r \in Seq(STRING) : r \o <<>> = r
    /\ \A r, s, t \in Seq(STRING) : (r \o s) \o t = r \o (s \o t)
  <1>1. \A r \in Seq(STRING) : r \o <<>> = r
    BY ConcatEmptySeq
  <1>2. \A r, s, t \in Seq(STRING) : (r \o s) \o t = r \o (s \o t)
    BY ConcatAssociative
  <1> QED
    BY <1>1, <1>2

\* What a chunk brings is either written next or kept pending.
LEMMA SentStep ==
    ASSUME TypeOK, ToolInv, PcInv, SentInv, [Next]_vars
    PROVE  SentInv'
  <1>1. /\ text \in Seq(STRING) /\ sentText \in Seq(STRING) /\ delta \in Seq(STRING)
        /\ textStarted \in BOOLEAN /\ subject \in CallIDs \cup {"text"}
        /\ \A i \in CallIDs : /\ tools[i] \in ToolState /\ sentArguments[i] \in Seq(STRING)
                              /\ tools[i].arguments \in Seq(STRING)
                              /\ tools[i].pending \in Seq(STRING)
    BY DEF TypeOK, ConverterTypeOK, ControlTypeOK, SentTypeOK, ToolState
  <1>2. ASSUME NEW fragment \in Fragments, TextDelta(fragment)
        PROVE  SentInv'
    <2>1. /\ pc = "reading" /\ pc' \in {"item.added", "delta"} /\ subject' = "text"
          /\ delta' = <<fragment>> /\ sentText' = Append(sentText, fragment)
          /\ textStarted' /\ UNCHANGED <<text, tools, sentArguments>>
      <3>1. CASE textStarted
        BY <1>2, <3>1 DEF TextDelta
      <3>2. CASE ~textStarted
        BY <1>2, <3>2 DEF TextDelta
      <3> QED
        BY <3>1, <3>2
    <2>2. /\ sentText = text
          /\ \A i \in CallIDs : /\ tools[i].announced => tools[i].pending = <<>>
                                /\ sentArguments[i] = tools[i].arguments \o tools[i].pending
      BY <2>1 DEF SentInv, Over
    <2>3. Append(sentText, fragment) = text \o <<fragment>> /\ Append(sentText, fragment) # <<>>
      <3>1. fragment \in STRING
        BY ChatStreamAssumption
      <3> QED
        BY <1>1, <2>2, <3>1, AppendIsConcat, AppendProperties
    <2> QED
      BY ChatStreamAssumption, <2>1, <2>2, <2>3 DEF SentInv
  <1>3. CASE ReadToolDelta
    <2>1. PICK i \in CallIDs, id \in CallIDs \cup {NoCall},
               name \in Seq(STRING), arguments \in Seq(STRING) :
              id \in {i, NoCall} /\ ToolDelta(i, id, name, arguments)
      BY <1>3, ToolDeltaInputs
    <2>2. toolDeltaEffect(i, id, name, arguments)
      BY <2>1, ToolDeltaEffect
    <2>3. /\ \A j \in CallIDs : j # i => /\ tools'[j] = tools[j]
                                         /\ sentArguments'[j] = sentArguments[j]
          /\ sentArguments'[i] = sentArguments[i] \o arguments
          /\ tools'[i].arguments = tools[i].arguments
          /\ tools'[i].pending = IF tools[i].announced THEN tools[i].pending
                                 ELSE tools[i].pending \o arguments
          /\ tools'[i].announced <=> tools[i].announced \/ nowAnnounced(i)
          /\ nowAnnounced(i) => pc' = "item.added" /\ delta' = <<>>
          /\ ~nowAnnounced(i) =>
                /\ pc' = IF tools[i].announced /\ arguments # <<>> THEN "delta" ELSE "reading"
                /\ delta' = IF tools[i].announced THEN arguments ELSE <<>>
          /\ pc = "reading" /\ subject' = i /\ i # "text"
          /\ UNCHANGED <<text, textStarted, sentText>>
      BY <2>2, ChatStreamAssumption DEF toolDeltaEffect
    <2>4. /\ sentText = text /\ (textStarted <=> sentText # <<>>)
          /\ \A j \in CallIDs : /\ tools[j].announced => tools[j].pending = <<>>
                                /\ sentArguments[j] = tools[j].arguments \o tools[j].pending
      BY <2>3 DEF SentInv, Over
    <2>5. nowAnnounced(i) => ~tools[i].announced
      BY DEF nowAnnounced
    <2>6. pc' \in {"item.added", "delta", "reading"}
      BY <2>3
    <2>7. /\ tools'[i].announced /\ ~(pc' = "item.added" /\ subject' = i)
                 => tools'[i].pending = <<>>
          /\ sentArguments'[i] = IF pc' = "delta" /\ subject' = i
                                 THEN tools'[i].arguments \o delta'
                                 ELSE tools'[i].arguments \o tools'[i].pending
      <3>1. CASE tools[i].announced
        <4>1. /\ sentArguments'[i] = tools[i].arguments \o arguments
              /\ tools'[i].pending = <<>> /\ ~nowAnnounced(i)
              /\ delta' = arguments /\ (pc' = "delta" <=> arguments # <<>>)
          <5>1. sentArguments[i] = tools[i].arguments
            <6>1. sentArguments[i] = tools[i].arguments \o <<>>
              BY <2>4, <3>1
            <6>2. tools[i].arguments \in Seq(STRING)
              BY <1>1
            <6> QED
              BY <6>1, <6>2, TextConcat
          <5> QED
            BY <2>3, <2>4, <2>5, <3>1, <5>1
        <4> QED
          BY <2>3, <4>1
      <3>2. CASE ~tools[i].announced
        <4>1. pc' # "delta" /\ tools'[i].pending = tools[i].pending \o arguments
          BY <2>3, <3>2
        <4>2. sentArguments'[i] = tools[i].arguments \o (tools[i].pending \o arguments)
          <5>1. sentArguments'[i] = (tools[i].arguments \o tools[i].pending) \o arguments
            BY <2>3, <2>4
          <5>2. tools[i].arguments \in Seq(STRING) /\ tools[i].pending \in Seq(STRING)
            BY <1>1
          <5>3. (tools[i].arguments \o tools[i].pending) \o arguments
                    = tools[i].arguments \o (tools[i].pending \o arguments)
            BY <5>2, TextConcat
          <5> QED
            BY <5>1, <5>3
        <4> QED
          BY <2>3, <3>2, <4>1, <4>2
      <3> QED
        BY <3>1, <3>2
    <2>8. ASSUME NEW j \in CallIDs, j # i
          PROVE  /\ tools'[j].announced => tools'[j].pending = <<>>
                 /\ subject' # j
                 /\ sentArguments'[j] = tools'[j].arguments \o tools'[j].pending
      BY <2>3, <2>4, <2>8
    <2> QED
      BY <2>3, <2>4, <2>6, <2>7, <2>8 DEF SentInv, Over
  <1>4. CASE WriteItemAdded
    <2>1. /\ pc = "item.added" /\ UNCHANGED <<subject, textStarted, text, sentText, sentArguments>>
          /\ subject = "text" => pc' = "part.added" /\ UNCHANGED <<tools, delta>>
          /\ subject # "text" =>
                /\ pc' = IF tools[subject].pending = <<>> THEN "reading" ELSE "delta"
                /\ delta' = tools[subject].pending
      BY <1>4 DEF WriteItemAdded, sentVars
    <2>2. /\ sentText = IF subject = "text" THEN text \o delta ELSE text
          /\ textStarted <=> sentText # <<>>
          /\ \A i \in CallIDs :
                /\ tools[i].announced /\ subject # i => tools[i].pending = <<>>
                /\ sentArguments[i] = tools[i].arguments \o tools[i].pending
      BY <2>1 DEF SentInv, Over
    <2>3. CASE subject = "text"
      BY ChatStreamAssumption, <2>1, <2>2, <2>3 DEF SentInv, Over
    <2>4. CASE subject # "text"
      <3>1. ~ReadToolDelta /\ subject \in CallIDs
        BY <1>1, <2>1, <2>4 DEF ReadToolDelta, ToolDelta
      <3>2. /\ \A i \in CallIDs : i # subject => tools'[i] = tools[i]
            /\ tools'[subject] = [tools[subject] EXCEPT !.pending = <<>>]
        BY <1>4, <2>4, <3>1, ToolsEffect
      <3>3. tools'[subject].pending = <<>> /\ tools'[subject].arguments = tools[subject].arguments
        BY <1>1, <3>1, <3>2 DEF ToolState
      <3>4. sentArguments[subject] = tools[subject].arguments \o tools[subject].pending
        BY <2>2, <3>1
      <3> QED
        BY <2>1, <2>2, <2>4, <3>1, <3>2, <3>3, <3>4 DEF SentInv, Over
    <2> QED
      BY <2>3, <2>4
  <1>5. CASE WriteDelta
    <2>1. /\ pc = "delta" /\ pc' = "reading"
          /\ UNCHANGED <<subject, delta, textStarted, sentText, sentArguments>>
          /\ subject = "text" => text' = text \o delta /\ UNCHANGED tools
          /\ subject # "text" => UNCHANGED text
      BY <1>5 DEF WriteDelta, sentVars
    <2>2. /\ sentText = IF subject = "text" THEN text \o delta ELSE text
          /\ textStarted <=> sentText # <<>>
          /\ \A i \in CallIDs :
                /\ tools[i].announced => tools[i].pending = <<>>
                /\ sentArguments[i] = IF subject = i THEN tools[i].arguments \o delta
                                      ELSE tools[i].arguments \o tools[i].pending
      BY <2>1 DEF SentInv, Over
    <2>3. CASE subject = "text"
      <3>1. \A i \in CallIDs : subject # i
        BY <2>3, ChatStreamAssumption
      <3> QED
        BY <2>1, <2>2, <2>3, <3>1 DEF SentInv, Over
    <2>4. CASE subject # "text"
      <3>1. ~ReadToolDelta /\ subject \in CallIDs
        BY <1>1, <2>1, <2>4 DEF ReadToolDelta, ToolDelta
      <3>2. /\ \A i \in CallIDs : i # subject => tools'[i] = tools[i]
            /\ tools'[subject] = [tools[subject] EXCEPT !.arguments = @ \o delta]
        BY <1>5, <2>4, <3>1, ToolsEffect
      <3>3. /\ tools'[subject].pending = tools[subject].pending
            /\ tools'[subject].arguments = tools[subject].arguments \o delta
        BY <1>1, <3>1, <3>2 DEF ToolState
      <3>4. tools[subject].pending = <<>>
        BY <2>1, <2>2, <2>4, <3>1 DEF PcInv
      <3>5. sentArguments'[subject] = tools'[subject].arguments \o tools'[subject].pending
        <4>1. tools[subject].arguments \o delta \in Seq(STRING)
          BY <1>1, <3>1, ConcatProperties
        <4> QED
          BY <2>1, <2>2, <3>1, <3>3, <3>4, <4>1, TextConcat
      <3> QED
        BY <2>1, <2>2, <2>4, <3>1, <3>2, <3>3, <3>4, <3>5 DEF SentInv, Over
    <2> QED
      BY <2>3, <2>4
  <1>6. CASE NextTool
    <2>1. /\ pc = "tools" /\ pc' \in {"tools", "input.delta", "tool.done"}
          /\ UNCHANGED <<textStarted, text, sentText, sentArguments>>
      BY <1>6 DEF NextTool, sentVars
    <2>2. \A i \in CallIDs : /\ tools'[i].arguments = tools[i].arguments
                            /\ tools'[i].pending = tools[i].pending
                            /\ tools'[i].announced = tools[i].announced
      <3>1. CASE closable(tools[toolOrder[cursor]])
        <4>1. ~ReadToolDelta
          BY <2>1 DEF ReadToolDelta, ToolDelta
        <4>2. \A i \in CallIDs : tools'[i] \in {tools[i], [tools[i] EXCEPT !.done = TRUE]}
          BY <1>6, <3>1, <4>1, ToolsEffect
        <4>3. \A tool \in ToolState : LET new == [tool EXCEPT !.done = TRUE] IN
                  /\ new.arguments = tool.arguments /\ new.pending = tool.pending
                  /\ new.announced = tool.announced
          BY DEF ToolState
        <4> QED
          BY <1>1, <4>2, <4>3
      <3>2. CASE ~closable(tools[toolOrder[cursor]])
        BY <1>6, <3>2 DEF NextTool
      <3> QED
        BY <3>1, <3>2
    <2> QED
      BY <2>1, <2>2 DEF SentInv, Over
  <1>7. ASSUME ~(\E fragment \in Fragments : TextDelta(fragment)), ~ReadToolDelta,
               ~WriteItemAdded, ~WriteDelta, ~NextTool
        PROVE  SentInv'
    <2>1. quietStep
      BY <1>7, QuietSteps
    <2>2. pc = "part.added" => subject = "text"
      BY DEF PcInv
    <2> QED
      BY ChatStreamAssumption, <2>1, <2>2 DEF quietStep, SentInv, Over
  <1> QED
    BY <1>2, <1>3, <1>4, <1>5, <1>6, <1>7

-----------------------------------------------------------------------------
(* The invariant *)

\* The invariant holds before the first event.
LEMMA InitInv ==
    ASSUME Init
    PROVE  IInv
  <1> USE ChatStreamAssumption
  <1>1. <<>> \in Seq(STRING) /\ <<>> \in Seq(ItemState) /\ <<>> \in Seq(CallIDs)
        /\ <<>> \in Seq(CallIDs \cup {"text"})
    BY EmptySeq
  <1>2. NewTool \in ToolState
    BY <1>1 DEF NewTool, ToolState
  <1>3. StreamTypeOK
    BY <1>1 DEF Init, StreamInit, StreamTypeOK
  <1>4. ControlTypeOK
    <2>1. pc = "created" /\ subject = "text" /\ delta = <<>> /\ cursor = 1
      BY DEF Init
    <2> QED
      BY <1>1, <2>1 DEF ControlTypeOK
  <1>5. ConverterTypeOK
    BY <1>1, <1>2 DEF Init, ConverterTypeOK
  <1>6. SentTypeOK
    <2>1. /\ chunks = 0 /\ sentText = <<>> /\ broken = FALSE /\ sentIDs = {}
          /\ sentArguments = [i \in CallIDs |-> <<>>] /\ sentNames = [i \in CallIDs |-> <<>>]
      BY DEF Init
    <2>2. sentArguments \in [CallIDs -> Seq(STRING)] /\ sentNames \in [CallIDs -> Seq(STRING)]
      BY <1>1, <2>1
    <2> QED
      <3>1. broken \in BOOLEAN /\ sentIDs \in SUBSET CallIDs
        BY <2>1
      <3>3. chunks \in 0..MaxChunks
        BY <2>1
      <3>2. sentText \in Seq(STRING)
        BY <1>1, <2>1
      <3> QED
        BY <2>2, <3>1, <3>2, <3>3 DEF SentTypeOK
  <1>7. PlaceInv
    BY DEF Init, StreamInit, PlaceInv, Answered
  <1>8. /\ pc = "created" /\ cursor = 1 /\ nextOutputIndex = 0 /\ textStarted = FALSE
        /\ outputOrder = <<>> /\ toolOrder = <<>> /\ text = <<>> /\ sentText = <<>>
        /\ sentIDs = {}
        /\ \A i \in CallIDs : /\ ~tools[i].announced /\ ~tools[i].done
                              /\ tools[i].callID = NoCall /\ tools[i].name = <<>>
                              /\ tools[i].arguments = <<>> /\ tools[i].pending = <<>>
                              /\ sentNames[i] = <<>> /\ sentArguments[i] = <<>>
    <2>1. /\ NewTool.announced = FALSE /\ NewTool.done = FALSE /\ NewTool.callID = NoCall
          /\ NewTool.name = <<>> /\ NewTool.arguments = <<>> /\ NewTool.pending = <<>>
      BY DEF NewTool
    <2>2. \A i \in CallIDs : /\ tools[i] = NewTool /\ sentNames[i] = <<>>
                            /\ sentArguments[i] = <<>>
      BY DEF Init
    <2>3. /\ pc = "created" /\ cursor = 1 /\ nextOutputIndex = 0 /\ textStarted = FALSE
          /\ outputOrder = <<>> /\ toolOrder = <<>> /\ text = <<>> /\ sentText = <<>>
          /\ sentIDs = {}
      BY DEF Init
    <2> QED
      BY <2>1, <2>2, <2>3
  <1>9. DOMAIN outputOrder = {} /\ DOMAIN toolOrder = {} /\ Len(outputOrder) = 0
    BY <1>1, <1>8, EmptySeq, LenProperties
  <1>10. OrderInv
    BY <1>8, <1>9 DEF OrderInv
  <1>11. ToolInv
    BY <1>8 DEF ToolInv
  <1>12. PcInv
    BY <1>8 DEF PcInv, ClosingText, ClosingTool, Finishing, Over
  <1>13. CursorInv
    BY <1>8 DEF CursorInv, Finishing, ClosingTool
  <1>14. OrderOnce
    BY <1>9 DEF OrderOnce
  <1>15. SentInv
    <2>1. <<>> \o <<>> = <<>>
      BY <1>1, ConcatEmptySeq
    <2> QED
      BY <1>8, <2>1 DEF SentInv
  <1> QED
    BY <1>3, <1>4, <1>5, <1>6, <1>7, <1>10, <1>11, <1>12, <1>13, <1>14, <1>15 DEF IInv, TypeOK

\* The invariant is inductive.
LEMMA StepInv ==
    ASSUME IInv, [Next]_vars
    PROVE  IInv'
  BY TypeStep, PlaceStep, OrderStep, ToolStep, PcStep, CursorStep, OrderOnceStep, SentStep DEF IInv

\* The converter's bookkeeping (chat_stream.go chatStreamConverter) is sound
\* at every place of its control flow: indices point at their own entry of
\* the output order, every identified call is announced exactly once, calls
\* are closed in order and each at most once, and of what was sent nothing
\* is missing.
THEOREM Bookkeeping == Spec => []IInv
  <1>1. Init => IInv
    BY InitInv
  <1>2. IInv /\ [Next]_vars => IInv'
    BY StepInv
  <1> QED
    BY <1>1, <1>2, PTL DEF Spec

\* Every variable stays in its domain whatever was streamed: the handler is at a
\* known place, the converter's calls are well-formed and have no kind yet or
\* one of the two it knows (stream.go event, chat_stream.go toolDelta).
THEOREM ChatTypeCorrect == Spec => []TypeOK
  <1>1. IInv => TypeOK
    BY DEF IInv
  <1> QED
    BY <1>1, Bookkeeping, PTL

\* A stream that broke off is never presented as a finished answer (the
\* error return of StreamChatToResponses leads to Fail, never to finish).
THEOREM BrokenIsReported == Spec => []NoAnswerFromBrokenStream
  <1>1. IInv => NoAnswerFromBrokenStream
    BY DEF IInv, PlaceInv, NoAnswerFromBrokenStream
  <1> QED
    BY <1>1, Bookkeeping, PTL

-----------------------------------------------------------------------------
(* Nothing is lost *)

\* The final item of everything in the output order is the one the upstream
\* has sent the parts of.
LEMMA FinalItems ==
    ASSUME IInv, ~SplitNames, pc = "tools", NEW k \in DOMAIN outputOrder
    PROVE  IF outputOrder[k] = "text"
           THEN /\ sentText # <<>>
                /\ finalOutputOf("text") = Finished(MessageItem(sentText))
           ELSE LET i == outputOrder[k] IN
                /\ i \in sentIDs /\ sentNames[i] # <<>>
                /\ finalOutputOf(i) = sentItem(i)
  <1>1. CASE outputOrder[k] = "text"
    <2>1. textStarted
      BY <1>1 DEF IInv, OrderInv
    <2>2. sentText = text /\ (textStarted <=> sentText # <<>>)
      BY DEF IInv, SentInv, Over
    <2> QED
      BY <1>1, <2>1, <2>2 DEF finalOutputOf
  <1>2. CASE outputOrder[k] # "text"
    <2> DEFINE i == outputOrder[k]
    <2>1. i \in CallIDs
      <3>1. outputOrder \in Seq(CallIDs \cup {"text"})
        BY DEF IInv, TypeOK, ConverterTypeOK
      <3> QED
        BY <1>2, <3>1, ElementOfSeq, LenProperties
    <2>2. tools[i].announced
      BY <1>2 DEF IInv, OrderInv
    <2>3. /\ i \in sentIDs /\ sentNames[i] # <<>>
          /\ tools[i].callID = i /\ tools[i].name = sentNames[i]
          /\ tools[i].kind = toolKind(sentNames[i])
      BY <2>1, <2>2 DEF IInv, ToolInv
    <2>4. tools[i].pending = <<>> /\ sentArguments[i] = tools[i].arguments \o tools[i].pending
      BY <2>1, <2>2 DEF IInv, SentInv, Over
    <2>5. tools[i].arguments \in Seq(STRING)
      BY <2>1 DEF IInv, TypeOK, ConverterTypeOK, ToolState
    <2>6. sentArguments[i] = tools[i].arguments
      BY <2>4, <2>5, ConcatEmptySeq
    <2>7. finalOutputOf(i) = Finished(toolItem(tools[i]))
      BY <1>2 DEF finalOutputOf
    <2>8. toolItem(tools[i]) =
              [kind |-> toolKind(sentNames[i]), name |-> sentNames[i], callID |-> i,
               stage |-> "added", body |-> callBody(toolKind(sentNames[i]), sentArguments[i])]
      BY <2>3, <2>6 DEF toolItem
    <2>9. finalOutputOf(i) = sentItem(i)
      BY <2>7, <2>8 DEF sentItem
    <2> QED
      BY <1>2, <2>3, <2>9
  <1> QED
    BY <1>1, <1>2

\* Items are told apart by their call ids.
LEMMA FinalItemIDs ==
    ASSUME NEW i
    PROVE  /\ sentItem(i).callID = i
           /\ \A body : Finished(MessageItem(body)).callID = NoCall
  BY DEF sentItem, Finished, MessageItem

\* The output finish builds is what was sent.
LEMMA FinalIsSent ==
    ASSUME IInv, ~SplitNames, pc = "tools"
    PROVE  /\ {finalOutput[k] : k \in DOMAIN finalOutput}
                = IF sentItems = {} THEN {Finished(MessageItem(<<>>))} ELSE sentItems
           /\ \A j, k \in DOMAIN finalOutput : finalOutput[j] = finalOutput[k] => j = k
  <1>1. /\ outputOrder \in Seq(CallIDs \cup {"text"})
        /\ DOMAIN outputOrder = 1..Len(outputOrder) /\ Len(outputOrder) \in Nat
        /\ \A k \in DOMAIN outputOrder : outputOrder[k] \in CallIDs \cup {"text"}
    BY LenProperties, ElementOfSeq DEF IInv, TypeOK, ConverterTypeOK
  <1> DEFINE called == {i \in sentIDs : sentNames[i] # <<>>}
  <1>2. \A i \in called : i \in CallIDs /\ tools[i].announced
    BY DEF IInv, ToolInv, TypeOK, SentTypeOK
  <1>3. \A i \in called : \E k \in DOMAIN outputOrder : outputOrder[k] = i
    BY <1>2 DEF IInv, OrderInv
  <1>4. sentText # <<>> => \E k \in DOMAIN outputOrder : outputOrder[k] = "text"
    BY DEF IInv, OrderInv, SentInv, Over
  <1>5. sentItems = {sentItem(i) : i \in called}
                    \cup (IF sentText = <<>> THEN {} ELSE {Finished(MessageItem(sentText))})
    BY DEF sentItems
  <1>6. CASE outputOrder = <<>>
    <2>1. DOMAIN outputOrder = {}
      BY <1>1, <1>6, EmptySeq
    <2>2. called = {} /\ sentText = <<>>
      BY <1>3, <1>4, <2>1
    <2>3. sentItems = {}
      BY <1>5, <2>2
    <2>4. finalOutput = <<Finished(MessageItem(<<>>))>>
      BY <1>6 DEF finalOutput
    <2>5. DOMAIN finalOutput = {1} /\ finalOutput[1] = Finished(MessageItem(<<>>))
      BY <2>4
    <2> QED
      BY <2>3, <2>5
  <1>7. CASE outputOrder # <<>>
    <2>1. /\ DOMAIN finalOutput = DOMAIN outputOrder
          /\ \A k \in DOMAIN outputOrder : finalOutput[k] = finalOutputOf(outputOrder[k])
      BY <1>7 DEF finalOutput
    <2>2. \A k \in DOMAIN outputOrder :
              IF outputOrder[k] = "text"
              THEN sentText # <<>> /\ finalOutput[k] = Finished(MessageItem(sentText))
              ELSE outputOrder[k] \in called /\ finalOutput[k] = sentItem(outputOrder[k])
      BY <2>1, FinalItems
    <2>3. \A k \in DOMAIN finalOutput : finalOutput[k] \in sentItems
      BY <1>5, <2>1, <2>2
    <2>4. ASSUME NEW item \in sentItems
          PROVE  \E k \in DOMAIN finalOutput : finalOutput[k] = item
      <3>1. CASE sentText # <<>> /\ item = Finished(MessageItem(sentText))
        BY <1>4, <2>1, <2>2, <3>1
      <3>2. ASSUME NEW i \in called, item = sentItem(i)
            PROVE  \E k \in DOMAIN finalOutput : finalOutput[k] = item
        <4>1. PICK k \in DOMAIN outputOrder : outputOrder[k] = i
          BY <1>3, <3>2
        <4>2. i # "text"
          BY <1>2, <3>2, ChatStreamAssumption
        <4> QED
          BY <2>1, <2>2, <3>2, <4>1, <4>2
      <3> QED
        BY <1>5, <2>4, <3>1, <3>2
    <2>5. 1 \in DOMAIN outputOrder
      BY <1>1, <1>7, EmptySeq
    <2>6. sentItems # {}
      BY <2>1, <2>3, <2>5
    <2>7. ASSUME NEW j \in DOMAIN outputOrder, NEW k \in DOMAIN outputOrder,
                 finalOutput[j] = finalOutput[k]
          PROVE  j = k
      <3>1. outputOrder[j] = outputOrder[k]
        <4>1. \A m \in DOMAIN outputOrder :
                  finalOutput[m].callID = IF outputOrder[m] = "text" THEN NoCall ELSE outputOrder[m]
          BY <2>2, FinalItemIDs
        <4>2. \A m \in DOMAIN outputOrder : outputOrder[m] # NoCall \/ outputOrder[m] = "text"
          BY <1>1, ChatStreamAssumption
        <4> QED
          BY <2>7, <4>1, <4>2
      <3> QED
        BY <3>1, <2>7 DEF IInv, OrderInv
    <2> QED
      BY <2>1, <2>3, <2>4, <2>6, <2>7
  <1> QED
    BY <1>6, <1>7

\* An answered response is the end: the handler has returned.
LEMMA AnsweredRests ==
    ASSUME IInv, Answered, [Next]_vars
    PROVE  UNCHANGED vars
  <1>1. pc = "returned"
    BY DEF IInv, PlaceInv
  <1> QED
    BY <1>1 DEF Next, Read, TextDelta, ReadToolDelta, ToolDelta, FinishReason, ReasoningDelta,
       UpstreamFails, EndOfStream, Write, WriteCreated, WriteInProgress, WriteItemAdded,
       WritePartAdded, WriteDelta, WriteTextDone, WritePartDone, WriteTextItemDone, NextTool,
       WriteInputDelta, WriteToolDone, WriteToolItemDone, WriteFinal, WriteFailed,
       WriteError, writesNext, LoseClient, Returned

\* No step but WriteFinal completes a response.
LEMMA OtherPhases ==
    ASSUME [Next]_vars, ~WriteFinal
    PROVE  phase' = phase \/ phase' \in {"created", "in_progress", "failed"}
  <1>1. CASE Read \/ LoseClient \/ NextTool \/ WriteError \/ UNCHANGED vars
    BY <1>1 DEF Read, TextDelta, ReadToolDelta, ToolDelta, FinishReason, ReasoningDelta,
       UpstreamFails, EndOfStream, LoseClient, ClientGone, NextTool, WriteError, vars,
       streamVars, clientVars
  <1>2. CASE WriteCreated \/ WriteInProgress \/ WriteFailed
    BY <1>2 DEF WriteCreated, WriteInProgress, WriteFailed, PhaseEvent, TerminalEvent
  <1>3. CASE \/ WriteItemAdded \/ WritePartAdded \/ WriteDelta \/ WriteTextDone
             \/ WritePartDone \/ WriteTextItemDone \/ WriteInputDelta
             \/ WriteToolDone \/ WriteToolItemDone
    BY <1>3 DEF WriteItemAdded, WritePartAdded, WriteDelta, WriteTextDone, WritePartDone,
       WriteTextItemDone, WriteInputDelta, WriteToolDone, WriteToolItemDone, ItemAdded,
       PartAdded, Delta, BodyDone, PartDone, ItemDone, Show, clientVars
  <1> QED
    BY <1>1, <1>2, <1>3 DEF Next, Write, Returned

\* A response is completed by WriteFinal alone, with the output it is built from.
LEMMA NothingLostStep ==
    ASSUME IInv, NothingLost, ~SplitNames, [Next]_vars
    PROVE  NothingLost'
  <1>1. UNCHANGED vars => NothingLost'
    <2> SUFFICES ASSUME UNCHANGED vars PROVE NothingLost'
      OBVIOUS
    <2>1. UNCHANGED <<phase, output, sentText, sentArguments, sentNames, sentIDs>>
      BY DEF vars, streamVars, clientVars, sentVars
    <2>2. sentItems' = sentItems
      BY <2>1 DEF sentItems, sentItem
    <2> QED
      BY <2>1, <2>2 DEF NothingLost, Answered
  <1>2. CASE Answered
    BY <1>1, <1>2, AnsweredRests
  <1>3. CASE ~Answered
    <2>1. CASE WriteFinal
      <3>1. /\ pc = "tools"
            /\ UNCHANGED <<sentText, sentArguments, sentNames, sentIDs>>
            /\ phase' = phase \/ output' = finalOutput
        BY <2>1 DEF WriteFinal, TerminalEvent, sentVars
      <3>2. CASE phase' = phase
        BY <1>3, <3>2 DEF NothingLost, Answered
      <3>3. CASE output' = finalOutput
        <4>1. sentItems' = sentItems
          BY <3>1 DEF sentItems, sentItem
        <4> QED
          BY <3>1, <3>3, <4>1, FinalIsSent DEF NothingLost
      <3> QED
        BY <3>1, <3>2, <3>3
    <2>2. CASE ~WriteFinal
      <3>1. phase' = phase \/ phase' \in {"created", "in_progress", "failed"}
        BY <2>2, OtherPhases
      <3> QED
        BY <1>3, <3>1 DEF NothingLost, Answered
    <2> QED
      BY <2>1, <2>2
  <1> QED
    BY <1>2, <1>3

\* When names come whole, a completed response shows what the upstream sent:
\* all the text, and each identified call once with all its arguments, also
\* those that came before its id or name (chat_stream.go toolDelta, finish).
THEOREM NothingIsLost ==
    ASSUME ~SplitNames
    PROVE  Spec => []NothingLost
  <1>1. Init => IInv /\ NothingLost
    BY InitInv DEF Init, StreamInit, NothingLost, Answered
  <1>2. IInv /\ NothingLost /\ [Next]_vars => (IInv /\ NothingLost)'
    BY StepInv, NothingLostStep
  <1> QED
    BY <1>1, <1>2, PTL DEF Spec

-----------------------------------------------------------------------------
(* Part 3: what a client that is still there sees of the converter.          *)

Refs == CallIDs \cup {"text"}

-----------------------------------------------------------------------------
(* The client's copy of an item.                                             *)

\* How far the message has come, by the place of the handler.
textStage(place) == IF place = "part.added" THEN "added"
                    ELSE IF place = "text.part.done" THEN "sealed"
                    ELSE IF place = "text.item.done" THEN "closed"
                    ELSE IF place \in Finishing THEN "done" ELSE "part"

\* How far a call has come, by its state and the place of the handler, if it
\* is the call the handler is about.
toolStage(closed, place) == IF ~closed \/ place \in {"input.delta", "tool.done"} THEN "added"
                            ELSE IF place = "tool.item.done" THEN "sealed" ELSE "done"

\* The input of a custom tool stays back until the tool is closed.
shownBody(tool, place) ==
    IF tool.kind = "custom_tool_call" /\ (~tool.done \/ place = "input.delta") THEN <<>>
    ELSE callBody(tool.kind, tool.arguments)

look(item) == <<item.kind, item.name, item.callID, item.body, item.stage>>
textLook(body, place) == <<"message", <<>>, NoCall, body, textStage(place)>>
toolLook(tool, place) ==
    <<tool.kind, tool.name, tool.callID, shownBody(tool, place), toolStage(tool.done, place)>>

placeOf(i) == IF subject = i THEN pc ELSE "elsewhere"

view == [ref \in Refs |-> IF ref = "text" THEN textLook(text, pc)
                          ELSE toolLook(tools[ref], placeOf(ref))]

\* An item is in the order before its first event has been written.
shownCount == IF pc = "item.added" THEN Len(outputOrder) - 1 ELSE Len(outputOrder)

ViewInv == live /\ pc \notin Over =>
              /\ Len(items) = shownCount
              /\ \A k \in 1..shownCount : look(items[k]) = view[outputOrder[k]]

OutputInv == ~Answered => output = <<>>

ClientInv == IInv /\ ViewInv /\ OutputInv

-----------------------------------------------------------------------------

\* The types the steps below rely on.
LEMMA Basics ==
    ASSUME TypeOK
    PROVE  /\ outputOrder \in Seq(Refs) /\ Len(outputOrder) \in Nat
           /\ DOMAIN outputOrder = 1..Len(outputOrder)
           /\ \A k \in 1..Len(outputOrder) : outputOrder[k] \in Refs
           /\ tools \in [CallIDs -> ToolState] /\ "text" \notin CallIDs
           /\ subject \in Refs /\ text \in Seq(STRING) /\ delta \in Seq(STRING)
           /\ items \in Seq(ItemState) /\ Len(items) \in Nat /\ DOMAIN items = 1..Len(items)
           /\ \A k \in 1..Len(items) : items[k] \in ItemState
           /\ shownCount \in Int /\ shownCount <= Len(outputOrder)
  <1>1. /\ outputOrder \in Seq(Refs) /\ tools \in [CallIDs -> ToolState]
        /\ subject \in Refs /\ text \in Seq(STRING) /\ delta \in Seq(STRING)
        /\ items \in Seq(ItemState) /\ "text" \notin CallIDs
    BY ChatStreamAssumption
    DEF TypeOK, ConverterTypeOK, ControlTypeOK, StreamTypeOK, Refs
  <1>2. /\ Len(outputOrder) \in Nat /\ DOMAIN outputOrder = 1..Len(outputOrder)
        /\ Len(items) \in Nat /\ DOMAIN items = 1..Len(items)
    BY <1>1, LenProperties
  <1>3. /\ \A k \in 1..Len(outputOrder) : outputOrder[k] \in Refs
        /\ \A k \in 1..Len(items) : items[k] \in ItemState
    BY <1>1, ElementOfSeq
  <1>4. shownCount \in Int /\ shownCount <= Len(outputOrder)
    BY <1>2 DEF shownCount
  <1> QED
    BY <1>1, <1>2, <1>3, <1>4

\* An item is what it looks like.
LEMMA LookIsAll ==
    ASSUME NEW a \in ItemState, NEW b \in ItemState, look(a) = look(b)
    PROVE  a = b
  BY DEF look, ItemState

\* Whether an item may stand at a place of the order, and where.
LEMMA OnePlace ==
    ASSUME TypeOK, OrderInv, NEW k \in 1..Len(outputOrder)
    PROVE  /\ outputOrder[k] = "text" => textStarted /\ k = textOutputIndex + 1
           /\ outputOrder[k] # "text" => /\ outputOrder[k] \in CallIDs
                                         /\ tools[outputOrder[k]].announced
                                         /\ k = tools[outputOrder[k]].outputIndex + 1
  BY Basics DEF OrderInv, Refs

\* A step that writes nothing and changes no item that is shown.
LEMMA QuietView ==
    ASSUME TypeOK, ViewInv, UNCHANGED <<items, shownCount>>,
           live' => live, pc' \notin Over => pc \notin Over,
           \A k \in 1..shownCount :
               outputOrder'[k] = outputOrder[k] /\ view'[outputOrder[k]] = view[outputOrder[k]]
    PROVE  ViewInv'
  BY DEF ViewInv

\* A step that writes one item.
LEMMA OneItemView ==
    ASSUME TypeOK, ViewInv, live, pc \notin Over, UNCHANGED <<shownCount, outputOrder>>,
           NEW n \in 1..shownCount, Len(items') = Len(items),
           look(items'[n]) = view'[outputOrder[n]],
           \A k \in 1..shownCount : k # n => /\ items'[k] = items[k]
                                             /\ view'[outputOrder[k]] = view[outputOrder[k]]
    PROVE  ViewInv'
  BY DEF ViewInv

-----------------------------------------------------------------------------
(* What the events do to an item.                                            *)

\* Deltas and closing events touch one item, and what they make of it.
LEMMA EventLooks ==
    ASSUME items \in Seq(ItemState), live, NEW index \in Nat, index + 1 \in 1..Len(items)
    PROVE  LET n == index + 1
               with(body, stage) == <<items[n].kind, items[n].name, items[n].callID, body, stage>>
               others == /\ Len(items') = Len(items)
                         /\ \A k \in 1..Len(items) : k # n => items'[k] = items[k]
           IN /\ PartAdded(index) => others /\ look(items'[n]) = with(items[n].body, "part")
              /\ \A body : Delta(index, body) =>
                    others /\ look(items'[n]) = with(items[n].body \o body, items[n].stage)
              /\ \A body : BodyDone(index, body) =>
                    others /\ look(items'[n]) = with(body, "sealed")
              /\ \A body : PartDone(index, body) =>
                    others /\ look(items'[n]) = with(body, "closed")
              /\ \A item : ItemDone(index, item) => others /\ items'[n] = Finished(item)
  <1> DEFINE n == index + 1
             with(body, stage) == <<items[n].kind, items[n].name, items[n].callID, body, stage>>
             others == /\ Len(items') = Len(items)
                       /\ \A k \in 1..Len(items) : k # n => items'[k] = items[k]
  <1>1. n \in 1..Len(items) /\ items[n] \in ItemState
    BY ElementOfSeq
  <1>2. ASSUME NEW item, items' = [items EXCEPT ![n] = item]
        PROVE  others /\ items'[n] = item
    BY <1>1, <1>2
  <1>3. PartAdded(index) => others /\ look(items'[n]) = with(items[n].body, "part")
    <2> SUFFICES ASSUME PartAdded(index)
                 PROVE  others /\ look(items'[n]) = with(items[n].body, "part")
      OBVIOUS
    <2>1. items' = [items EXCEPT ![n] = [items[n] EXCEPT !.stage = "part"]]
      BY DEF PartAdded, Show
    <2>2. others /\ items'[n] = [items[n] EXCEPT !.stage = "part"]
      BY <1>2, <2>1
    <2> QED
      BY <1>1, <2>2 DEF look, ItemState
  <1>4. ASSUME NEW body, Delta(index, body)
        PROVE  others /\ look(items'[n]) = with(items[n].body \o body, items[n].stage)
    <2>1. items' = [items EXCEPT ![n] = [items[n] EXCEPT !.body = items[n].body \o body]]
      BY <1>4 DEF Delta, Show
    <2>2. others /\ items'[n] = [items[n] EXCEPT !.body = items[n].body \o body]
      BY <1>2, <2>1
    <2> QED
      BY <1>1, <2>2 DEF look, ItemState
  <1>5. ASSUME NEW body, NEW stage,
               items' = [items EXCEPT ![index + 1].body = body, ![index + 1].stage = stage]
        PROVE  others /\ look(items'[n]) = with(body, stage)
    <2> DEFINE full == [items EXCEPT ![n] = [items[n] EXCEPT !.body = body]]
    <2>1. items' = [full EXCEPT ![n] = [full[n] EXCEPT !.stage = stage]]
      BY <1>5
    <2>2. full[n] = [items[n] EXCEPT !.body = body] /\ DOMAIN full = DOMAIN items
      BY <1>1
    <2>3. items' = [items EXCEPT ![n] = [[items[n] EXCEPT !.body = body] EXCEPT !.stage = stage]]
      BY <1>1, <2>1, <2>2
    <2>4. others /\ items'[n] = [[items[n] EXCEPT !.body = body] EXCEPT !.stage = stage]
      BY <1>2, <2>3
    <2> QED
      BY <1>1, <2>4 DEF look, ItemState
  <1>6. /\ \A body : BodyDone(index, body) => others /\ look(items'[n]) = with(body, "sealed")
        /\ \A body : PartDone(index, body) => others /\ look(items'[n]) = with(body, "closed")
    BY <1>5 DEF BodyDone, PartDone, Show
  <1>7. ASSUME NEW item, ItemDone(index, item)
        PROVE  others /\ items'[n] = Finished(item)
    BY <1>2, <1>7 DEF ItemDone, Show
  <1> QED
    BY <1>3, <1>4, <1>6, <1>7

-----------------------------------------------------------------------------
(* Which steps change what the client sees of an item. *)

\* What is seen of the message and of a call, before and after a step.
LEMMA ViewOf ==
    /\ view["text"] = textLook(text, pc) \/ "text" \in CallIDs
    /\ view'["text"] = textLook(text', pc') \/ "text" \in CallIDs
    /\ \A i \in CallIDs : i # "text" => /\ view[i] = toolLook(tools[i], placeOf(i))
                                        /\ view'[i] = toolLook(tools'[i], placeOf(i)')
  BY DEF view, Refs

\* A call is seen unchanged by a step that leaves its header alone, and its
\* arguments unless they are kept back, while it is open or the handler is
\* about another item.
LEMMA ToolViewKept ==
    ASSUME ChatStreamAssumption, NEW i \in CallIDs,
           /\ tools'[i].kind = tools[i].kind /\ tools'[i].name = tools[i].name
           /\ tools'[i].callID = tools[i].callID /\ tools'[i].done = tools[i].done,
           \/ tools'[i].arguments = tools[i].arguments
           \/ tools[i].kind = "custom_tool_call" /\ ~tools[i].done,
           \/ ~tools[i].done
           \/ placeOf(i) \notin ClosingTool /\ placeOf(i)' \notin ClosingTool
    PROVE  view'[i] = view[i]
  <1>1. i # "text"
    BY ChatStreamAssumption
  <1>2. toolStage(tools'[i].done, placeOf(i)') = toolStage(tools[i].done, placeOf(i))
    BY DEF toolStage, ClosingTool
  <1>3. shownBody(tools'[i], placeOf(i)') = shownBody(tools[i], placeOf(i))
    BY DEF shownBody, ClosingTool
  <1> QED
    BY <1>1, <1>2, <1>3, ViewOf DEF toolLook

\* A step that writes nothing, told by what it does to message and calls.
LEMMA QuietRefs ==
    ASSUME TypeOK, OrderInv, ViewInv, UNCHANGED <<items, shownCount>>,
           live' => live, pc' \notin Over => pc \notin Over,
           \A k \in 1..shownCount : outputOrder'[k] = outputOrder[k],
           textStarted => textLook(text', pc') = textLook(text, pc),
           \A i \in CallIDs : tools[i].announced => view'[i] = view[i]
    PROVE  ViewInv'
  <1>1. ASSUME NEW k \in 1..shownCount
        PROVE  outputOrder'[k] = outputOrder[k] /\ view'[outputOrder[k]] = view[outputOrder[k]]
    <2>1. k \in 1..Len(outputOrder)
      BY Basics
    <2>2. CASE outputOrder[k] = "text"
      BY <2>1, <2>2, OnePlace, ViewOf, ChatStreamAssumption
    <2>3. CASE outputOrder[k] # "text"
      BY <2>1, <2>3, OnePlace
    <2> QED
      BY <2>2, <2>3
  <1> QED
    BY <1>1, QuietView

\* A step that writes one item, told in the same way.
LEMMA OneItemRef ==
    ASSUME TypeOK, OrderInv, ViewInv, live, pc \notin Over,
           UNCHANGED <<shownCount, outputOrder>>,
           NEW n \in 1..shownCount, Len(items') = Len(items),
           look(items'[n]) = view'[outputOrder[n]],
           \A k \in 1..Len(items) : k # n => items'[k] = items[k],
           outputOrder[n] # "text" => textLook(text', pc') = textLook(text, pc),
           \A i \in CallIDs : i # outputOrder[n] => view'[i] = view[i]
    PROVE  ViewInv'
  <1>1. n \in 1..Len(outputOrder) /\ shownCount <= Len(outputOrder)
    BY Basics
  <1>2. ASSUME NEW k \in 1..shownCount, k # n
        PROVE  items'[k] = items[k] /\ view'[outputOrder[k]] = view[outputOrder[k]]
    <2>1. k \in 1..Len(outputOrder)
      BY Basics
    <2>2. k \in 1..Len(items)
      BY DEF ViewInv
    <2>3. outputOrder[k] # outputOrder[n]
      BY <1>1, <1>2, <2>1, OnePlace
    <2>4. CASE outputOrder[k] = "text"
      BY <1>2, <2>2, <2>3, <2>4, ViewOf, ChatStreamAssumption
    <2>5. CASE outputOrder[k] # "text"
      BY <1>2, <2>1, <2>2, <2>3, <2>5, OnePlace
    <2> QED
      BY <1>2, <2>2, <2>4, <2>5
  <1> QED
    BY <1>2, OneItemView

-----------------------------------------------------------------------------
(* The steps that write nothing *)

\* Reading text: the message is written only by the steps that follow.
LEMMA TextDeltaView ==
    ASSUME IInv, ViewInv, NEW fragment \in Fragments, TextDelta(fragment)
    PROVE  ViewInv'
  <1>1. /\ pc = "reading" /\ UNCHANGED <<streamVars, text, tools>>
        /\ IF textStarted THEN pc' = "delta" /\ UNCHANGED outputOrder
           ELSE pc' = "item.added" /\ outputOrder' = Append(outputOrder, "text")
    BY DEF TextDelta
  <1>2. TypeOK /\ OrderInv /\ \A i \in CallIDs : ~tools[i].done
    BY <1>1 DEF IInv, PcInv, Finishing, ClosingTool, Over
  <1>3. shownCount = Len(outputOrder)
    BY <1>1 DEF shownCount
  <1>4. shownCount' = shownCount /\ \A k \in 1..shownCount : outputOrder'[k] = outputOrder[k]
    <2>1. CASE textStarted
      BY <1>1, <1>3, <2>1 DEF shownCount
    <2>2. CASE ~textStarted
      <3>1. /\ Len(outputOrder') = Len(outputOrder) + 1
            /\ \A k \in 1..Len(outputOrder) : outputOrder'[k] = outputOrder[k]
        BY <1>1, <1>2, <2>2, Basics, AppendProperties DEF Refs
      <3>2. shownCount' = Len(outputOrder') - 1
        BY <1>1, <2>2 DEF shownCount
      <3> QED
        BY <1>2, <1>3, <3>1, <3>2, Basics
    <2> QED
      BY <2>1, <2>2
  <1>5. textLook(text', pc') = textLook(text, pc)
    BY <1>1 DEF textLook, textStage, Finishing, ClosingTool
  <1>6. \A i \in CallIDs : view'[i] = view[i]
    BY <1>1, <1>2, ToolViewKept, ChatStreamAssumption
  <1>7. UNCHANGED <<items, live>>
    BY <1>1 DEF streamVars, clientVars
  <1> QED
    BY <1>1, <1>2, <1>4, <1>5, <1>6, <1>7, QuietRefs DEF Over

\* Reading a tool_calls element: a call that is already shown keeps what is
\* shown of it.
LEMMA ToolDeltaView ==
    ASSUME IInv, ViewInv, ~SplitNames, ReadToolDelta
    PROVE  ViewInv'
  <1>1. PICK i \in CallIDs, id \in CallIDs \cup {NoCall},
             name \in Names \cup {<<>>}, arguments \in Seq(STRING) :
            /\ id \in {i, NoCall} /\ name \in Seq(STRING)
            /\ name # <<>> /\ ~SplitNames => sentNames[i] = <<>>
            /\ ToolDelta(i, id, name, arguments)
    BY ToolDeltaInputs
  <1>2. TypeOK /\ OrderInv /\ ToolInv
    BY DEF IInv
  <1>3. toolDeltaEffect(i, id, name, arguments)
    BY <1>1, <1>2, ToolDeltaEffect
  <1>4. pc = "reading" /\ UNCHANGED <<items, live, text, textStarted>>
    BY <1>3 DEF toolDeltaEffect, streamVars, clientVars
  <1>5. \A j \in CallIDs : ~tools[j].done
    BY <1>4 DEF IInv, PcInv, Finishing, ClosingTool, Over
  <1>6. pc' \in {"item.added", "delta", "reading"}
    BY <1>3 DEF toolDeltaEffect
  <1>7. shownCount' = shownCount /\ \A k \in 1..shownCount : outputOrder'[k] = outputOrder[k]
    <2>1. CASE nowAnnounced(i)
      <3>1. outputOrder' = Append(outputOrder, i) /\ pc' = "item.added"
        BY <1>3, <2>1 DEF toolDeltaEffect
      <3>2. /\ Len(outputOrder') = Len(outputOrder) + 1
            /\ \A k \in 1..Len(outputOrder) : outputOrder'[k] = outputOrder[k]
        BY <1>2, <3>1, Basics, AppendProperties DEF Refs
      <3>3. shownCount' = Len(outputOrder') - 1 /\ shownCount = Len(outputOrder)
        BY <1>4, <3>1 DEF shownCount
      <3> QED
        BY <1>2, <3>2, <3>3, Basics
    <2>2. CASE ~nowAnnounced(i)
      <3>1. UNCHANGED outputOrder /\ pc' # "item.added"
        BY <1>3, <2>2 DEF toolDeltaEffect
      <3> QED
        BY <1>4, <3>1 DEF shownCount
    <2> QED
      BY <2>1, <2>2
  <1>8. textLook(text', pc') = textLook(text, pc)
    BY <1>4, <1>6 DEF textLook, textStage, Finishing, ClosingTool
  <1>9. ASSUME NEW j \in CallIDs, tools[j].announced
        PROVE  view'[j] = view[j]
    <2>1. CASE j # i
      <3>1. tools'[j] = tools[j]
        BY <1>3, <2>1 DEF toolDeltaEffect
      <3> QED
        BY <1>5, <3>1, ToolViewKept, ChatStreamAssumption
    <2>2. CASE j = i
      <3>1. /\ tools[i].callID = i /\ tools[i].name = sentNames[i] /\ sentNames[i] # <<>>
        BY <1>2, <1>9, <2>2 DEF ToolInv
      <3>2. name = <<>>
        BY <1>1, <3>1
      <3>3. tools[i].name \in Seq(STRING)
        BY <1>2, Basics DEF ToolState
      <3>4. /\ tools'[i].name = tools[i].name \o name
            /\ tools'[i].callID = IF id = NoCall THEN tools[i].callID ELSE i
            /\ tools'[i].arguments = tools[i].arguments /\ tools'[i].done = tools[i].done
            /\ tools'[i].kind = tools[i].kind
        BY <1>3, <1>9, <2>2 DEF toolDeltaEffect, nowAnnounced
      <3>5. tools'[i].name = tools[i].name /\ tools'[i].callID = tools[i].callID
        BY <3>1, <3>2, <3>3, <3>4, ConcatEmptySeq
      <3> QED
        BY <1>5, <2>2, <3>4, <3>5, ToolViewKept, ChatStreamAssumption
    <2> QED
      BY <2>1, <2>2
  <1> QED
    BY <1>2, <1>4, <1>6, <1>7, <1>8, <1>9, QuietRefs DEF Over

\* A finish reason, the end of the body and the first two events change
\* nothing of what is shown.
LEMMA QuietPlacesView ==
    ASSUME IInv, ViewInv,
           \/ \E reason \in FinishReasons : FinishReason(reason)
           \/ ReasoningDelta \/ EndOfStream \/ WriteCreated \/ WriteInProgress \/ UNCHANGED vars
    PROVE  ViewInv'
  <1>1. TypeOK /\ OrderInv
    BY DEF IInv
  <1>2. CASE UNCHANGED vars
    BY <1>2 DEF vars, streamVars, clientVars, converterVars, ViewInv, shownCount, view, placeOf
  <1>3. CASE ~(UNCHANGED vars)
    <2>1. /\ UNCHANGED <<items, live, text, textStarted, tools, outputOrder>>
          /\ pc \in {"reading", "created", "in_progress"}
          /\ pc' \in {"reading", "in_progress", "text.done", "tools"}
          /\ pc' = "tools" => ~textStarted
      BY <1>3 DEF FinishReason, ReasoningDelta, EndOfStream, WriteCreated, WriteInProgress,
         PhaseEvent, streamVars, clientVars, converterVars
    <2>2. \A i \in CallIDs : ~tools[i].done
      BY <2>1 DEF IInv, PcInv, Finishing, ClosingTool, Over
    <2>3. shownCount' = shownCount
      BY <2>1 DEF shownCount
    <2>4. textStarted => textLook(text', pc') = textLook(text, pc)
      BY <2>1 DEF textLook, textStage, Finishing, ClosingTool
    <2>5. \A i \in CallIDs : view'[i] = view[i]
      BY <2>1, <2>2, ToolViewKept, ChatStreamAssumption
    <2> QED
      BY <1>1, <2>1, <2>3, <2>4, <2>5, QuietRefs DEF Over
  <1> QED
    BY <1>2, <1>3

\* Closing the next tool changes nothing before its first closing event.
LEMMA NextToolView ==
    ASSUME IInv, ViewInv, NextTool
    PROVE  ViewInv'
  <1>1. TypeOK /\ OrderInv /\ PcInv
    BY DEF IInv
  <1>2. /\ pc = "tools" /\ UNCHANGED <<items, live, text, outputOrder>>
    BY DEF NextTool, streamVars, clientVars
  <1>3. cursor \in 1..Len(toolOrder) /\ toolOrder \in Seq(CallIDs)
    <2>1. cursor \in Nat \ {0} /\ toolOrder \in Seq(CallIDs)
      BY <1>1 DEF TypeOK, ControlTypeOK, ConverterTypeOK
    <2> QED
      BY <2>1, LenProperties DEF NextTool
  <1>4. PICK i \in CallIDs : i = toolOrder[cursor]
    BY <1>3, ElementOfSeq
  <1>5. CASE ~closable(tools[i])
    <2>1. UNCHANGED <<pc, subject, tools>>
      BY <1>5, <1>4 DEF NextTool
    <2> QED
      BY <1>2, <2>1 DEF ViewInv, shownCount, view, placeOf
  <1>6. CASE closable(tools[i])
    <2>1. /\ tools' = [tools EXCEPT ![i].done = TRUE] /\ subject' = i /\ ~tools[i].done
          /\ pc' = IF tools[i].kind = "custom_tool_call" THEN "input.delta" ELSE "tool.done"
      BY <1>6, <1>4 DEF NextTool, closable
    <2>2. i # "text"
      BY ChatStreamAssumption
    <2>3. /\ tools'[i] = [tools[i] EXCEPT !.done = TRUE] /\ tools[i] \in ToolState
          /\ \A j \in CallIDs : j # i => tools'[j] = tools[j]
      BY <1>1, <2>1, <2>2, Basics
    <2>4. shownCount' = shownCount
      BY <1>2, <2>1 DEF shownCount
    <2>5. textLook(text', pc') = textLook(text, pc)
      BY <1>2, <2>1 DEF textLook, textStage, Finishing, ClosingTool
    <2>6. view'[i] = view[i]
      <3>1. /\ tools'[i].kind = tools[i].kind /\ tools'[i].name = tools[i].name
            /\ tools'[i].callID = tools[i].callID /\ tools'[i].arguments = tools[i].arguments
            /\ tools'[i].done
        BY <2>3 DEF ToolState
      <3>2. placeOf(i)' = pc' /\ placeOf(i) \in {"tools", "elsewhere"}
        BY <1>2, <2>1 DEF placeOf
      <3>3. shownBody(tools'[i], placeOf(i)') = shownBody(tools[i], placeOf(i))
        BY <2>1, <3>1, <3>2 DEF shownBody
      <3>4. toolStage(tools'[i].done, placeOf(i)') = toolStage(tools[i].done, placeOf(i))
        BY <2>1, <3>1, <3>2 DEF toolStage
      <3> QED
        BY <2>2, <3>1, <3>3, <3>4, ViewOf DEF toolLook
    <2>7. ASSUME NEW j \in CallIDs, j # i
          PROVE  view'[j] = view[j]
      <3>1. placeOf(j)' = "elsewhere" /\ placeOf(j) \in {"tools", "elsewhere"}
        BY <1>2, <2>1, <2>7 DEF placeOf
      <3>2. tools'[j] = tools[j]
        BY <2>3, <2>7
      <3> QED
        BY <3>1, <3>2, ToolViewKept, ChatStreamAssumption DEF ClosingTool
    <2> QED
      BY <1>1, <1>2, <2>1, <2>4, <2>5, <2>6, <2>7, QuietRefs DEF Over
  <1> QED
    BY <1>5, <1>6

\* The item the handler is about, as the client finds it at its index.
LEMMA SubjectPlace ==
    ASSUME IInv, ViewInv, live, pc \notin Over, pc # "item.added",
           NEW ref \in Refs, ref = "text" => textStarted,
           ref # "text" => tools[ref].announced
    PROVE  LET index == IF ref = "text" THEN textOutputIndex ELSE tools[ref].outputIndex
           IN /\ index \in Nat /\ index + 1 \in 1..shownCount /\ shownCount = Len(items)
              /\ outputOrder[index + 1] = ref /\ look(items[index + 1]) = view[ref]
              /\ items \in Seq(ItemState) /\ items[index + 1] \in ItemState
  <1> DEFINE index == IF ref = "text" THEN textOutputIndex ELSE tools[ref].outputIndex
  <1>1. TypeOK /\ OrderInv
    BY DEF IInv
  <1>2. index \in Nat
    BY <1>1, Basics DEF Refs, ToolState, TypeOK, ConverterTypeOK
  <1>3. index + 1 \in 1..Len(outputOrder) /\ outputOrder[index + 1] = ref
    BY <1>1, Basics DEF OrderInv, Refs
  <1>4. shownCount = Len(outputOrder) /\ shownCount = Len(items)
    BY DEF shownCount, ViewInv
  <1>5. look(items[index + 1]) = view[ref]
    BY <1>3, <1>4 DEF ViewInv
  <1> QED
    BY <1>1, <1>2, <1>3, <1>4, <1>5, Basics

\* What the client has of the message when the handler is about to go on
\* with it.
LEMMA MessageSeen ==
    ASSUME IInv, ViewInv, live,
           \/ pc \in {"part.added"} \cup ClosingText
           \/ pc = "delta" /\ subject = "text"
    PROVE  LET n == textOutputIndex + 1
           IN /\ textStarted /\ textOutputIndex \in Nat
              /\ n \in 1..shownCount /\ shownCount = Len(items) /\ outputOrder[n] = "text"
              /\ items \in Seq(ItemState) /\ items[n] \in ItemState
              /\ items[n].kind = "message" /\ items[n].name = <<>> /\ items[n].callID = NoCall
              /\ items[n].body = text /\ items[n].stage = textStage(pc)
  <1> DEFINE n == textOutputIndex + 1
  <1>1. textStarted
    BY DEF IInv, PcInv, ClosingText
  <1>2. /\ textOutputIndex \in Nat /\ n \in 1..shownCount /\ shownCount = Len(items)
        /\ outputOrder[n] = "text" /\ look(items[n]) = view["text"]
        /\ items \in Seq(ItemState) /\ items[n] \in ItemState
    BY <1>1, SubjectPlace DEF Refs, Over, ClosingText
  <1>3. look(items[n]) = textLook(text, pc)
    BY <1>2, ViewOf, ChatStreamAssumption
  <1> QED
    BY <1>1, <1>2, <1>3 DEF look, textLook

\* And what it has of the call the handler is about to go on with.
LEMMA CallSeen ==
    ASSUME IInv, ViewInv, live, NEW i \in CallIDs, i = subject,
           pc \in {"delta"} \cup ClosingTool
    PROVE  LET n == tools[i].outputIndex + 1
           IN /\ tools[i].announced /\ tools[i].done = (pc \in ClosingTool)
              /\ tools[i].kind \in {"function_call", "custom_tool_call"}
              /\ tools[i].outputIndex \in Nat
              /\ n \in 1..shownCount /\ shownCount = Len(items) /\ outputOrder[n] = i
              /\ items \in Seq(ItemState) /\ items[n] \in ItemState
              /\ items[n].kind = tools[i].kind /\ items[n].name = tools[i].name
              /\ items[n].callID = tools[i].callID
              /\ items[n].body = shownBody(tools[i], pc)
              /\ items[n].stage = toolStage(tools[i].done, pc)
  <1> DEFINE n == tools[i].outputIndex + 1
  <1>1. TypeOK /\ PcInv /\ ToolInv /\ i # "text"
    BY ChatStreamAssumption DEF IInv
  <1>2. tools[i].announced /\ tools[i].done = (pc \in ClosingTool)
    <2>1. tools[i].announced
      BY <1>1 DEF PcInv, ClosingTool
    <2>2. tools[i].done \in BOOLEAN
      BY <1>1, Basics DEF ToolState
    <2> QED
      BY <1>1, <2>1, <2>2 DEF PcInv, ClosingTool, Finishing, Over
  <1>3. tools[i].kind \in {"function_call", "custom_tool_call"}
    BY <1>1, <1>2 DEF ToolInv
  <1>4. /\ tools[i].outputIndex \in Nat /\ n \in 1..shownCount /\ shownCount = Len(items)
        /\ outputOrder[n] = i /\ look(items[n]) = view[i]
        /\ items \in Seq(ItemState) /\ items[n] \in ItemState
    BY <1>1, <1>2, SubjectPlace DEF Refs, Over, ClosingTool
  <1>5. look(items[n]) = toolLook(tools[i], pc)
    BY <1>1, <1>4, ViewOf DEF placeOf
  <1> QED
    BY <1>2, <1>3, <1>4, <1>5 DEF look, toolLook

-----------------------------------------------------------------------------
(* The steps that write *)

\* A new item is the next one, and has no content yet.
LEMMA NewItem ==
    ASSUME IInv, ViewInv, live, WriteItemAdded
    PROVE  LET new == IF subject = "text" THEN MessageItem(<<>>) ELSE toolItem(tools[subject])
           IN /\ Len(outputOrder) \in Nat \ {0} /\ outputOrder[Len(outputOrder)] = subject
              /\ Len(items) = Len(outputOrder) - 1
              /\ items' = Append(items, new) /\ new \in ItemState
              /\ subject # "text" =>
                     /\ subject \in CallIDs /\ tools[subject] \in ToolState
                     /\ tools[subject].announced /\ tools[subject].arguments = <<>>
                     /\ tools[subject].kind \in {"function_call", "custom_tool_call"}
  <1>1. TypeOK /\ OrderInv /\ PcInv /\ ToolInv
    BY DEF IInv
  <1>2. pc = "item.added"
    BY DEF WriteItemAdded
  <1>3. /\ Len(outputOrder) \in Nat \ {0} /\ outputOrder[Len(outputOrder)] = subject
        /\ Len(items) = Len(outputOrder) - 1
    <2>1. Len(items) = Len(outputOrder) - 1
      BY <1>2 DEF ViewInv, shownCount, Over
    <2>2. CASE subject = "text"
      <3>1. textStarted /\ textOutputIndex + 1 = Len(outputOrder)
        BY <1>1, <1>2, <2>2 DEF PcInv
      <3> QED
        BY <1>1, <2>1, <2>2, <3>1, Basics DEF OrderInv
    <2>3. CASE subject # "text"
      <3>1. /\ subject \in CallIDs /\ tools[subject].announced
            /\ tools[subject].outputIndex + 1 = Len(outputOrder)
        BY <1>1, <1>2, <2>3, Basics DEF PcInv, Refs
      <3> QED
        BY <1>1, <2>1, <2>3, <3>1, Basics DEF OrderInv
    <2> QED
      BY <2>2, <2>3
  <1> DEFINE new == IF subject = "text" THEN MessageItem(<<>>) ELSE toolItem(tools[subject])
             index == IF subject = "text" THEN textOutputIndex ELSE tools[subject].outputIndex
  <1>4. ItemAdded(index, new)
    BY DEF WriteItemAdded
  <1>5. index = Len(items)
    <2>1. CASE subject = "text"
      <3>1. textOutputIndex + 1 = Len(outputOrder) /\ textOutputIndex \in Nat
        BY <1>1, <1>2, <2>1 DEF PcInv, TypeOK, ConverterTypeOK
      <3> QED
        BY <1>3, <2>1, <3>1
    <2>2. CASE subject # "text"
      <3>1. tools[subject].outputIndex + 1 = Len(outputOrder)
        BY <1>1, <1>2, <2>2 DEF PcInv
      <3>2. tools[subject].outputIndex \in Nat
        BY <1>1, <2>2, Basics DEF ToolState, Refs
      <3> QED
        BY <1>3, <2>2, <3>1, <3>2
    <2> QED
      BY <2>1, <2>2
  <1>6. items' = Append(items, new)
    BY <1>4, <1>5 DEF ItemAdded, Show
  <1>7. subject # "text" => /\ subject \in CallIDs /\ tools[subject] \in ToolState
                             /\ tools[subject].announced /\ tools[subject].arguments = <<>>
                             /\ tools[subject].kind \in {"function_call", "custom_tool_call"}
    BY <1>1, <1>2, Basics DEF PcInv, ToolInv, Refs
  <1>8. new \in ItemState
    BY <1>7, MessageType, EmptySeq, ToolItemType
  <1> QED
    BY <1>3, <1>6, <1>7, <1>8

\* A new item is shown without content, as the next one.
LEMMA ItemAddedView ==
    ASSUME IInv, ViewInv, live, WriteItemAdded
    PROVE  ViewInv'
  <1>1. TypeOK /\ OrderInv /\ PcInv /\ ToolInv
    BY DEF IInv
  <1>2. pc = "item.added" /\ UNCHANGED <<live, subject, text, textStarted, outputOrder>>
    BY DEF WriteItemAdded, ItemAdded, Show
  <1>3. \A i \in CallIDs : ~tools[i].done
    BY <1>1, <1>2 DEF PcInv, Finishing, ClosingTool, Over
  <1> DEFINE new == IF subject = "text" THEN MessageItem(<<>>) ELSE toolItem(tools[subject])
  <1>4. /\ Len(outputOrder) \in Nat \ {0} /\ outputOrder[Len(outputOrder)] = subject
        /\ Len(items) = Len(outputOrder) - 1
        /\ items' = Append(items, new) /\ new \in ItemState
        /\ subject # "text" =>
               /\ subject \in CallIDs /\ tools[subject] \in ToolState
               /\ tools[subject].arguments = <<>>
               /\ tools[subject].kind \in {"function_call", "custom_tool_call"}
    BY NewItem
  <1>5. pc' \in {"part.added", "reading", "delta"}
    BY DEF WriteItemAdded
  <1>6. shownCount' = Len(outputOrder) /\ shownCount = Len(outputOrder) - 1
    BY <1>2, <1>5 DEF shownCount
  <1>7. ASSUME NEW k \in 1..shownCount
        PROVE  outputOrder[k] # subject
    <2>1. k \in 1..Len(outputOrder) /\ k # Len(outputOrder)
      BY <1>1, <1>4, <1>6, Basics
    <2> QED
      BY <1>1, <1>4, <2>1, OnePlace
  <1>8. /\ Len(items') = Len(items) + 1 /\ items'[Len(items) + 1] = new
         /\ \A k \in 1..Len(items) : items'[k] = items[k]
    BY <1>1, <1>4, Basics, AppendProperties
  <1>9. callBody("function_call", <<>>) = <<>> /\ callBody("custom_tool_call", <<>>) = <<>>
    BY DEF callBody, customToolInput, Wrapped
  <1>10. /\ subject = "text" => UNCHANGED tools /\ pc' = "part.added" /\ text = <<>>
         /\ subject # "text" =>
                /\ pc' \in {"reading", "delta"}
                /\ tools'[subject] = [tools[subject] EXCEPT !.pending = <<>>]
                /\ \A i \in CallIDs : i # subject => tools'[i] = tools[i]
    <2>1. subject = "text" => UNCHANGED tools /\ pc' = "part.added" /\ text = <<>>
      BY <1>1, <1>2 DEF WriteItemAdded, PcInv
    <2>2. subject # "text" =>
                /\ pc' \in {"reading", "delta"}
                /\ tools' = [tools EXCEPT ![subject].pending = <<>>]
      BY DEF WriteItemAdded
    <2>3. tools \in [CallIDs -> ToolState]
      BY <1>1, Basics
    <2> QED
      BY <1>4, <2>1, <2>2, <2>3
  <1>11. look(new) = view'[subject]
    <2>1. CASE subject = "text"
      <3>1. view'["text"] = textLook(text', pc')
        BY ViewOf, ChatStreamAssumption
      <3> QED
        BY <1>2, <1>10, <2>1, <3>1 DEF look, textLook, textStage, MessageItem
    <2>2. CASE subject # "text"
      <3>1. PICK i \in CallIDs : i = subject
        BY <1>4, <2>2
      <3> DEFINE tool == tools[i]
                 after == tools'[i]
      <3>2. /\ after.kind = tool.kind /\ after.name = tool.name /\ after.callID = tool.callID
            /\ after.arguments = <<>> /\ ~after.done
        BY <1>3, <1>4, <1>10, <2>2, <3>1 DEF ToolState
      <3>3. view'[i] = toolLook(after, placeOf(i)')
        BY <2>2, <3>1, ViewOf
      <3>4. shownBody(after, placeOf(i)') = <<>>
        BY <1>4, <1>9, <2>2, <3>2, <3>1 DEF shownBody
      <3>5. toolStage(after.done, placeOf(i)') = "added"
        BY <3>2 DEF toolStage
      <3>6. look(toolItem(tool)) = <<tool.kind, tool.name, tool.callID, <<>>, "added">>
        BY <1>4, <1>9, <2>2, <3>1 DEF look, toolItem
      <3> QED
        BY <2>2, <3>2, <3>3, <3>4, <3>5, <3>6, <3>1 DEF toolLook
    <2> QED
      BY <2>1, <2>2
  <1>12. ASSUME NEW k \in 1..shownCount
         PROVE  view'[outputOrder[k]] = view[outputOrder[k]]
    <2>1. k \in 1..Len(outputOrder) /\ outputOrder[k] # subject
      BY <1>1, <1>6, <1>7, Basics
    <2>2. CASE outputOrder[k] = "text"
      <3>1. pc' \in {"reading", "delta"}
        BY <1>10, <2>1, <2>2
      <3>2. textLook(text', pc') = textLook(text, pc)
        BY <1>2, <3>1 DEF textLook, textStage, Finishing, ClosingTool
      <3> QED
        BY <2>2, <3>2, ViewOf, ChatStreamAssumption
    <2>3. CASE outputOrder[k] # "text"
      <3>1. outputOrder[k] \in CallIDs
        BY <1>1, <2>1, <2>3, OnePlace
      <3>2. tools'[outputOrder[k]] = tools[outputOrder[k]]
        BY <1>10, <2>1, <3>1
      <3> QED
        BY <1>3, <3>1, <3>2, ToolViewKept, ChatStreamAssumption
    <2> QED
      BY <2>2, <2>3
  <1>13. \A k \in 1..shownCount' : look(items'[k]) = view'[outputOrder'[k]]
    <2> SUFFICES ASSUME NEW k \in 1..shownCount'
                 PROVE  look(items'[k]) = view'[outputOrder[k]]
      BY <1>2
    <2>1. CASE k = Len(outputOrder)
      BY <1>4, <1>8, <1>11, <2>1
    <2>2. CASE k # Len(outputOrder)
      <3>1. k \in 1..shownCount /\ k \in 1..Len(items)
        BY <1>4, <1>6, <2>2
      <3>2. look(items[k]) = view[outputOrder[k]]
        BY <1>2, <3>1 DEF ViewInv, Over
      <3> QED
        BY <1>8, <1>12, <3>1, <3>2
    <2> QED
      BY <2>1, <2>2
  <1>14. Len(items') = shownCount'
    BY <1>4, <1>6, <1>8
  <1> QED
    BY <1>13, <1>14 DEF ViewInv

\* The events of the message: its part, its deltas, and the three events
\* that close it.
LEMMA MessageView ==
    ASSUME IInv, ViewInv, live,
           \/ WriteDelta /\ subject = "text"
           \/ WritePartAdded
           \/ WriteTextDone \/ WritePartDone \/ WriteTextItemDone
    PROVE  ViewInv'
  <1>1. TypeOK /\ OrderInv /\ PcInv
    BY DEF IInv
  <1>2. /\ UNCHANGED <<subject, tools, outputOrder>>
        /\ pc \in {"part.added", "delta"} \cup ClosingText /\ textStarted
    BY <1>1 DEF WritePartAdded, WriteDelta, WriteTextDone, WritePartDone, WriteTextItemDone,
       converterVars, PcInv, ClosingText
  <1>3. \A i \in CallIDs : ~tools[i].done
    BY <1>1, <1>2 DEF PcInv, Finishing, ClosingText, ClosingTool, Over
  <1> DEFINE n == textOutputIndex + 1
  <1>4. /\ textOutputIndex \in Nat /\ n \in 1..shownCount /\ shownCount = Len(items)
        /\ outputOrder[n] = "text" /\ items \in Seq(ItemState)
        /\ items[n].kind = "message" /\ items[n].name = <<>> /\ items[n].callID = NoCall
        /\ items[n].body = text /\ items[n].stage = textStage(pc)
    <2>1. pc = "delta" => subject = "text"
      BY DEF WritePartAdded, WriteDelta, WriteTextDone, WritePartDone, WriteTextItemDone
    <2> QED
      BY <1>2, <2>1, MessageSeen
  <1>5. view'["text"] = textLook(text', pc')
    BY ViewOf, ChatStreamAssumption
  <1>6. /\ pc' \notin {"item.added"} /\ pc # "item.added"
    BY <1>2 DEF WritePartAdded, WriteDelta, WriteTextDone, WritePartDone, WriteTextItemDone,
       ClosingText
  <1>7. UNCHANGED shownCount
    BY <1>2, <1>6 DEF shownCount
  <1> DEFINE others == /\ Len(items') = Len(items)
                       /\ \A k \in 1..Len(items) : k # n => items'[k] = items[k]
  <1>8. others /\ look(items'[n]) = textLook(text', pc')
    <2> USE EventLooks
    <2>1. CASE WritePartAdded
      <3>1. /\ PartAdded(textOutputIndex) /\ pc = "part.added" /\ pc' = "delta" /\ text' = text
        BY <2>1 DEF WritePartAdded, converterVars
      <3>2. others /\ look(items'[n]) = <<"message", <<>>, NoCall, text, "part">>
        BY <1>4, <3>1
      <3> QED
        BY <3>1, <3>2 DEF textLook, textStage, Finishing, ClosingTool
    <2>2. CASE WriteDelta /\ subject = "text"
      <3>1. /\ Delta(textOutputIndex, delta) /\ pc = "delta" /\ pc' = "reading"
            /\ text' = text \o delta
        BY <2>2 DEF WriteDelta
      <3>2. others /\ look(items'[n]) = <<"message", <<>>, NoCall, text \o delta, textStage(pc)>>
        BY <1>4, <3>1
      <3> QED
        BY <3>1, <3>2 DEF textLook, textStage, Finishing, ClosingTool
    <2>3. CASE WriteTextDone
      <3>1. BodyDone(textOutputIndex, text) /\ pc' = "text.part.done" /\ text' = text
        BY <2>3 DEF WriteTextDone, converterVars
      <3>2. others /\ look(items'[n]) = <<"message", <<>>, NoCall, text, "sealed">>
        BY <1>4, <3>1
      <3> QED
        BY <3>1, <3>2 DEF textLook, textStage
    <2>4. CASE WritePartDone
      <3>1. PartDone(textOutputIndex, text) /\ pc' = "text.item.done" /\ text' = text
        BY <2>4 DEF WritePartDone, converterVars
      <3>2. others /\ look(items'[n]) = <<"message", <<>>, NoCall, text, "closed">>
        BY <1>4, <3>1
      <3> QED
        BY <3>1, <3>2 DEF textLook, textStage
    <2>5. CASE WriteTextItemDone
      <3>1. ItemDone(textOutputIndex, MessageItem(text)) /\ pc' = "tools" /\ text' = text
        BY <2>5 DEF WriteTextItemDone, converterVars
      <3>2. others /\ items'[n] = Finished(MessageItem(text))
        BY <1>4, <3>1
      <3> QED
        BY <3>1, <3>2 DEF textLook, textStage, Finishing, look, Finished, MessageItem
    <2> QED
      BY <2>1, <2>2, <2>3, <2>4, <2>5
  <1>9. \A i \in CallIDs : view'[i] = view[i]
    BY <1>2, <1>3, ToolViewKept, ChatStreamAssumption
  <1> QED
    BY <1>1, <1>2, <1>4, <1>5, <1>7, <1>8, <1>9, OneItemRef DEF Over, ClosingText

\* A delta of a call: shown at once, unless it is the input of a custom tool.
LEMMA CallDeltaView ==
    ASSUME IInv, ViewInv, live, WriteDelta, subject # "text"
    PROVE  ViewInv'
  <1>1. TypeOK /\ OrderInv /\ PcInv /\ ToolInv
    BY DEF IInv
  <1>2. PICK i \in CallIDs : i = subject
    BY <1>1, Basics DEF Refs
  <1>3. /\ pc = "delta" /\ pc' = "reading"
        /\ UNCHANGED <<live, subject, text, textStarted, outputOrder>>
        /\ tools' = [tools EXCEPT ![i].arguments = @ \o delta]
        /\ IF tools[i].kind = "custom_tool_call" THEN UNCHANGED items
           ELSE Delta(tools[i].outputIndex, delta)
    BY <1>2 DEF WriteDelta, keepsDelta, clientVars, Delta, Show
  <1>4. tools[i].announced /\ tools[i].kind \in {"function_call", "custom_tool_call"}
    BY <1>1, <1>2, <1>3 DEF PcInv, ToolInv
  <1>5. \A j \in CallIDs : ~tools[j].done
    BY <1>1, <1>3 DEF PcInv, Finishing, ClosingTool, Over
  <1>6. /\ tools'[i] = [tools[i] EXCEPT !.arguments = @ \o delta] /\ tools[i] \in ToolState
        /\ \A j \in CallIDs : j # i => tools'[j] = tools[j]
    BY <1>1, <1>3, Basics
  <1>7. /\ tools'[i].kind = tools[i].kind /\ tools'[i].name = tools[i].name
        /\ tools'[i].callID = tools[i].callID /\ tools'[i].done = tools[i].done
        /\ tools'[i].arguments = tools[i].arguments \o delta
    BY <1>6 DEF ToolState
  <1>8. UNCHANGED shownCount
    BY <1>3 DEF shownCount
  <1>9. textLook(text', pc') = textLook(text, pc)
    BY <1>3 DEF textLook, textStage, Finishing, ClosingTool
  <1>10. \A j \in CallIDs : j # i => view'[j] = view[j]
    BY <1>5, <1>6, ToolViewKept, ChatStreamAssumption
  <1>11. CASE tools[i].kind = "custom_tool_call"
    <2>1. view'[i] = view[i]
      BY <1>5, <1>7, <1>11, ToolViewKept, ChatStreamAssumption
    <2> QED
      BY <1>1, <1>3, <1>8, <1>9, <1>10, <1>11, <2>1, QuietRefs DEF Over
  <1>12. CASE tools[i].kind = "function_call"
    <2> DEFINE n == tools[i].outputIndex + 1
    <2>1. /\ tools[i].outputIndex \in Nat /\ n \in 1..shownCount /\ shownCount = Len(items)
          /\ outputOrder[n] = i /\ items \in Seq(ItemState)
          /\ items[n].kind = tools[i].kind /\ items[n].name = tools[i].name
          /\ items[n].callID = tools[i].callID
          /\ items[n].body = shownBody(tools[i], pc)
          /\ items[n].stage = toolStage(tools[i].done, pc)
      BY <1>2, <1>3, CallSeen
    <2>2. view'[i] = toolLook(tools'[i], placeOf(i)')
      BY ViewOf, ChatStreamAssumption
    <2>3. items[n].body = tools[i].arguments /\ items[n].stage = "added"
      BY <1>5, <1>12, <2>1 DEF shownBody, toolStage, callBody
    <2>4. /\ Len(items') = Len(items)
          /\ \A k \in 1..Len(items) : k # n => items'[k] = items[k]
          /\ look(items'[n]) = <<tools[i].kind, tools[i].name, tools[i].callID,
                                 tools[i].arguments \o delta, "added">>
      BY <1>3, <1>12, <2>1, <2>3, EventLooks
    <2>5. view'[i] = <<tools[i].kind, tools[i].name, tools[i].callID,
                       tools[i].arguments \o delta, "added">>
      BY <1>5, <1>7, <1>12, <2>2 DEF toolLook, shownBody, toolStage, callBody
    <2> QED
      BY <1>1, <1>3, <1>8, <1>9, <1>10, <2>1, <2>4, <2>5, OneItemRef DEF Over
  <1> QED
    BY <1>4, <1>11, <1>12

\* The events that close a call.
LEMMA CallClosedView ==
    ASSUME IInv, ViewInv, live, WriteInputDelta \/ WriteToolDone \/ WriteToolItemDone
    PROVE  ViewInv'
  <1>1. TypeOK /\ OrderInv /\ PcInv /\ ToolInv
    BY DEF IInv
  <1>2. pc \in ClosingTool /\ UNCHANGED <<subject, text, textStarted, tools, outputOrder>>
    BY DEF WriteInputDelta, WriteToolDone, WriteToolItemDone, ClosingTool, converterVars
  <1>3. PICK i \in CallIDs : i = subject
    BY <1>1, <1>2, ClosingToolTypes
  <1>4. /\ tools[i].announced /\ tools[i].done /\ subjectIndex = tools[i].outputIndex
        /\ tools[i].kind \in {"function_call", "custom_tool_call"}
        /\ pc = "input.delta" => tools[i].kind = "custom_tool_call"
        /\ callBody(tools[i].kind, tools[i].arguments) \in Seq(STRING)
    BY <1>1, <1>2, <1>3, ClosingToolTypes DEF PcInv, ToolInv
  <1> DEFINE n == tools[i].outputIndex + 1
             body == callBody(tools[i].kind, tools[i].arguments)
             showing(shown, stage) ==
                 <<tools[i].kind, tools[i].name, tools[i].callID, shown, stage>>
             others == /\ Len(items') = Len(items)
                       /\ \A k \in 1..Len(items) : k # n => items'[k] = items[k]
  <1>5. /\ tools[i].outputIndex \in Nat /\ n \in 1..shownCount /\ shownCount = Len(items)
        /\ outputOrder[n] = i /\ items \in Seq(ItemState)
        /\ items[n].kind = tools[i].kind /\ items[n].name = tools[i].name
        /\ items[n].callID = tools[i].callID /\ items[n].body = shownBody(tools[i], pc)
        /\ items[n].stage = toolStage(tools[i].done, pc)
    BY <1>2, <1>3, CallSeen
  <1>6. view'[i] = toolLook(tools[i], pc')
    BY <1>2, <1>3, ViewOf, ChatStreamAssumption DEF placeOf
  <1>7. others /\ look(items'[n]) = toolLook(tools[i], pc')
    <2> USE EventLooks
    <2>1. CASE WriteInputDelta
      <3>1. Delta(tools[i].outputIndex, body) /\ pc = "input.delta" /\ pc' = "tool.done"
        BY <1>3, <1>4, <2>1 DEF WriteInputDelta
      <3>2. items[n].body = <<>> /\ items[n].stage = "added"
        BY <1>4, <1>5, <3>1 DEF shownBody, toolStage
      <3>3. others /\ look(items'[n]) = showing(<<>> \o body, "added")
        BY <1>5, <3>1, <3>2
      <3>4. <<>> \o body = body
        BY <1>4, ConcatEmptySeq
      <3> QED
        BY <1>4, <3>1, <3>3, <3>4 DEF toolLook, shownBody, toolStage
    <2>2. CASE WriteToolDone
      <3>1. BodyDone(tools[i].outputIndex, body) /\ pc' = "tool.item.done"
        BY <1>3, <1>4, <2>2 DEF WriteToolDone
      <3>2. others /\ look(items'[n]) = showing(body, "sealed")
        BY <1>5, <3>1
      <3> QED
        BY <1>4, <3>1, <3>2 DEF toolLook, shownBody, toolStage
    <2>3. CASE WriteToolItemDone
      <3>1. ItemDone(tools[i].outputIndex, toolItem(tools[i])) /\ pc' = "tools"
        BY <1>3, <1>4, <2>3 DEF WriteToolItemDone
      <3>2. others /\ items'[n] = Finished(toolItem(tools[i]))
        BY <1>5, <3>1
      <3>3. look(Finished(toolItem(tools[i]))) = showing(body, "done")
        BY DEF look, Finished, toolItem
      <3> QED
        BY <1>4, <3>1, <3>2, <3>3 DEF toolLook, shownBody, toolStage
    <2> QED
      BY <2>1, <2>2, <2>3
  <1>8. pc' \in {"tools", "tool.done", "tool.item.done"}
    BY DEF WriteInputDelta, WriteToolDone, WriteToolItemDone
  <1>9. UNCHANGED shownCount
    BY <1>2, <1>8 DEF shownCount, ClosingTool
  <1>10. textLook(text', pc') = textLook(text, pc)
    BY <1>2, <1>8 DEF textLook, textStage, Finishing, ClosingTool
  <1>11. ASSUME NEW j \in CallIDs, j # i
         PROVE  view'[j] = view[j]
    <2>1. placeOf(j) = "elsewhere" /\ placeOf(j)' = "elsewhere"
      BY <1>2, <1>3, <1>11 DEF placeOf
    <2> QED
      BY <1>2, <2>1, ToolViewKept, ChatStreamAssumption DEF ClosingTool
  <1> QED
    BY <1>1, <1>2, <1>5, <1>6, <1>7, <1>9, <1>10, <1>11, OneItemRef DEF Over, ClosingTool

-----------------------------------------------------------------------------
(* The invariant *)

\* The client's copy follows the converter through every step.
LEMMA ViewStep ==
    ASSUME IInv, ViewInv, ~SplitNames, [Next]_vars
    PROVE  ViewInv'
  <1>1. CASE ~(live' /\ pc' \notin Over)
    BY <1>1 DEF ViewInv
  <1>2. CASE live' /\ pc' \notin Over
    <2>1. ~UpstreamFails /\ ~WriteFinal /\ ~WriteFailed /\ ~LoseClient /\ ~WriteError
      BY <1>2 DEF UpstreamFails, WriteFinal, WriteFailed, LoseClient, ClientGone, WriteError,
         clientVars, Over
    <2>2. CASE Returned
      BY <2>2, QuietPlacesView DEF Returned
    <2>3. Write => live
      BY <1>2 DEF Write, WriteCreated, WriteInProgress, WriteItemAdded, WritePartAdded,
         WriteDelta, WriteTextDone, WritePartDone, WriteTextItemDone, NextTool,
         WriteInputDelta, WriteToolDone, WriteToolItemDone, WriteFinal, WriteFailed,
         WriteError, PhaseEvent, ItemAdded, PartAdded, Delta, BodyDone, PartDone, ItemDone,
         Show, TerminalEvent, streamVars, clientVars
    <2>4. CASE Read \/ UNCHANGED vars
      BY <2>1, <2>4, TextDeltaView, ToolDeltaView, QuietPlacesView DEF Read
    <2>5. CASE Write
      <3>1. CASE WriteCreated \/ WriteInProgress
        BY <3>1, QuietPlacesView
      <3>2. CASE WriteItemAdded
        BY <2>3, <2>5, <3>2, ItemAddedView
      <3>3. CASE WriteDelta /\ subject # "text"
        BY <2>3, <2>5, <3>3, CallDeltaView
      <3>4. CASE \/ WriteDelta /\ subject = "text"
                 \/ WritePartAdded
                 \/ WriteTextDone \/ WritePartDone \/ WriteTextItemDone
        BY <2>3, <2>5, <3>4, MessageView
      <3>5. CASE NextTool
        BY <3>5, NextToolView
      <3>6. CASE WriteInputDelta \/ WriteToolDone \/ WriteToolItemDone
        BY <2>3, <2>5, <3>6, CallClosedView
      <3> QED
        BY <2>1, <2>5, <3>1, <3>2, <3>3, <3>4, <3>5, <3>6 DEF Write
    <2> QED
      BY <2>1, <2>2, <2>4, <2>5 DEF Next
  <1> QED
    BY <1>1, <1>2

\* The output arrives with the event that completes the response, and with
\* no other.
LEMMA OutputStep ==
    ASSUME IInv, OutputInv, [Next]_vars
    PROVE  OutputInv'
  <1>1. CASE WriteFinal
    <2>1. finalStatus \in {"completed", "incomplete"}
      BY DEF finalStatus
    <2> QED
      BY <1>1, <2>1 DEF WriteFinal, TerminalEvent, OutputInv, Answered
  <1>2. CASE WriteFailed
    <2>1. ~Answered
      BY <1>2 DEF IInv, PlaceInv, WriteFailed
    <2> QED
      BY <1>2, <2>1 DEF WriteFailed, TerminalEvent, OutputInv
  <1>3. CASE WriteCreated \/ WriteInProgress
    <2>1. ~Answered /\ UNCHANGED output
      BY <1>3 DEF IInv, PlaceInv, WriteCreated, WriteInProgress, PhaseEvent
    <2> QED
      BY <2>1 DEF OutputInv
  <1>4. ASSUME ~WriteFinal, ~WriteFailed, ~WriteCreated, ~WriteInProgress
        PROVE  OutputInv'
    <2>1. UNCHANGED <<phase, output>>
      <3>1. CASE Read \/ LoseClient \/ NextTool \/ WriteError \/ UNCHANGED vars
        BY <3>1 DEF Read, TextDelta, ReadToolDelta, ToolDelta, FinishReason, ReasoningDelta,
           UpstreamFails, EndOfStream, LoseClient, ClientGone, NextTool, WriteError, vars,
           streamVars, clientVars
      <3>2. CASE \/ WriteItemAdded \/ WritePartAdded \/ WriteDelta \/ WriteTextDone
                 \/ WritePartDone \/ WriteTextItemDone \/ WriteInputDelta
                 \/ WriteToolDone \/ WriteToolItemDone
        BY <3>2 DEF WriteItemAdded, WritePartAdded, WriteDelta, WriteTextDone,
           WritePartDone, WriteTextItemDone, WriteInputDelta, WriteToolDone,
           WriteToolItemDone, ItemAdded, PartAdded, Delta, BodyDone, PartDone, ItemDone,
           Show, clientVars
      <3> QED
        BY <1>4, <3>1, <3>2 DEF Next, Write, Returned
    <2> QED
      BY <2>1 DEF OutputInv, Answered
  <1> QED
    BY <1>1, <1>2, <1>3, <1>4

\* Before the first event the client has nothing.
LEMMA InitClientInv ==
    ASSUME Init
    PROVE  ClientInv
  <1>1. IInv
    BY InitInv
  <1>2. pc = "created" /\ outputOrder = <<>> /\ items = <<>> /\ output = <<>>
    BY DEF Init, StreamInit
  <1>3. Len(items) = 0 /\ shownCount = 0
    BY <1>2, EmptySeq DEF shownCount
  <1> QED
    BY <1>1, <1>2, <1>3 DEF ClientInv, ViewInv, OutputInv

\* When names come whole, the client's copy of every item is known at every
\* place of the code (chat_stream.go textDelta, toolDelta, finish).
THEOREM ClientsCopy ==
    ASSUME ~SplitNames
    PROVE  Spec => []ClientInv
  <1>1. Init => ClientInv
    BY InitClientInv
  <1>2. ClientInv /\ [Next]_vars => ClientInv'
    BY StepInv, ViewStep, OutputStep DEF ClientInv
  <1> QED
    BY <1>1, <1>2, PTL DEF Spec

\* When names come whole, a client that is there has, between two chunks,
\* exactly the converter's items: same order, same header, same content so
\* far (chat_stream.go textDelta, emitToolDelta).
THEOREM InStep ==
    ASSUME ~SplitNames
    PROVE  Spec => []ClientInStep
  <1>1. ASSUME ClientInv, live, pc = "reading"
        PROVE  /\ nextOutputIndex = Len(outputOrder)
               /\ items = [k \in DOMAIN outputOrder |-> openItem(outputOrder[k])]
    <2>1. TypeOK /\ OrderInv /\ ToolInv /\ PcInv
      BY <1>1 DEF ClientInv, IInv
    <2>2. /\ Len(items) = Len(outputOrder) /\ shownCount = Len(outputOrder)
          /\ \A k \in 1..Len(outputOrder) : look(items[k]) = view[outputOrder[k]]
      BY <1>1 DEF ClientInv, ViewInv, shownCount, Over
    <2>3. \A i \in CallIDs : ~tools[i].done
      BY <1>1, <2>1 DEF PcInv, Finishing, ClosingTool, Over
    <2>4. ASSUME NEW k \in 1..Len(outputOrder)
          PROVE  items[k] = openItem(outputOrder[k])
      <3>1. items[k] \in ItemState
        BY <2>1, <2>2, Basics
      <3>2. CASE outputOrder[k] = "text"
        <4>1. look(items[k]) = textLook(text, "reading")
          BY <1>1, <2>2, <3>2, ViewOf, ChatStreamAssumption
        <4>2. openItem("text") \in ItemState
          BY <2>1, Basics, MessageType DEF openItem, MessageItem, ItemState
        <4>3. look(openItem("text")) = textLook(text, "reading")
          BY DEF openItem, look, textLook, textStage, MessageItem, Finishing, ClosingTool
        <4> QED
          BY <3>1, <3>2, <4>1, <4>2, <4>3, LookIsAll
      <3>3. CASE outputOrder[k] # "text"
        <4>1. PICK i \in CallIDs : i = outputOrder[k] /\ tools[i].announced
          BY <2>1, <3>3, OnePlace
        <4>2. /\ tools[i] \in ToolState /\ i # "text"
              /\ tools[i].kind \in {"function_call", "custom_tool_call"}
          BY <2>1, <4>1, Basics DEF ToolInv
        <4> DEFINE shown == IF tools[i].kind = "custom_tool_call" THEN <<>>
                                                                 ELSE tools[i].arguments
                   tool == tools[i]
        <4>3. look(items[k]) = toolLook(tool, placeOf(i))
          BY <2>2, <4>1, <4>2, ViewOf
        <4>4. look(items[k]) = <<tool.kind, tool.name, tool.callID, shown, "added">>
          BY <2>3, <4>2, <4>3 DEF toolLook, shownBody, toolStage, callBody
        <4>5. openItem(i) = [toolItem(tool) EXCEPT !.body = shown]
          BY <4>2 DEF openItem
        <4>6. openItem(i) = [kind |-> tool.kind, name |-> tool.name, callID |-> tool.callID,
                             body |-> shown, stage |-> "added"]
          BY <4>5 DEF toolItem
        <4>7. shown \in Seq(STRING)
          BY <4>2, EmptySeq DEF ToolState
        <4> HIDE DEF shown
        <4>8. openItem(i) \in ItemState
          <5>1. /\ tool.name \in Seq(STRING) /\ tool.callID \in CallIDs \cup {NoCall}
                /\ tool.kind \in {"function_call", "custom_tool_call"}
            BY <4>2 DEF ToolState
          <5> HIDE DEF tool
          <5> QED
            BY <4>6, <4>7, <5>1 DEF ItemState
        <4>9. look(openItem(i)) = <<tool.kind, tool.name, tool.callID, shown, "added">>
          BY <4>6 DEF look
        <4> QED
          BY <3>1, <4>1, <4>4, <4>8, <4>9, LookIsAll
      <3> QED
        BY <3>2, <3>3
    <2>5. items \in [1..Len(outputOrder) -> ItemState] /\ DOMAIN outputOrder = 1..Len(outputOrder)
      BY <2>1, <2>2, Basics, LenProperties
    <2>6. items = [k \in DOMAIN outputOrder |-> openItem(outputOrder[k])]
      BY <2>4, <2>5
    <2> QED
      BY <2>1, <2>6 DEF OrderInv
  <1>2. ClientInv => ClientInStep
    BY <1>1 DEF ClientInStep
  <1> QED
    BY <1>2, ClientsCopy, PTL

-----------------------------------------------------------------------------
(* The protocol *)

\* The beginning of a longer text is the shorter one.
LEMMA LongerExtends ==
    ASSUME NEW r \in Seq(STRING), NEW s \in Seq(STRING)
    PROVE  Protocol!Extends(r \o s, r)
  <1>1. /\ r \o s \in Seq(STRING) /\ Len(r \o s) = Len(r) + Len(s)
        /\ \A k \in 1..Len(r) + Len(s) :
               (r \o s)[k] = IF k <= Len(r) THEN r[k] ELSE s[k - Len(r)]
        /\ Len(r) \in Nat /\ Len(s) \in Nat
    BY ConcatProperties, LenProperties
  <1>2. \A k \in 1..Len(r) : (r \o s)[k] = r[k] /\ r[k] \in STRING
    BY <1>1, ElementOfSeq
  <1> DEFINE begin == SubSeq(r \o s, 1, Len(r))
  <1>3. /\ begin \in Seq(STRING)
        /\ Len(begin) = IF 1 <= Len(r) THEN Len(r) - 1 + 1 ELSE 0
        /\ \A k \in 1..Len(r) - 1 + 1 : begin[k] = (r \o s)[1 + k - 1]
    BY <1>1, <1>2, SubSeqProperties
  <1>4. Len(begin) = Len(r) /\ \A k \in 1..Len(r) : begin[k] = r[k]
    BY <1>1, <1>2, <1>3
  <1>5. begin = r
    BY <1>3, <1>4, SeqEqual
  <1> QED
    BY <1>1, <1>5 DEF Protocol!Extends

\* A delta event is a step of the protocol when the item may grow.
LEMMA DeltaGrows ==
    ASSUME items \in Seq(ItemState), live, phase = "in_progress", NEW index \in Nat,
           index + 1 \in 1..Len(items), Protocol!Growing(items[index + 1]),
           NEW body \in Seq(STRING), Delta(index, body)
    PROVE  Protocol!Next
  <1> DEFINE n == index + 1
  <1>1. /\ items' = [items EXCEPT ![n].body = items[n].body \o body]
        /\ UNCHANGED <<phase, output>>
    BY DEF Delta, Show
  <1>2. n \in DOMAIN items /\ items[n] \in ItemState
    BY ElementOfSeq, LenProperties
  <1>3. items[n].body \in Seq(STRING)
    BY <1>2 DEF ItemState
  <1>4. items'[n].body = items[n].body \o body
    BY <1>1, <1>2 DEF ItemState
  <1>5. items' = [items EXCEPT ![n].body = items'[n].body]
    BY <1>1, <1>4
  <1>6. Protocol!Extends(items'[n].body, items[n].body)
    BY <1>3, <1>4, LongerExtends
  <1>7. Protocol!Grow(n)
    BY <1>1, <1>5, <1>6 DEF Protocol!Grow
  <1> QED
    BY <1>2, <1>7 DEF Protocol!Next

\* So is a closing event that repeats what the client has.
LEMMA ClosingAdvances ==
    ASSUME items \in Seq(ItemState), phase = "in_progress", NEW n \in 1..Len(items),
           NEW to \in {"part", "sealed", "closed", "done"},
           <<items[n].stage, to>> \in Protocol!StageSteps(items[n].kind),
           items' = [items EXCEPT ![n] = [items[n] EXCEPT !.stage = to]],
           UNCHANGED <<phase, output>>
    PROVE  Protocol!Next
  <1>1. n \in DOMAIN items
    BY LenProperties
  <1>2. items' = [items EXCEPT ![n].stage = to]
    OBVIOUS
  <1>3. Protocol!Advance(n)
    BY <1>2 DEF Protocol!Advance
  <1> QED
    BY <1>1, <1>3 DEF Protocol!Next

\* What the closing events leave when they repeat the content.
LEMMA RepeatsContent ==
    ASSUME items \in Seq(ItemState), live, NEW index \in Nat, index + 1 \in 1..Len(items),
           NEW body, items[index + 1].body = body
    PROVE  LET n == index + 1
               to(stage) == [items EXCEPT ![n] = [items[n] EXCEPT !.stage = stage]]
           IN /\ PartAdded(index) => items' = to("part")
              /\ BodyDone(index, body) => items' = to("sealed")
              /\ PartDone(index, body) => items' = to("closed")
              /\ \A item \in ItemState :
                     /\ ItemDone(index, item)
                     /\ item.kind = items[n].kind /\ item.name = items[n].name
                     /\ item.callID = items[n].callID /\ item.body = items[n].body
                     => items' = to("done")
  <1> DEFINE n == index + 1
             to(stage) == [items EXCEPT ![n] = [items[n] EXCEPT !.stage = stage]]
  <1>1. n \in 1..Len(items) /\ n \in DOMAIN items /\ items[n] \in ItemState
    BY ElementOfSeq, LenProperties
  <1>2. PartAdded(index) => items' = to("part")
    BY DEF PartAdded, Show
  <1>3. ASSUME NEW stage,
               items' = [items EXCEPT ![index + 1].body = body, ![index + 1].stage = stage]
        PROVE  items' = to(stage)
    <2> DEFINE full == [items EXCEPT ![n] = [items[n] EXCEPT !.body = body]]
    <2>1. [items[n] EXCEPT !.body = body] = items[n]
      BY <1>1 DEF ItemState
    <2>2. full = items
      BY <1>1, <2>1
    <2>3. items' = [full EXCEPT ![n] = [full[n] EXCEPT !.stage = stage]]
      BY <1>3
    <2> QED
      BY <2>2, <2>3
  <1>4. /\ BodyDone(index, body) => items' = to("sealed")
        /\ PartDone(index, body) => items' = to("closed")
    BY <1>3 DEF BodyDone, PartDone, Show
  <1>5. ASSUME NEW item \in ItemState, ItemDone(index, item),
               item.kind = items[n].kind, item.name = items[n].name,
               item.callID = items[n].callID, item.body = items[n].body
        PROVE  items' = to("done")
    <2>1. items' = [items EXCEPT ![n] = Finished(item)]
      BY <1>5 DEF ItemDone, Show
    <2>2. Finished(item) = [items[n] EXCEPT !.stage = "done"]
      BY <1>1, <1>5 DEF Finished, ItemState
    <2> QED
      BY <2>1, <2>2
  <1> QED
    BY <1>2, <1>4, <1>5

\* The stages of a message, and of a call.
LEMMA Stages ==
    /\ Protocol!StageSteps("message") = {<<"added", "part">>, <<"part", "sealed">>,
                                         <<"sealed", "closed">>, <<"closed", "done">>}
    /\ \A kind \in {"function_call", "custom_tool_call"} :
           Protocol!StageSteps(kind) = {<<"added", "sealed">>, <<"sealed", "done">>}
  BY DEF Protocol!StageSteps

\* Opening an item follows the protocol: its name is one the upstream may
\* use, and it comes without content.
LEMMA AddFollows ==
    ASSUME ClientInv, ~SplitNames, live, WriteItemAdded
    PROVE  Protocol!Next
  <1>1. IInv /\ ViewInv
    BY DEF ClientInv
  <1> DEFINE new == IF subject = "text" THEN MessageItem(<<>>) ELSE toolItem(tools[subject])
  <1>2. /\ items' = Append(items, new)
        /\ subject # "text" => /\ subject \in CallIDs /\ tools[subject].announced
                               /\ tools[subject].arguments = <<>>
                               /\ tools[subject].kind \in {"function_call", "custom_tool_call"}
    BY <1>1, NewItem
  <1>3. phase = "in_progress" /\ UNCHANGED <<phase, output>>
    BY <1>1 DEF IInv, PlaceInv, WriteItemAdded, ItemAdded, Show
  <1>4. new \in Protocol!FreshItems
    <2>1. CASE subject = "text"
      BY <2>1 DEF Protocol!FreshItems, Protocol!Message, MessageItem
    <2>2. CASE subject # "text"
      <3>1. PICK i \in CallIDs : i = subject
        BY <1>2, <2>2
      <3>2. tools[i].callID = i /\ tools[i].name \in Names
        BY <1>1, <1>2, <2>2, <3>1, ChatStreamAssumption DEF IInv, ToolInv
      <3>3. callBody(tools[i].kind, <<>>) = <<>>
        BY <1>2, <2>2, <3>1 DEF callBody, customToolInput, Wrapped
      <3>4. toolItem(tools[i]) = Protocol!ToolItem(tools[i].kind, tools[i].name, i)
        BY <1>2, <2>2, <3>1, <3>2, <3>3 DEF toolItem, Protocol!ToolItem
      <3> QED
        BY <1>2, <2>2, <3>1, <3>2, <3>4 DEF Protocol!FreshItems
    <2> QED
      BY <2>1, <2>2
  <1>5. Protocol!AddItem
    BY <1>2, <1>3, <1>4 DEF Protocol!AddItem
  <1> QED
    BY <1>5 DEF Protocol!Next

\* So do the events of the message.
LEMMA MessageFollows ==
    ASSUME ClientInv, live,
           \/ WriteDelta /\ subject = "text"
           \/ WritePartAdded
           \/ WriteTextDone \/ WritePartDone \/ WriteTextItemDone
    PROVE  Protocol!Next
  <1>1. IInv /\ ViewInv /\ TypeOK
    BY DEF ClientInv, IInv
  <1>2. \/ pc \in {"part.added"} \cup ClosingText
        \/ pc = "delta" /\ subject = "text"
    BY DEF WritePartAdded, WriteDelta, WriteTextDone, WritePartDone, WriteTextItemDone,
       ClosingText
  <1> DEFINE n == textOutputIndex + 1
  <1>3. /\ textOutputIndex \in Nat /\ n \in 1..Len(items)
        /\ items \in Seq(ItemState) /\ items[n] \in ItemState
        /\ items[n].kind = "message" /\ items[n].name = <<>> /\ items[n].callID = NoCall
        /\ items[n].body = text /\ items[n].stage = textStage(pc)
    BY <1>1, <1>2, MessageSeen
  <1>4. phase = "in_progress" /\ text \in Seq(STRING) /\ delta \in Seq(STRING)
    BY <1>1, <1>2, Basics DEF IInv, PlaceInv, ClosingText
  <1>5. CASE WriteDelta /\ subject = "text"
    <2>1. Delta(textOutputIndex, delta) /\ pc = "delta"
      BY <1>5 DEF WriteDelta
    <2>2. Protocol!Growing(items[n])
      BY <1>3, <2>1 DEF Protocol!Growing, textStage, Finishing, ClosingTool
    <2> QED
      BY <1>3, <1>4, <2>1, <2>2, DeltaGrows
  <1>6. CASE WritePartAdded
    <2>1. PartAdded(textOutputIndex) /\ pc = "part.added" /\ UNCHANGED <<phase, output>>
      BY <1>6 DEF WritePartAdded, PartAdded, Show
    <2>2. items[n].stage = "added"
      BY <1>3, <2>1 DEF textStage
    <2> QED
      BY <1>3, <1>4, <2>1, <2>2, RepeatsContent, ClosingAdvances, Stages
  <1>7. CASE WriteTextDone
    <2>1. BodyDone(textOutputIndex, text) /\ pc = "text.done" /\ UNCHANGED <<phase, output>>
      BY <1>7 DEF WriteTextDone, BodyDone, Show
    <2>2. items[n].stage = "part"
      BY <1>3, <2>1 DEF textStage, Finishing, ClosingTool
    <2> QED
      BY <1>3, <1>4, <2>1, <2>2, RepeatsContent, ClosingAdvances, Stages
  <1>8. CASE WritePartDone
    <2>1. PartDone(textOutputIndex, text) /\ pc = "text.part.done" /\ UNCHANGED <<phase, output>>
      BY <1>8 DEF WritePartDone, PartDone, Show
    <2>2. items[n].stage = "sealed"
      BY <1>3, <2>1 DEF textStage
    <2> QED
      BY <1>3, <1>4, <2>1, <2>2, RepeatsContent, ClosingAdvances, Stages
  <1>9. CASE WriteTextItemDone
    <2>1. /\ ItemDone(textOutputIndex, MessageItem(text)) /\ pc = "text.item.done"
          /\ UNCHANGED <<phase, output>>
      BY <1>9 DEF WriteTextItemDone, ItemDone, Show
    <2>2. items[n].stage = "closed"
      BY <1>3, <2>1 DEF textStage
    <2>3. /\ MessageItem(text) \in ItemState
          /\ MessageItem(text).kind = "message" /\ MessageItem(text).name = <<>>
          /\ MessageItem(text).callID = NoCall /\ MessageItem(text).body = text
      BY <1>4, MessageType DEF MessageItem
    <2>4. items' = [items EXCEPT ![n] = [items[n] EXCEPT !.stage = "done"]]
      <3> DEFINE item == MessageItem(text)
      <3>1. /\ item \in ItemState /\ ItemDone(textOutputIndex, item)
            /\ item.kind = items[n].kind /\ item.name = items[n].name
            /\ item.callID = items[n].callID /\ item.body = items[n].body
        BY <1>3, <2>1, <2>3
      <3> HIDE DEF item
      <3> QED
        BY <1>3, <3>1, RepeatsContent
    <2> QED
      BY <1>3, <1>4, <2>1, <2>2, <2>4, ClosingAdvances, Stages
  <1> QED
    BY <1>5, <1>6, <1>7, <1>8, <1>9

\* And those of a call; the delta of a custom tool shows nothing.
LEMMA CallFollows ==
    ASSUME ClientInv, live,
           \/ WriteDelta /\ subject # "text"
           \/ WriteInputDelta \/ WriteToolDone \/ WriteToolItemDone
    PROVE  Protocol!Next \/ UNCHANGED <<phase, items, output>>
  <1>1. IInv /\ ViewInv /\ TypeOK /\ PcInv /\ ToolInv
    BY DEF ClientInv, IInv
  <1>2. pc \in {"delta"} \cup ClosingTool
    BY DEF WriteDelta, WriteInputDelta, WriteToolDone, WriteToolItemDone, ClosingTool
  <1>3. PICK i \in CallIDs : i = subject
    BY <1>1, Basics, ClosingToolTypes
    DEF Refs, WriteInputDelta, WriteToolDone, WriteToolItemDone, ClosingTool
  <1> DEFINE n == tools[i].outputIndex + 1
             body == callBody(tools[i].kind, tools[i].arguments)
  <1>4. /\ tools[i].done = (pc \in ClosingTool)
        /\ tools[i].kind \in {"function_call", "custom_tool_call"}
        /\ tools[i].outputIndex \in Nat /\ n \in 1..Len(items)
        /\ items \in Seq(ItemState) /\ items[n] \in ItemState
        /\ items[n].kind = tools[i].kind /\ items[n].name = tools[i].name
        /\ items[n].callID = tools[i].callID
        /\ items[n].body = shownBody(tools[i], pc)
        /\ items[n].stage = toolStage(tools[i].done, pc)
    BY <1>1, <1>2, <1>3, CallSeen
  <1>5. phase = "in_progress" /\ delta \in Seq(STRING)
    BY <1>1, <1>2, Basics DEF IInv, PlaceInv, ClosingTool
  <1>6. CASE WriteDelta /\ subject # "text"
    <2>1. pc = "delta" /\ (UNCHANGED clientVars \/ Delta(tools[i].outputIndex, delta))
      BY <1>3, <1>6 DEF WriteDelta
    <2>2. Protocol!Growing(items[n])
      BY <1>4, <2>1 DEF Protocol!Growing, toolStage, ClosingTool
    <2>3. CASE UNCHANGED clientVars
      BY <2>3 DEF clientVars
    <2> QED
      BY <1>4, <1>5, <2>1, <2>2, <2>3, DeltaGrows
  <1>7. ASSUME WriteInputDelta \/ WriteToolDone \/ WriteToolItemDone
        PROVE  /\ subjectIndex = tools[i].outputIndex /\ body \in Seq(STRING)
               /\ toolItem(tools[i]) \in ItemState
    BY <1>1, <1>3, <1>7, ClosingToolTypes
    DEF WriteInputDelta, WriteToolDone, WriteToolItemDone, ClosingTool
  <1>8. CASE WriteInputDelta
    <2>1. Delta(tools[i].outputIndex, body) /\ pc = "input.delta"
      BY <1>3, <1>7, <1>8 DEF WriteInputDelta
    <2>2. Protocol!Growing(items[n])
      BY <1>4, <2>1 DEF Protocol!Growing, toolStage
    <2> HIDE DEF body
    <2> QED
      BY <1>4, <1>5, <1>7, <1>8, <2>1, <2>2, DeltaGrows
  <1>9. CASE WriteToolDone
    <2>1. /\ BodyDone(tools[i].outputIndex, body) /\ pc = "tool.done"
          /\ UNCHANGED <<phase, output>>
      BY <1>3, <1>7, <1>9 DEF WriteToolDone, BodyDone, Show
    <2>2. items[n].stage = "added" /\ items[n].body = body
      BY <1>4, <2>1 DEF toolStage, shownBody, ClosingTool
    <2> HIDE DEF body
    <2>3. items' = [items EXCEPT ![n] = [items[n] EXCEPT !.stage = "sealed"]]
      BY <1>4, <2>1, <2>2, RepeatsContent
    <2> QED
      BY <1>4, <1>5, <2>1, <2>2, <2>3, ClosingAdvances, Stages
  <1>10. CASE WriteToolItemDone
    <2> DEFINE item == toolItem(tools[i])
    <2>1. /\ ItemDone(tools[i].outputIndex, item) /\ pc = "tool.item.done"
          /\ UNCHANGED <<phase, output>>
      BY <1>3, <1>7, <1>10 DEF WriteToolItemDone, ItemDone, Show
    <2>2. items[n].stage = "sealed" /\ items[n].body = body
      BY <1>4, <2>1 DEF toolStage, shownBody, ClosingTool
    <2>3. /\ item \in ItemState /\ item.kind = items[n].kind /\ item.name = items[n].name
          /\ item.callID = items[n].callID /\ item.body = items[n].body
      BY <1>4, <1>7, <1>10, <2>2 DEF toolItem
    <2> HIDE DEF item
    <2>4. items' = [items EXCEPT ![n] = [items[n] EXCEPT !.stage = "done"]]
      BY <1>4, <2>1, <2>3, RepeatsContent
    <2> QED
      BY <1>4, <1>5, <2>1, <2>2, <2>4, ClosingAdvances, Stages
  <1> QED
    BY <1>6, <1>8, <1>9, <1>10

\* The terminal event repeats what the client has: every item is finished,
\* and the output is built from the same state.
LEMMA FinalFollows ==
    ASSUME ClientInv, live, WriteFinal
    PROVE  Protocol!Next
  <1>1. IInv /\ ViewInv /\ TypeOK /\ OrderInv /\ ToolInv /\ CursorInv /\ PlaceInv
    BY DEF ClientInv, IInv
  <1>2. pc = "tools" /\ cursor > Len(toolOrder) /\ ~done /\ phase = "in_progress"
    BY <1>1 DEF WriteFinal, PlaceInv
  <1>3. phase' = finalStatus /\ output' = finalOutput /\ UNCHANGED items
    BY <1>2 DEF WriteFinal, TerminalEvent
  <1>4. finalStatus \in {"completed", "incomplete"}
    BY DEF finalStatus
  <1>5. /\ Len(items) = Len(outputOrder)
        /\ \A k \in 1..Len(outputOrder) : look(items[k]) = view[outputOrder[k]]
    BY <1>1, <1>2 DEF ViewInv, shownCount, Over
  <1>6. ASSUME NEW i \in CallIDs, tools[i].announced
        PROVE  tools[i].done
    <2>1. PICK k \in DOMAIN toolOrder : toolOrder[k] = i
      BY <1>1, <1>6 DEF ToolInv
    <2>2. k < cursor
      <3>1. toolOrder \in Seq(CallIDs) /\ cursor \in Nat
        BY <1>1 DEF TypeOK, ConverterTypeOK, ControlTypeOK
      <3>2. k \in 1..Len(toolOrder) /\ Len(toolOrder) \in Nat
        BY <2>1, <3>1, LenProperties
      <3> QED
        BY <1>2, <3>1, <3>2
    <2> QED
      BY <1>1, <1>2, <1>6, <2>1, <2>2 DEF CursorInv, Finishing
  <1>7. ASSUME NEW k \in 1..Len(outputOrder)
        PROVE  items[k].stage = "done" /\ items[k] = finalOutputOf(outputOrder[k])
    <2>1. items[k] \in ItemState
      BY <1>1, <1>5, Basics
    <2>2. CASE outputOrder[k] = "text"
      <3>1. look(items[k]) = textLook(text, "tools")
        BY <1>2, <1>5, <2>2, ViewOf, ChatStreamAssumption
      <3>2. /\ Finished(MessageItem(text)) \in ItemState
            /\ look(Finished(MessageItem(text))) = textLook(text, "tools")
        BY <1>1, Basics, MessageType
        DEF look, textLook, textStage, Finishing, Finished, MessageItem
      <3>3. items[k] = Finished(MessageItem(text))
        BY <2>1, <3>1, <3>2, LookIsAll
      <3> QED
        BY <2>2, <3>1, <3>3 DEF finalOutputOf, look, textLook, textStage, Finishing
    <2>3. CASE outputOrder[k] # "text"
      <3>1. PICK i \in CallIDs : i = outputOrder[k] /\ tools[i].announced
        BY <1>1, <2>3, OnePlace
      <3>2. /\ i # "text" /\ tools[i].done /\ tools[i] \in ToolState
            /\ tools[i].kind \in {"function_call", "custom_tool_call"}
        BY <1>1, <1>6, <3>1, Basics DEF ToolInv
      <3>3. look(items[k]) = toolLook(tools[i], placeOf(i))
        BY <1>5, <3>1, <3>2, ViewOf
      <3>4. placeOf(i) \in {"tools", "elsewhere"}
        BY <1>2 DEF placeOf
      <3>5. look(items[k]) = <<tools[i].kind, tools[i].name, tools[i].callID,
                               callBody(tools[i].kind, tools[i].arguments), "done">>
        BY <3>2, <3>3, <3>4 DEF toolLook, shownBody, toolStage
      <3>6. /\ Finished(toolItem(tools[i])) \in ItemState
            /\ look(Finished(toolItem(tools[i]))) = look(items[k])
        BY <3>2, <3>5, ToolItemType DEF look, Finished, toolItem
      <3>7. items[k] = Finished(toolItem(tools[i]))
        BY <2>1, <3>6, LookIsAll
      <3> QED
        BY <2>3, <3>1, <3>5, <3>7 DEF finalOutputOf, look
    <2> QED
      BY <2>2, <2>3
  <1>8. /\ DOMAIN items = 1..Len(outputOrder) /\ DOMAIN outputOrder = 1..Len(outputOrder)
        /\ items \in [1..Len(outputOrder) -> ItemState]
    BY <1>1, <1>5, Basics, LenProperties
  <1>9. \/ output' = items
        \/ items = <<>> /\ output' = <<[Protocol!Message EXCEPT !.stage = "done"]>>
    <2>1. CASE outputOrder = <<>>
      <3>1. Len(items) = 0
        BY <1>5, <2>1, EmptySeq
      <3>2. items = <<>>
        BY <1>1, <3>1, Basics, EmptySeq
      <3>3. Finished(MessageItem(<<>>)) = [Protocol!Message EXCEPT !.stage = "done"]
        BY DEF Finished, MessageItem, Protocol!Message
      <3> QED
        BY <1>3, <2>1, <3>2, <3>3 DEF finalOutput
    <2>2. CASE outputOrder # <<>>
      <3>1. finalOutput = [k \in 1..Len(outputOrder) |-> finalOutputOf(outputOrder[k])]
        BY <1>8, <2>2 DEF finalOutput
      <3>2. finalOutput = items
        BY <1>7, <1>8, <3>1
      <3> QED
        BY <1>3, <3>2
    <2> QED
      BY <2>1, <2>2
  <1>10. Protocol!Complete
    BY <1>2, <1>3, <1>4, <1>7, <1>8, <1>9 DEF Protocol!Complete
  <1> QED
    BY <1>10 DEF Protocol!Next

\* Every step is one the protocol allows, or shows the client nothing.
LEMMA StepFollows ==
    ASSUME ClientInv, ~SplitNames, [Next]_vars
    PROVE  Protocol!Next \/ UNCHANGED <<phase, items, output>>
  <1>1. CASE Read \/ LoseClient \/ NextTool \/ WriteError \/ UNCHANGED vars
    BY <1>1 DEF Read, TextDelta, ReadToolDelta, ToolDelta, FinishReason, ReasoningDelta,
       UpstreamFails, EndOfStream, LoseClient, ClientGone, NextTool, WriteError, vars, streamVars,
       clientVars
  <1>2. CASE Write /\ ~live /\ ~NextTool /\ ~WriteError
    <2>1. CASE \/ WriteCreated \/ WriteInProgress \/ WriteFinal \/ WriteFailed
      BY <1>2, <2>1 DEF WriteCreated, WriteInProgress, WriteFinal, WriteFailed, PhaseEvent,
         TerminalEvent
    <2>2. CASE \/ WriteItemAdded \/ WritePartAdded \/ WriteDelta \/ WriteTextDone
               \/ WritePartDone \/ WriteTextItemDone \/ WriteInputDelta
               \/ WriteToolDone \/ WriteToolItemDone
      BY <1>2, <2>2 DEF WriteItemAdded, WritePartAdded, WriteDelta, WriteTextDone,
         WritePartDone, WriteTextItemDone, WriteInputDelta, WriteToolDone,
         WriteToolItemDone, ItemAdded, PartAdded, Delta, BodyDone, PartDone, ItemDone,
         Show, clientVars
    <2> QED
      BY <1>2, <2>1, <2>2 DEF Write
  <1>3. CASE live /\ WriteCreated
    <2>1. Protocol!Create
      BY <1>3 DEF ClientInv, IInv, PlaceInv, WriteCreated, PhaseEvent, Protocol!Create
    <2> QED
      BY <2>1 DEF Protocol!Next
  <1>4. CASE live /\ WriteInProgress
    <2>1. Protocol!Start
      BY <1>4 DEF ClientInv, IInv, PlaceInv, WriteInProgress, PhaseEvent, Protocol!Start
    <2> QED
      BY <2>1 DEF Protocol!Next
  <1>5. CASE live /\ WriteFailed
    <2>1. /\ phase = "in_progress" /\ output = <<>>
      BY <1>5 DEF ClientInv, IInv, PlaceInv, OutputInv, Answered, WriteFailed
    <2>2. Protocol!Fail
      BY <1>5, <2>1
      DEF ClientInv, IInv, PlaceInv, WriteFailed, TerminalEvent, Protocol!Fail
    <2> QED
      BY <2>2 DEF Protocol!Next
  <1>6. CASE live /\ WriteItemAdded
    BY <1>6, AddFollows
  <1>7. CASE /\ live
             /\ \/ WriteDelta /\ subject = "text"
                \/ WritePartAdded
                \/ WriteTextDone \/ WritePartDone \/ WriteTextItemDone
    BY <1>7, MessageFollows
  <1>8. CASE /\ live
             /\ \/ WriteDelta /\ subject # "text"
                \/ WriteInputDelta \/ WriteToolDone \/ WriteToolItemDone
    BY <1>8, CallFollows
  <1>9. CASE live /\ WriteFinal
    BY <1>9, FinalFollows
  <1> QED
    BY <1>1, <1>2, <1>3, <1>4, <1>5, <1>6, <1>7, <1>8, <1>9 DEF Next, Write, Returned

\* When names come whole, what a client receives is a stream the Responses
\* protocol allows (stream.go event, chat_stream.go): the converter and the
\* writer implement ResponsesProtocol.
THEOREM ImplementsProtocol ==
    ASSUME ~SplitNames
    PROVE  Spec => FollowsProtocol
  <1>1. Init => Protocol!Init
    BY DEF Init, StreamInit, Protocol!Init
  <1>2. ClientInv /\ [Next]_vars => [Protocol!Next]_(Protocol!vars)
    BY StepFollows DEF Protocol!vars
  <1> QED
    BY <1>1, <1>2, ClientsCopy, PTL DEF Spec, FollowsProtocol, Protocol!Spec

-----------------------------------------------------------------------------
(* Part 4: the answer that is collected next to the one that is streamed.    *)

\* A later place has a higher rank.
LEMMA RanksIncrease ==
    ASSUME NEW n \in Nat, NEW places, places \subseteq 1..n,
           NEW p \in places, NEW q \in places, p < q
    PROVE  rank(p, places) < rank(q, places)
  <1> DEFINE upto(x) == {other \in places : other <= x}
  <1>0. \A x \in places : x \in Nat
    OBVIOUS
  <1>1. IsFiniteSet(upto(q))
    <2>1. IsFiniteSet(1..n)
      BY FS_Interval
    <2>2. upto(q) \subseteq 1..n
      OBVIOUS
    <2> QED
      BY <2>1, <2>2, FS_Subset
  <1>2. upto(p) \subseteq upto(q) /\ upto(p) # upto(q)
    <2>1. q \in upto(q) /\ q \notin upto(p)
      BY <1>0
    <2>2. \A x \in places : x <= p => x <= q
      <3> TAKE x \in places
      <3>1. x \in Nat /\ p \in Nat /\ q \in Nat
        BY <1>0
      <3> QED
        BY <3>1
    <2> QED
      BY <2>1, <2>2
  <1>3. /\ Cardinality(upto(p)) <= Cardinality(upto(q))
        /\ Cardinality(upto(p)) # Cardinality(upto(q))
    <2> HIDE DEF upto
    <2> QED
      BY <1>1, <1>2, FS_Subset
  <1>4. Cardinality(upto(p)) \in Nat /\ Cardinality(upto(q)) \in Nat
    <2> HIDE DEF upto
    <2> QED
      BY <1>1, <1>2, FS_Subset, FS_CardinalityType
  <1> QED
    BY <1>3, <1>4 DEF rank

\* Ranks count the places, from one on.
LEMMA RanksCount ==
    ASSUME NEW n \in Nat, NEW places, places \subseteq 1..n
    PROVE  /\ Cardinality(places) \in Nat
           /\ \A p \in places : rank(p, places) \in 1..Cardinality(places)
           /\ \A k \in 1..Cardinality(places) : \E p \in places : rank(p, places) = k
  <1> DEFINE m == Cardinality(places)
             rankOf == [p \in places |-> rank(p, places)]
             ranks == {rank(p, places) : p \in places}
  <1>1. IsFiniteSet(places) /\ m \in Nat
    <2>1. IsFiniteSet(1..n)
      BY FS_Interval
    <2>2. IsFiniteSet(places)
      BY <2>1, FS_Subset
    <2> QED
      BY <2>2, FS_CardinalityType
  <1>2. ASSUME NEW p \in places
        PROVE  rank(p, places) \in 1..m
    <2> DEFINE upto == {other \in places : other <= p}
    <2>1. p \in upto /\ upto \subseteq places
      OBVIOUS
    <2>2. Cardinality(upto) <= m /\ IsFiniteSet(upto)
      BY <1>1, <2>1, FS_Subset
    <2>3. Cardinality(upto) \in Nat /\ Cardinality(upto) # 0
      <3> HIDE DEF upto
      <3> QED
        BY <2>1, <2>2, FS_CardinalityType, FS_EmptySet
    <2> QED
      BY <1>1, <2>2, <2>3 DEF rank
  <1>3. ranks = 1..m
    <2>1. ranks \subseteq 1..m
      BY <1>2
    <2>2. rankOf \in Injection(places, ranks)
      <3>1. rankOf \in [places -> ranks]
        OBVIOUS
      <3>2. ASSUME NEW p \in places, NEW q \in places, rankOf[p] = rankOf[q]
            PROVE  p = q
        <4>1. rank(p, places) = rank(q, places)
          BY <3>2
        <4>2. p \in Nat /\ q \in Nat
          OBVIOUS
        <4>3. rank(p, places) \in Nat
          BY <1>2
        <4>4. CASE p < q
          <5>1. rank(p, places) < rank(q, places)
            BY <4>4, RanksIncrease
          <5> QED
            BY <4>1, <4>3, <5>1
        <4>5. CASE q < p
          <5>1. rank(q, places) < rank(p, places)
            BY <4>5, RanksIncrease
          <5> QED
            BY <4>1, <4>3, <5>1
        <4> QED
          BY <4>2, <4>4, <4>5
      <3> QED
        BY <3>1, <3>2 DEF Injection, IsInjective
    <2>3. IsFiniteSet(1..m) /\ Cardinality(1..m) = m
      BY <1>1, FS_Interval
    <2>4. IsFiniteSet(ranks) /\ Cardinality(ranks) <= m
      BY <2>1, <2>3, FS_Subset
    <2>5. m <= Cardinality(ranks)
      BY <2>2, <2>4, FS_Injection
    <2>6. Cardinality(ranks) = Cardinality(1..m)
      BY <1>1, <2>3, <2>4, <2>5, FS_CardinalityType
    <2> HIDE DEF ranks
    <2> QED
      BY <2>1, <2>3, <2>6, FS_Subset
  <1> QED
    BY <1>1, <1>2, <1>3

\* t has the elements of s at the places, and no others.
takes(t, s, places) ==
    \E m \in Nat : /\ DOMAIN t = 1..m
                   /\ \A k \in 1..m : \E p \in places : t[k] = s[p]
                   /\ \A p \in places : \E k \in 1..m : t[k] = s[p]

\* What a subsequence contains.
LEMMA SubsequenceElements ==
    ASSUME NEW s, NEW n \in Nat, NEW places, places \subseteq 1..n
    PROVE  takes(subsequence(s, places), s, places)
  <1> DEFINE m == Cardinality(places)
             at == [k \in 1..m |-> CHOOSE place \in places : rank(place, places) = k]
  <1>1. /\ m \in Nat
        /\ \A p \in places : rank(p, places) \in 1..m
        /\ \A k \in 1..m : \E p \in places : rank(p, places) = k
    BY RanksCount
  <1>2. subsequence(s, places) = [k \in 1..m |-> s[at[k]]]
    BY DEF subsequence
  <1> HIDE DEF m
  <1>3. \A k \in 1..m : at[k] \in places /\ rank(at[k], places) = k
    BY <1>1
  <1> HIDE DEF at
  <1>4. ASSUME NEW p \in places, NEW q \in places, rank(p, places) = rank(q, places)
        PROVE  p = q
    <2>1. rank(p, places) \in Nat
      BY <1>1
    <2>2. p \in Nat /\ q \in Nat
      OBVIOUS
    <2>3. p < q => rank(p, places) < rank(q, places)
      BY RanksIncrease
    <2>4. q < p => rank(q, places) < rank(p, places)
      BY RanksIncrease
    <2> QED
      BY <1>4, <2>1, <2>2, <2>3, <2>4
  <1>5. ASSUME NEW p \in places
        PROVE  \E k \in 1..m : subsequence(s, places)[k] = s[p]
    <2>1. rank(p, places) \in 1..m
      BY <1>1
    <2>2. at[rank(p, places)] = p
      BY <1>3, <1>4, <2>1
    <2> QED
      BY <1>2, <2>1, <2>2
  <1> QED
    BY <1>1, <1>2, <1>3, <1>5 DEF takes

\* SetToSeq lists every member of a finite set.
LEMMA SetListed ==
    ASSUME NEW S, IsFiniteSet(S)
    PROVE  /\ Cardinality(S) \in Nat
           /\ SetToSeq(S) \in [1..Cardinality(S) -> S]
           /\ \A x \in S : \E k \in 1..Cardinality(S) : SetToSeq(S)[k] = x
  <1> DEFINE n == Cardinality(S)
             listing == SetToSeq(S)
  <1>1. n \in Nat /\ ExistsBijection(1..n, S)
    BY FS_CardinalityType
  <1>2. \E f \in [1..n -> S] : IsInjective(f)
    BY <1>1 DEF ExistsBijection, Bijection, Injection
  <1>3. listing \in [1..n -> S] /\ IsInjective(listing)
    BY <1>2 DEF SetToSeq
  <1> HIDE DEF listing
  <1>4. listing \in Injection(1..n, S)
    BY <1>3 DEF Injection
  <1>5. Cardinality(1..n) = Cardinality(S)
    BY <1>1, FS_Interval
  <1>6. listing \in Surjection(1..n, S)
    BY <1>4, <1>5, FS_Injection
  <1>7. \A x \in S : \E k \in 1..n : listing[k] = x
    BY <1>6 DEF Surjection
  <1> QED
    BY <1>1, <1>3, <1>7 DEF listing

\* What a concatenation contains.
LEMMA ConcatElements ==
    ASSUME NEW S, NEW a \in Seq(S), NEW b \in Seq(S)
    PROVE  \A x : x \in ToSet(a \o b) <=> x \in ToSet(a) \/ x \in ToSet(b)
  <1>1. /\ DOMAIN a = 1..Len(a) /\ DOMAIN b = 1..Len(b)
        /\ Len(a) \in Nat /\ Len(b) \in Nat
    BY LenProperties
  <1>2. /\ a \o b \in Seq(S) /\ Len(a \o b) = Len(a) + Len(b)
        /\ \A k \in 1..Len(a) + Len(b) :
               (a \o b)[k] = IF k <= Len(a) THEN a[k] ELSE b[k - Len(a)]
    BY ConcatProperties
  <1>3. DOMAIN (a \o b) = 1..Len(a) + Len(b)
    BY <1>2, LenProperties
  <1>4. ASSUME NEW x, x \in ToSet(a \o b)
        PROVE  x \in ToSet(a) \/ x \in ToSet(b)
    <2>1. PICK k \in 1..Len(a) + Len(b) : (a \o b)[k] = x
      BY <1>3, <1>4 DEF ToSet
    <2>2. k <= Len(a) => k \in 1..Len(a)
      BY <1>1
    <2>3. ~(k <= Len(a)) => k - Len(a) \in 1..Len(b)
      BY <1>1
    <2> QED
      BY <1>1, <1>2, <2>1, <2>2, <2>3 DEF ToSet
  <1>5. ASSUME NEW x, x \in ToSet(a)
        PROVE  x \in ToSet(a \o b)
    <2>1. PICK k \in 1..Len(a) : a[k] = x
      BY <1>1, <1>5 DEF ToSet
    <2>2. k \in 1..Len(a) + Len(b) /\ k <= Len(a)
      BY <1>1
    <2> QED
      BY <1>2, <1>3, <2>1, <2>2 DEF ToSet
  <1>6. ASSUME NEW x, x \in ToSet(b)
        PROVE  x \in ToSet(a \o b)
    <2>1. PICK k \in 1..Len(b) : b[k] = x
      BY <1>1, <1>6 DEF ToSet
    <2>2. /\ Len(a) + k \in 1..Len(a) + Len(b) /\ ~(Len(a) + k <= Len(a))
          /\ (Len(a) + k) - Len(a) = k
      BY <1>1
    <2>3. (a \o b)[Len(a) + k] = b[k]
      BY <1>2, <2>2
    <2> QED
      BY <1>3, <2>1, <2>2, <2>3 DEF ToSet
  <1> QED
    BY <1>4, <1>5, <1>6

-----------------------------------------------------------------------------
(* What is collected.                                                        *)

\* The collecting path has joined the same pieces the converter was sent.
sentCalls == [i \in CallIDs |-> [id |-> IF i \in sentIDs THEN i ELSE NoCall,
                                 name |-> sentNames[i], arguments |-> sentArguments[i]]]

collected ==
    [content |-> sentText, reasoning |-> choice.reasoning, finishReason |-> finishReason,
     indices |-> choice.indices, toolCalls |-> sentCalls]

CollectedInv ==
    /\ choice = collected
    /\ choice.indices \subseteq CallIDs /\ IsFiniteSet(choice.indices)
    /\ \A i \in CallIDs : sentNames[i] # <<>> => i \in choice.indices

StatusInv == Answered => phase = finalStatus

\* Nothing has been collected when nothing has been sent.
LEMMA InitCollected ==
    ASSUME PathsInit
    PROVE  CollectedInv
  <1>1. /\ sentText = <<>> /\ finishReason = "" /\ sentIDs = {}
        /\ \A i \in CallIDs : sentNames[i] = <<>> /\ sentArguments[i] = <<>>
        /\ choice = NewChoice
    BY DEF PathsInit, Init
  <1>2. choice.indices = {} /\ IsFiniteSet(choice.indices)
    BY <1>1, FS_EmptySet DEF NewChoice
  <1>3. choice = collected
    BY <1>1 DEF NewChoice, collected, sentCalls
  <1> QED
    BY <1>1, <1>2, <1>3 DEF CollectedInv

\* What a tool_calls element adds to the collected calls and to what was sent.
LEMMA CallCollected ==
    ASSUME CollectedInv, TypeOK, NEW i \in CallIDs, NEW id \in {i, NoCall}, NEW name,
           NEW arguments, ToolDelta(i, id, name, arguments),
           choice' = withToolCall(choice, i, id, name, arguments)
    PROVE  CollectedInv'
  <1>1. /\ sentArguments' = [sentArguments EXCEPT ![i] = @ \o arguments]
        /\ sentNames' = [sentNames EXCEPT ![i] = @ \o name]
        /\ sentIDs' = IF id = NoCall THEN sentIDs ELSE sentIDs \cup {i}
        /\ UNCHANGED <<sentText, finishReason>>
    BY DEF ToolDelta
  <1>2. /\ sentArguments \in [CallIDs -> Seq(STRING)] /\ sentNames \in [CallIDs -> Seq(STRING)]
        /\ NoCall \notin CallIDs
    BY ChatStreamAssumption DEF TypeOK, SentTypeOK
  <1>3. choice = collected
    BY DEF CollectedInv
  <1> DEFINE call == choice.toolCalls[i]
             joined == [id |-> IF id = NoCall THEN call.id ELSE id, name |-> call.name \o name,
                        arguments |-> call.arguments \o arguments]
             calls == [j \in CallIDs |-> IF j = i THEN joined ELSE choice.toolCalls[j]]
  <1>4. /\ call.id = IF i \in sentIDs THEN i ELSE NoCall
        /\ call.name = sentNames[i] /\ call.arguments = sentArguments[i]
    BY <1>3 DEF collected, sentCalls
  <1>5. choice' = [content |-> choice.content, reasoning |-> choice.reasoning,
                   finishReason |-> choice.finishReason,
                   indices |-> choice.indices \cup {i}, toolCalls |-> calls]
    <2>1. choice.toolCalls = sentCalls
      BY <1>3 DEF collected
    <2>2. [choice.toolCalls EXCEPT ![i] = joined] = calls
      BY <2>1 DEF sentCalls
    <2> HIDE DEF calls, joined
    <2>3. choice' = [choice EXCEPT !.indices = choice.indices \cup {i},
                                   !.toolCalls = [choice.toolCalls EXCEPT ![i] = joined]]
      BY DEF withToolCall, joined
    <2> QED
      BY <1>3, <2>2, <2>3 DEF collected
  <1>6. ASSUME NEW j \in CallIDs
        PROVE  calls[j] = [id |-> IF j \in sentIDs' THEN j ELSE NoCall,
                           name |-> sentNames'[j], arguments |-> sentArguments'[j]]
    <2>1. CASE j = i
      <3>1. /\ sentNames'[i] = sentNames[i] \o name
            /\ sentArguments'[i] = sentArguments[i] \o arguments
        BY <1>1, <1>2
      <3>2. joined.id = IF i \in sentIDs' THEN i ELSE NoCall
        BY <1>1, <1>4
      <3> QED
        BY <1>4, <2>1, <3>1, <3>2
    <2>2. CASE j # i
      <3>1. /\ sentNames'[j] = sentNames[j] /\ sentArguments'[j] = sentArguments[j]
            /\ j \in sentIDs' <=> j \in sentIDs
        BY <1>1, <1>2, <2>2
      <3> QED
        BY <1>3, <2>2, <3>1 DEF collected, sentCalls
    <2> QED
      BY <2>1, <2>2
  <1>7. calls = sentCalls'
    BY <1>6 DEF sentCalls
  <1> HIDE DEF calls, joined, call
  <1>8. choice' = collected'
    <2>1. choice.content = sentText /\ choice.finishReason = finishReason
      BY <1>3 DEF collected
    <2>2. choice'.reasoning = choice.reasoning /\ choice'.indices = choice.indices \cup {i}
      BY <1>5
    <2> QED
      BY <1>1, <1>5, <1>7, <2>1, <2>2 DEF collected
  <1>9. choice'.indices \subseteq CallIDs /\ IsFiniteSet(choice'.indices)
    BY <1>5, FS_AddElement DEF CollectedInv
  <1>10. \A j \in CallIDs : sentNames'[j] # <<>> => j \in choice'.indices
    <2> TAKE j \in CallIDs
    <2>1. j # i => sentNames'[j] = sentNames[j]
      BY <1>1, <1>2
    <2> QED
      BY <1>5, <2>1 DEF CollectedInv
  <1> QED
    BY <1>8, <1>9, <1>10 DEF CollectedInv

\* Every step keeps the collected answer what was sent.
LEMMA CollectedStep ==
    ASSUME TypeOK, CollectedInv, [PathsNext]_pathsVars
    PROVE  CollectedInv'
  <1>1. choice = collected
    BY DEF CollectedInv
  <1>2. UNCHANGED <<sentNames, sentArguments, sentIDs>> => UNCHANGED sentCalls
    BY DEF sentCalls
  <1>3. /\ choice.content = sentText /\ choice.finishReason = finishReason
        /\ choice.toolCalls = sentCalls
    BY <1>1 DEF collected
  <1>4. CASE ReadToolCall
    BY <1>4, CallCollected DEF ReadToolCall
  <1>5. CASE ReadText
    <2>1. PICK fragment \in Fragments :
              TextDelta(fragment) /\ choice' = [choice EXCEPT !.content = Append(@, fragment)]
      BY <1>5 DEF ReadText
    <2>2. /\ sentText' = Append(sentText, fragment)
          /\ UNCHANGED <<sentNames, sentArguments, sentIDs, finishReason>>
      BY <2>1 DEF TextDelta
    <2>3. choice' = [content |-> Append(choice.content, fragment),
                     reasoning |-> choice.reasoning, finishReason |-> choice.finishReason,
                     indices |-> choice.indices, toolCalls |-> choice.toolCalls]
      BY <1>1, <2>1 DEF collected
    <2>4. choice'.reasoning = choice.reasoning /\ choice'.indices = choice.indices
      BY <2>3
    <2>5. choice' = collected' /\ choice'.indices = choice.indices
      BY <1>2, <1>3, <2>2, <2>3, <2>4 DEF collected
    <2> QED
      BY <2>2, <2>5 DEF CollectedInv
  <1>6. CASE ReadReasoning
    <2>1. PICK fragment \in Fragments :
              ReasoningDelta /\ choice' = [choice EXCEPT !.reasoning = Append(@, fragment)]
      BY <1>6 DEF ReadReasoning
    <2>2. UNCHANGED <<sentText, sentNames, sentArguments, sentIDs, finishReason>>
      BY <2>1 DEF ReasoningDelta, converterVars
    <2>3. choice' = [content |-> choice.content, reasoning |-> Append(choice.reasoning, fragment),
                     finishReason |-> choice.finishReason, indices |-> choice.indices,
                     toolCalls |-> choice.toolCalls]
      BY <1>1, <2>1 DEF collected
    <2>4. choice'.reasoning = Append(choice.reasoning, fragment) /\ choice'.indices = choice.indices
      BY <2>3
    <2>5. choice' = collected' /\ choice'.indices = choice.indices
      BY <1>2, <1>3, <2>2, <2>3, <2>4 DEF collected
    <2> QED
      BY <2>2, <2>5 DEF CollectedInv
  <1>7. CASE ReadFinishReason
    <2>1. PICK reason \in FinishReasons :
              FinishReason(reason) /\ choice' = [choice EXCEPT !.finishReason = reason]
      BY <1>7 DEF ReadFinishReason
    <2>2. finishReason' = reason /\ UNCHANGED <<sentText, sentNames, sentArguments, sentIDs>>
      BY <2>1 DEF FinishReason
    <2>3. choice' = [content |-> choice.content, reasoning |-> choice.reasoning,
                     finishReason |-> reason, indices |-> choice.indices,
                     toolCalls |-> choice.toolCalls]
      BY <1>1, <2>1 DEF collected
    <2>4. choice'.reasoning = choice.reasoning /\ choice'.indices = choice.indices
      BY <2>3
    <2>5. choice' = collected' /\ choice'.indices = choice.indices
      BY <1>2, <1>3, <2>2, <2>3, <2>4 DEF collected
    <2> QED
      BY <2>2, <2>5 DEF CollectedInv
  <1>8. CASE \/ (UpstreamFails \/ EndOfStream) /\ UNCHANGED choice
             \/ PathsWrite
             \/ (LoseClient \/ Returned) /\ UNCHANGED choice
             \/ UNCHANGED pathsVars
    <2>1. UNCHANGED <<choice, sentText, sentNames, sentArguments, sentIDs, finishReason>>
      BY <1>8 DEF PathsWrite, Write, UpstreamFails, EndOfStream, LoseClient, Returned,
         WriteCreated, WriteInProgress, WriteItemAdded, WritePartAdded, WriteDelta,
         WriteTextDone, WritePartDone, WriteTextItemDone, NextTool, WriteInputDelta,
         WriteToolDone, WriteToolItemDone, WriteFinal, WriteFailed, WriteError, pathsVars,
         vars, converterVars, sentVars
    <2>2. collected' = collected
      BY <1>2, <2>1 DEF collected
    <2> QED
      BY <2>1, <2>2 DEF CollectedInv
  <1> QED
    <2>1. \/ ReadText \/ ReadToolCall \/ ReadReasoning \/ ReadFinishReason
          \/ (UpstreamFails \/ EndOfStream) /\ UNCHANGED choice
          \/ PathsWrite
          \/ (LoseClient \/ Returned) /\ UNCHANGED choice
          \/ UNCHANGED pathsVars
      BY DEF PathsNext, PathsRead
    <2> QED
      BY <1>4, <1>5, <1>6, <1>7, <1>8, <2>1

\* A step of both paths is a step of the streaming one.
LEMMA PathsStep ==
    ASSUME [PathsNext]_pathsVars
    PROVE  [Next]_vars
  <1>1. CASE PathsRead
    <2>1. ReadText => Read
      BY DEF ReadText, Read
    <2>2. ReadToolCall => Read
      BY DEF ReadToolCall, ReadToolDelta, Read
    <2>3. ReadReasoning => Read
      BY DEF ReadReasoning, Read
    <2>4. ReadFinishReason => Read
      BY DEF ReadFinishReason, Read
    <2>5. UpstreamFails \/ EndOfStream => Read
      BY DEF Read
    <2> QED
      BY <1>1, <2>1, <2>2, <2>3, <2>4, <2>5 DEF PathsRead, Next
  <1> QED
    BY <1>1 DEF PathsNext, PathsWrite, Next, pathsVars

\* The status a response is completed with is that of its finish reason.
LEMMA StatusStep ==
    ASSUME IInv, StatusInv, [Next]_vars
    PROVE  StatusInv'
  <1>1. CASE UNCHANGED vars
    BY <1>1 DEF StatusInv, Answered, finalStatus, vars, streamVars, clientVars, converterVars
  <1>2. CASE Answered /\ ~UNCHANGED vars
    BY <1>2, AnsweredRests
  <1>3. CASE WriteFinal
    <2>1. phase' \in {phase, finalStatus} /\ UNCHANGED finishReason
      BY <1>3 DEF WriteFinal, TerminalEvent, converterVars
    <2>2. finalStatus' = finalStatus
      BY <2>1 DEF finalStatus
    <2> QED
      <3>1. CASE phase' = finalStatus
        BY <2>2, <3>1 DEF StatusInv
      <3>2. CASE phase' = phase
        BY <2>2, <3>2 DEF StatusInv, Answered
      <3> QED
        BY <2>1, <3>1, <3>2
  <1>4. CASE ~Answered /\ ~WriteFinal
    <2>1. phase' = phase \/ phase' \in {"created", "in_progress", "failed"}
      BY <1>4, OtherPhases
    <2> QED
      BY <1>4, <2>1 DEF StatusInv, Answered
  <1> QED
    BY <1>1, <1>2, <1>3, <1>4

-----------------------------------------------------------------------------
(* What a collected answer shows.                                            *)

\* The sequence of one element contains it alone, that of none contains nothing.
LEMMA ShortElements ==
    ASSUME NEW S, NEW x \in S
    PROVE  /\ <<x>> \in Seq(S) /\ <<>> \in Seq(S)
           /\ \A y : y \in ToSet(<<x>>) <=> y = x
           /\ \A y : y \notin ToSet(<<>>)
  <1>1. <<x>> \in Seq(S) /\ Len(<<x>>) = 1 /\ <<x>>[1] = x
    OBVIOUS
  <1>2. DOMAIN <<x>> = {1}
    OBVIOUS
  <1>3. <<>> \in Seq(S) /\ DOMAIN <<>> = {}
    BY EmptySeq, LenProperties
  <1> QED
    BY <1>1, <1>2, <1>3 DEF ToSet

\* The output of a converted completion: its reasoning, its message unless it
\* is empty and there are calls, and every call with a name.
LEMMA ConversionElements ==
    ASSUME NEW completion, NEW n \in Nat, DOMAIN completion.toolCalls = 1..n
    PROVE  /\ \E S : ChatCompletionToResponses(completion).output \in Seq(S)
           /\ \A x : x \in ToSet(ChatCompletionToResponses(completion).output) <=>
                  \/ completion.reasoning # <<>> /\ x = reasoningOutputItem(completion.reasoning)
                  \/ /\ completion.content # <<>> \/ completion.toolCalls = <<>>
                     /\ x = messageOutputItem(completion.content)
                  \/ \E p \in 1..n : /\ completion.toolCalls[p].name # <<>>
                                     /\ x = chatToolCallToResponses(completion.toolCalls[p])
  <1> DEFINE calls == completion.toolCalls
             places == {k \in DOMAIN calls : calls[k].name # <<>>}
             named == subsequence(calls, places)
             shown == [k \in DOMAIN named |-> chatToolCallToResponses(named[k])]
             said == IF completion.content # <<>> \/ calls = <<>>
                     THEN <<messageOutputItem(completion.content)>> ELSE <<>>
             all == said \o shown
             message == messageOutputItem(completion.content)
             reasoning == reasoningOutputItem(completion.reasoning)
             S == {message, reasoning} \cup {chatToolCallToResponses(calls[p]) : p \in places}
  <1>1. ChatCompletionToResponses(completion).output = withReasoning(completion.reasoning, all)
    BY DEF ChatCompletionToResponses
  <1>2. places \subseteq 1..n
    OBVIOUS
  <1>3. PICK m \in Nat : /\ DOMAIN named = 1..m
                         /\ \A k \in 1..m : \E p \in places : named[k] = calls[p]
                         /\ \A p \in places : \E k \in 1..m : named[k] = calls[p]
    <2> HIDE DEF places, calls
    <2>1. takes(subsequence(calls, places), calls, places)
      BY <1>2, SubsequenceElements
    <2> QED
      BY <2>1 DEF takes
  <1> HIDE DEF named
  <1>4. shown \in Seq(S)
    <2>1. \A k \in 1..m : shown[k] \in S
      BY <1>3
    <2>2. shown = [k \in 1..m |-> shown[k]]
      BY <1>3
    <2> HIDE DEF shown, S
    <2> QED
      BY <2>1, <2>2
  <1>5. \A x : x \in ToSet(shown) <=> \E p \in places : x = chatToolCallToResponses(calls[p])
    BY <1>3 DEF ToSet
  <1> HIDE DEF shown
  <1>6. message \in S /\ reasoning \in S
    OBVIOUS
  <1>7. /\ said \in Seq(S)
        /\ \A x : x \in ToSet(said) <=>
               (completion.content # <<>> \/ calls = <<>>) /\ x = message
    <2>1. /\ <<message>> \in Seq(S) /\ <<>> \in Seq(S)
          /\ \A y : y \in ToSet(<<message>>) <=> y = message
          /\ \A y : y \notin ToSet(<<>>)
      <3> HIDE DEF S, message
      <3> QED
        BY <1>6, ShortElements
    <2> HIDE DEF S, calls
    <2>2. CASE completion.content # <<>> \/ calls = <<>>
      BY <2>1, <2>2
    <2>3. CASE ~(completion.content # <<>> \/ calls = <<>>)
      BY <2>1, <2>3
    <2> QED
      BY <2>2, <2>3
  <1>8. <<reasoning>> \in Seq(S) /\ \A y : y \in ToSet(<<reasoning>>) <=> y = reasoning
    <2> HIDE DEF S, reasoning
    <2> QED
      BY <1>6, ShortElements
  <1> HIDE DEF said, S
  <1>9. all \in Seq(S) /\ \A x : x \in ToSet(all) <=> x \in ToSet(said) \/ x \in ToSet(shown)
    BY <1>4, <1>7, ConcatElements, ConcatProperties
  <1> HIDE DEF all
  <1>10. \A x : x \in ToSet(<<reasoning>> \o all) <=> x \in ToSet(<<reasoning>>) \/ x \in ToSet(all)
    <2>1. PICK first : first = <<reasoning>>
      OBVIOUS
    <2>2. first \in Seq(S)
      BY <1>8, <2>1
    <2>3. \A x : x \in ToSet(first \o all) <=> x \in ToSet(first) \/ x \in ToSet(all)
      BY <1>9, <2>2, ConcatElements
    <2> QED
      BY <2>1, <2>3
  <1>11. \A x : x \in ToSet(withReasoning(completion.reasoning, all)) <=>
             (completion.reasoning # <<>> /\ x = reasoning) \/ x \in ToSet(all)
    BY <1>8, <1>10 DEF withReasoning
  <1> HIDE DEF reasoning
  <1>12. \A x : (\E p \in places : x = chatToolCallToResponses(calls[p])) <=>
                \E p \in 1..n : /\ calls[p].name # <<>>
                                /\ x = chatToolCallToResponses(calls[p])
    OBVIOUS
  <1>13. \A x : x \in ToSet(ChatCompletionToResponses(completion).output) <=>
             \/ completion.reasoning # <<>> /\ x = reasoning
             \/ (completion.content # <<>> \/ calls = <<>>) /\ x = message
             \/ \E p \in 1..n : /\ calls[p].name # <<>>
                                /\ x = chatToolCallToResponses(calls[p])
    <2> HIDE DEF message, places, calls
    <2> QED
      BY <1>1, <1>5, <1>7, <1>9, <1>11, <1>12
  <1>14. \E T : ChatCompletionToResponses(completion).output \in Seq(T)
    <2>1. PICK first : first = <<reasoning>>
      OBVIOUS
    <2>2. first \o all \in Seq(S)
      BY <1>8, <1>9, <2>1, ConcatProperties
    <2>3. withReasoning(completion.reasoning, all) \in Seq(S)
      BY <1>9, <2>1, <2>2 DEF withReasoning, reasoning
    <2> QED
      BY <1>1, <2>3
  <1> QED
    BY <1>13, <1>14 DEF reasoning

-----------------------------------------------------------------------------
(* Both paths give the same answer.                                          *)

\* What the collected answer shows: the reasoning, the message, and the calls
\* that have a name.
LEMMA WholeElements ==
    ASSUME CollectedInv
    PROVE  \A x :
        /\ x \in ToSet(whole.output) =>
               \/ choice.reasoning # <<>> /\ x = reasoningOutputItem(choice.reasoning)
               \/ x = messageOutputItem(sentText)
               \/ \E i \in CallIDs : /\ sentNames[i] # <<>>
                                     /\ x = chatToolCallToResponses(sentCalls[i])
        /\ choice.reasoning # <<>> /\ x = reasoningOutputItem(choice.reasoning)
               => x \in ToSet(whole.output)
        /\ sentText # <<>> /\ x = messageOutputItem(sentText) => x \in ToSet(whole.output)
        /\ (\E i \in CallIDs :
                sentNames[i] # <<>> /\ x = chatToolCallToResponses(sentCalls[i]))
               => x \in ToSet(whole.output)
  <1> DEFINE order == SetToSeq(choice.indices)
             n == Cardinality(choice.indices)
             calls == aggregated.toolCalls
  <1>1. /\ choice.content = sentText /\ choice.toolCalls = sentCalls
        /\ choice.indices \subseteq CallIDs
        /\ \A i \in CallIDs : sentNames[i] # <<>> => i \in choice.indices
        /\ \A i \in CallIDs : sentCalls[i].name = sentNames[i]
    BY DEF CollectedInv, collected, sentCalls
  <1>2. /\ n \in Nat /\ order \in [1..n -> choice.indices]
        /\ \A i \in choice.indices : \E k \in 1..n : order[k] = i
    BY SetListed DEF CollectedInv
  <1>3. /\ aggregated.content = sentText /\ aggregated.reasoning = choice.reasoning
        /\ calls = [k \in DOMAIN order |-> sentCalls[order[k]]]
    BY <1>1 DEF aggregated
  <1> HIDE DEF order, n
  <1>4. DOMAIN calls = 1..n /\ \A k \in 1..n : calls[k] = sentCalls[order[k]]
    BY <1>2, <1>3
  <1> DEFINE says(x) ==
                 \/ choice.reasoning # <<>> /\ x = reasoningOutputItem(choice.reasoning)
                 \/ /\ sentText # <<>> \/ calls = <<>>
                    /\ x = messageOutputItem(sentText)
                 \/ \E p \in 1..n : /\ calls[p].name # <<>>
                                    /\ x = chatToolCallToResponses(calls[p])
  <1>5. \A x : x \in ToSet(whole.output) <=> says(x)
    <2> HIDE DEF calls
    <2>1. PICK c : c = aggregated
      OBVIOUS
    <2>2. DOMAIN c.toolCalls = 1..n /\ n \in Nat
      BY <1>2, <1>4, <2>1 DEF calls
    <2>3. \A x : x \in ToSet(ChatCompletionToResponses(c).output) <=>
              \/ c.reasoning # <<>> /\ x = reasoningOutputItem(c.reasoning)
              \/ /\ c.content # <<>> \/ c.toolCalls = <<>>
                 /\ x = messageOutputItem(c.content)
              \/ \E p \in 1..n : /\ c.toolCalls[p].name # <<>>
                                 /\ x = chatToolCallToResponses(c.toolCalls[p])
      BY <2>2, ConversionElements
    <2>4. whole = ChatCompletionToResponses(c) /\ c.toolCalls = calls
      BY <2>1 DEF whole, calls
    <2> QED
      BY <1>3, <2>1, <2>3, <2>4
  <1>6. \A x : (\E p \in 1..n : /\ calls[p].name # <<>>
                               /\ x = chatToolCallToResponses(calls[p]))
               <=> \E i \in CallIDs : /\ sentNames[i] # <<>>
                                      /\ x = chatToolCallToResponses(sentCalls[i])
    <2> HIDE DEF calls
    <2> TAKE x
    <2>1. ASSUME NEW p \in 1..n, calls[p].name # <<>>, x = chatToolCallToResponses(calls[p])
          PROVE  \E i \in CallIDs : /\ sentNames[i] # <<>>
                                    /\ x = chatToolCallToResponses(sentCalls[i])
      <3>1. order[p] \in CallIDs /\ calls[p] = sentCalls[order[p]]
        BY <1>1, <1>2, <1>4
      <3> QED
        BY <1>1, <2>1, <3>1
    <2>2. ASSUME NEW i \in CallIDs, sentNames[i] # <<>>, x = chatToolCallToResponses(sentCalls[i])
          PROVE  \E p \in 1..n : /\ calls[p].name # <<>>
                                 /\ x = chatToolCallToResponses(calls[p])
      <3>1. PICK k \in 1..n : order[k] = i
        BY <1>1, <1>2, <2>2
      <3>2. calls[k] = sentCalls[i]
        BY <1>4, <3>1
      <3> QED
        BY <1>1, <2>2, <3>2
    <2> QED
      BY <2>1, <2>2
  <1> HIDE DEF calls
  <1> QED
    BY <1>5, <1>6

\* An identified call is the same item on both paths.
LEMMA SameCall ==
    ASSUME NEW i \in CallIDs
    PROVE  /\ i \in sentIDs => chatToolCallToResponses(sentCalls[i]) = sentItem(i)
           /\ sentCalls[i].id = NoCall <=> i \notin sentIDs
           /\ sentCalls[i].name = sentNames[i]
  <1>1. /\ sentCalls[i].id = IF i \in sentIDs THEN i ELSE NoCall
        /\ sentCalls[i].name = sentNames[i] /\ sentCalls[i].arguments = sentArguments[i]
        /\ i # NoCall
    BY ChatStreamAssumption DEF sentCalls
  <1>2. i \in sentIDs => chatToolCallToResponses(sentCalls[i]) = sentItem(i)
    BY <1>1 DEF chatToolCallToResponses, callIDOf, outputItem, sentItem, Finished
  <1> QED
    BY <1>1, <1>2

\* Neither reasoning nor a call is a message, and the messages of both paths
\* are the same.
LEMMA ItemKinds ==
    ASSUME NEW body
    PROVE  /\ messageOutputItem(body) = Finished(MessageItem(body))
           /\ messageOutputItem(body) = messageOutputItem(<<>>) => body = <<>>
           /\ reasoningOutputItem(body) # messageOutputItem(<<>>)
           /\ \A call : chatToolCallToResponses(call) # messageOutputItem(<<>>)
           /\ \A i : sentItem(i) # messageOutputItem(<<>>)
  <1>1. messageOutputItem(body) = Finished(MessageItem(body))
    BY DEF messageOutputItem, outputItem, Finished, MessageItem
  <1>2. /\ messageOutputItem(<<>>).kind = "message" /\ messageOutputItem(<<>>).body = <<>>
        /\ messageOutputItem(body).body = body /\ reasoningOutputItem(body).kind = "reasoning"
    BY DEF messageOutputItem, reasoningOutputItem, outputItem
  <1>3. \A name : toolKind(name) # "message"
    BY DEF toolKind
  <1>4. /\ \A call : chatToolCallToResponses(call).kind = toolKind(call.name)
        /\ \A i : sentItem(i).kind = toolKind(sentNames[i])
    BY DEF chatToolCallToResponses, outputItem, sentItem, Finished
  <1> QED
    BY <1>1, <1>2, <1>3, <1>4

\* When nothing is lost on either path, both show the same.
LEMMA AgreeNow ==
    ASSUME IInv, NothingLost, CollectedInv, StatusInv
    PROVE  PathsAgree
  <1> SUFFICES ASSUME Answered
               PROVE  /\ phase = whole.status
                      /\ ToSet(whole.output) \ {messageOutputItem(<<>>)}
                           = (ToSet(output) \ {messageOutputItem(<<>>)}) \cup onlyWhole
    BY DEF PathsAgree
  <1>1. phase = whole.status
    <2>1. aggregated.finishReason = finishReason
      BY DEF aggregated, CollectedInv, collected
    <2>2. whole.status = statusOf(finishReason)
      BY <2>1 DEF whole, ChatCompletionToResponses
    <2> QED
      BY <2>2 DEF StatusInv, statusOf, finalStatus
  <1> DEFINE empty == messageOutputItem(<<>>)
             thinks(x) == choice.reasoning # <<>> /\ x = reasoningOutputItem(choice.reasoning)
             tells(x) == sentText # <<>> /\ x = messageOutputItem(sentText)
             calls(x) == \E i \in CallIDs : /\ i \in sentIDs /\ sentNames[i] # <<>>
                                            /\ x = sentItem(i)
             guesses(x) == \E i \in CallIDs : /\ i \notin sentIDs /\ sentNames[i] # <<>>
                                              /\ x = chatToolCallToResponses(sentCalls[i])
  <1>2. \A x : (\E i \in CallIDs : /\ sentNames[i] # <<>>
                                  /\ x = chatToolCallToResponses(sentCalls[i]))
               <=> calls(x) \/ guesses(x)
    BY SameCall
  <1>3. \A x : x \in onlyWhole <=> thinks(x) \/ guesses(x)
    <2>1. choice.toolCalls = sentCalls
      BY DEF CollectedInv, collected
    <2>2. \A x : x \in onlyWhole <=>
              \/ thinks(x)
              \/ \E i \in CallIDs : /\ sentCalls[i].id = NoCall /\ sentCalls[i].name # <<>>
                                    /\ x = chatToolCallToResponses(sentCalls[i])
      BY <2>1 DEF onlyWhole
    <2> QED
      BY <2>2, SameCall
  <1>4. \A x : x \in sentItems <=> calls(x) \/ tells(x)
    <2>1. sentIDs \subseteq CallIDs
      BY DEF IInv, TypeOK, SentTypeOK
    <2>2. messageOutputItem(sentText) = Finished(MessageItem(sentText))
      BY ItemKinds
    <2> QED
      BY <2>1, <2>2 DEF sentItems
  <1>5. \A x : x # empty => (x \in ToSet(output) <=> calls(x) \/ tells(x))
    <2>1. ToSet(output) = IF sentItems = {} THEN {empty} ELSE sentItems
      BY ItemKinds DEF NothingLost, ToSet
    <2> HIDE DEF calls, tells, empty
    <2> QED
      BY <1>4, <2>1
  <1>6. /\ empty \notin onlyWhole
        /\ \A x : tells(x) \/ thinks(x) \/ calls(x) \/ guesses(x) => x # empty
        /\ \A x : x = messageOutputItem(sentText) /\ x # empty => tells(x)
    <2>1. \A x : tells(x) \/ thinks(x) \/ calls(x) \/ guesses(x) => x # empty
      BY ItemKinds
    <2>2. \A x : x = messageOutputItem(sentText) /\ x # empty => tells(x)
      OBVIOUS
    <2> HIDE DEF calls, tells, thinks, guesses, empty
    <2> QED
      BY <1>3, <2>1, <2>2
  <1>7. \A x : x # empty =>
            (x \in ToSet(whole.output) <=> thinks(x) \/ tells(x) \/ calls(x) \/ guesses(x))
    <2>1. \A x : /\ x \in ToSet(whole.output) =>
                        \/ thinks(x) \/ x = messageOutputItem(sentText)
                        \/ calls(x) \/ guesses(x)
                 /\ thinks(x) \/ tells(x) \/ calls(x) \/ guesses(x) => x \in ToSet(whole.output)
      BY <1>2, WholeElements
    <2> HIDE DEF calls, tells, thinks, guesses, empty
    <2> QED
      BY <1>6, <2>1
  <1>8. ToSet(whole.output) \ {empty} = (ToSet(output) \ {empty}) \cup onlyWhole
    <2> HIDE DEF calls, tells, thinks, guesses, empty
    <2> QED
      BY <1>3, <1>5, <1>6, <1>7
  <1> QED
    BY <1>1, <1>8

\* Everything the streaming converter is known to do, it does while the same
\* chunks are collected: the specification of both paths implements its own.
THEOREM PathsImplementStream == PathsSpec => Spec
  <1>1. PathsInit => Init
    BY DEF PathsInit
  <1>2. [PathsNext]_pathsVars => [Next]_vars
    BY PathsStep
  <1> QED
    BY <1>1, <1>2, PTL DEF PathsSpec, Spec

\* With and without "stream" a client gets the same answer, whatever the
\* upstream streams, when names come whole: the same status, text and
\* identified calls, and beyond them the collected answer shows just its
\* reasoning and the calls without an id (server.go
\* aggregateChatCompletionStream against chat_stream.go consume).
THEOREM BothPathsAgree ==
    ASSUME ~SplitNames
    PROVE  PathsSpec => []PathsAgree
  <1>1. PathsInit => CollectedInv /\ StatusInv
    <2>1. PathsInit => StatusInv
      BY DEF PathsInit, Init, StreamInit, StatusInv, Answered
    <2> QED
      BY <2>1, InitCollected
  <1>2. IInv /\ CollectedInv /\ StatusInv /\ [PathsNext]_pathsVars => (CollectedInv /\ StatusInv)'
    BY PathsStep, CollectedStep, StatusStep DEF IInv
  <1>3. IInv /\ NothingLost /\ CollectedInv /\ StatusInv => PathsAgree
    BY AgreeNow
  <1>4. Spec => []NothingLost
    BY NothingIsLost
  <1> QED
    BY <1>1, <1>2, <1>3, <1>4, PathsImplementStream, Bookkeeping, PTL DEF PathsSpec

-----------------------------------------------------------------------------
(* What a Chat completion is converted to.                                   *)

\* A sequence is one of its elements.
LEMMA RetypedSeq ==
    ASSUME NEW S, NEW s \in Seq(S), NEW T, \A x : x \in ToSet(s) => x \in T
    PROVE  s \in Seq(T)
  <1>1. Len(s) \in Nat /\ DOMAIN s = 1..Len(s) /\ s = [k \in 1..Len(s) |-> s[k]]
    BY LenProperties
  <1>2. \A k \in 1..Len(s) : s[k] \in T
    BY <1>1 DEF ToSet
  <1> QED
    BY <1>1, <1>2

\* The completions of an upstream, named whole.
ChatCompletions ==
    [content : Seq(STRING), reasoning : Seq(STRING), finishReason : FinishReasons \cup {""},
     toolCalls : Seq([id : CallIDs \cup {NoCall}, name : Names \cup {<<>>},
                      arguments : Seq(STRING)])]

\* Every Chat completion is converted to what Complete can play out: a
\* completed or incomplete response of finished items, its calls with a name
\* and an id and nothing else with either, its reasoning not empty
\* (ChatCompletionToResponses in responses_response.go).
THEOREM ChatAnswersAreWhole ==
    ASSUME GeneratedCall \in CallIDs, NEW completion \in ChatCompletions
    PROVE  /\ ChatCompletionToResponses(completion).status \in {"completed", "incomplete"}
           /\ ChatCompletionToResponses(completion).output \in Seq(ItemState)
           /\ \A x \in ToSet(ChatCompletionToResponses(completion).output) :
                  /\ WellFormed(x)
                  /\ x.kind = "reasoning" => x.body = completion.reasoning /\ x.body # <<>>
  <1> DEFINE out == ChatCompletionToResponses(completion).output
             calls == completion.toolCalls
             Call == [id : CallIDs \cup {NoCall}, name : Names \cup {<<>>},
                      arguments : Seq(STRING)]
  <1>1. ChatCompletionToResponses(completion).status \in {"completed", "incomplete"}
    BY DEF ChatCompletionToResponses, statusOf
  <1>2. /\ completion.content \in Seq(STRING) /\ completion.reasoning \in Seq(STRING)
        /\ calls \in Seq(Call)
    BY DEF ChatCompletions
  <1>3. PICK n \in Nat : DOMAIN calls = 1..n /\ \A k \in 1..n : calls[k] \in Call
    <2> HIDE DEF calls, Call
    <2> QED
      BY <1>2, LenProperties, ElementOfSeq
  <1>4. /\ \E S : out \in Seq(S)
        /\ \A x : x \in ToSet(out) <=>
               \/ completion.reasoning # <<>> /\ x = reasoningOutputItem(completion.reasoning)
               \/ /\ completion.content # <<>> \/ completion.toolCalls = <<>>
                  /\ x = messageOutputItem(completion.content)
               \/ \E p \in 1..n : /\ completion.toolCalls[p].name # <<>>
                                  /\ x = chatToolCallToResponses(completion.toolCalls[p])
    BY <1>3, ConversionElements
  <1> HIDE DEF out
  <1>5. ASSUME NEW x \in ToSet(out)
        PROVE  /\ x \in ItemState /\ WellFormed(x)
               /\ x.kind = "reasoning" => x.body = completion.reasoning /\ x.body # <<>>
    <2>1. <<>> \in Seq(STRING)
      BY EmptySeq
    <2>2. CASE completion.reasoning # <<>> /\ x = reasoningOutputItem(completion.reasoning)
      BY <1>2, <2>1, <2>2 DEF reasoningOutputItem, outputItem, ItemState, WellFormed
    <2>3. CASE x = messageOutputItem(completion.content)
      BY <1>2, <2>1, <2>3 DEF messageOutputItem, outputItem, ItemState, WellFormed
    <2>4. ASSUME NEW p \in 1..n, calls[p].name # <<>>, x = chatToolCallToResponses(calls[p])
          PROVE  x \in ItemState /\ WellFormed(x) /\ x.kind # "reasoning"
      <3>1. /\ calls[p].name \in Names /\ calls[p].arguments \in Seq(STRING)
            /\ callIDOf(calls[p]) \in CallIDs
        BY <1>3, <2>4 DEF callIDOf
      <3>2. calls[p].name \in Seq(STRING)
        BY <3>1, ChatStreamAssumption
      <3>3. toolKind(calls[p].name) \in {"function_call", "custom_tool_call"}
        BY DEF toolKind
      <3>4. callBody(toolKind(calls[p].name), calls[p].arguments) \in Seq(STRING)
        BY <3>1, BodyType
      <3>5. /\ x.kind = toolKind(calls[p].name) /\ x.name = calls[p].name /\ x.stage = "done"
            /\ x.callID = callIDOf(calls[p])
            /\ x = [kind |-> x.kind, name |-> x.name, callID |-> x.callID,
                    body |-> callBody(toolKind(calls[p].name), calls[p].arguments),
                    stage |-> x.stage]
        BY <2>4 DEF chatToolCallToResponses, outputItem
      <3> QED
        BY <3>1, <3>2, <3>3, <3>4, <3>5 DEF ItemState, WellFormed
    <2> QED
      BY <1>4, <2>2, <2>3, <2>4
  <1>6. out \in Seq(ItemState)
    BY <1>4, <1>5, RetypedSeq
  <1> QED
    BY <1>1, <1>5, <1>6 DEF out
=============================================================================
