--------------------------- MODULE AnthropicStream ---------------------------
(* An Anthropic event stream and its collection to one message,             *)
(* AggregateAnthropicStream (internal/protocol/stream.go).  The upstream     *)
(* sends the blocks of one message piece by piece, under their indices and   *)
(* in any interleaving, and may stop anywhere, leave out the start of a      *)
(* block, and send blocks of kinds the gateway does not know; the collected   *)
(* message is converted by AnswerConversion.                                 *)
EXTENDS AnswerConversion, Subsequences

CONSTANTS Messages,     \* the messages upstreams send: [content, stopReason]
          EmptyObject   \* the fragment that stands for {}

\* The kinds of blocks that are collected; others, redacted_thinking for one,
\* are left out of the message.
Collectable == {"text", "thinking", "tool_use"}

\* A call has an input that is a JSON object, and a block of any other kind
\* a text, or data, and nothing else.
IsBlock(block) ==
    \/ block \in [type : STRING \ {"tool_use"}, text : Seq(STRING)]
    \/ /\ block \in [type : {"tool_use"}, id : {block.id}, name : {block.name}, input : Seq(STRING)]
       /\ Wrapped(block.input)

\* A message is a sequence of blocks and the reason why it ends there.
IsMessage(message) ==
    /\ message \in [content : {message.content}, stopReason : {message.stopReason}]
    /\ message.content \in Seq(Range(message.content))
    /\ \A block \in Range(message.content) : IsBlock(block)

ASSUME AnthropicStreamAssumption == \A message \in Messages : IsMessage(message)

VARIABLES
    source,       \* the message the upstream streams
    position,     \* where every block is: "unsent", "open" or "closed", or
                  \* "headless" when its first delta came and its start never does
    sent,         \* how many fragments of its body the upstream has sent
    stopSent,     \* its message_delta has been sent
    blocks,       \* blockState by index
    stopReason,
    pc            \* "reading", "collected" or "refused"

upstreamVars == <<source, position, sent, stopSent>>
vars == <<upstreamVars, blocks, stopReason, pc>>

-----------------------------------------------------------------------------

Indices == DOMAIN source.content

\* What the deltas of a block add up to.
bodyOf(block) == IF block.type = "tool_use" THEN block.input ELSE block.text

NoBlock == [kind |-> "", text |-> <<>>, partial |-> <<>>, input |-> <<EmptyObject>>,
            id |-> NoCall, name |-> <<>>]

\* What the start of a block says is kept of the kinds that are collected.
startedBlock(block, text) ==
    CASE block.type = "tool_use" ->
            [NoBlock EXCEPT !.kind = block.type, !.id = block.id, !.name = block.name]
      [] block.type \in {"text", "thinking"} ->
            [NoBlock EXCEPT !.kind = block.type, !.text = text]
      [] OTHER -> [NoBlock EXCEPT !.kind = block.type]

\* Fault: the parts are collected for the block that was sent last.
withDeltaLast(collected, k, fragment) ==
    LET begun == {k} \cup {j \in DOMAIN collected : position[j] # "unsent"}
        last == CHOOSE j \in begun : \A i \in begun : i <= j
    IN IF source.content[k].type = "tool_use"
       THEN [collected EXCEPT ![k].partial = Append(@, fragment)]
       ELSE [collected EXCEPT ![last].text = Append(@, fragment)]

\* The kind of a delta, not that of the block, decides where it goes.
withDelta(collected, k, fragment) ==
    IF source.content[k].type = "tool_use"
    THEN [collected EXCEPT ![k].partial = Append(@, fragment)]
    ELSE [collected EXCEPT ![k].text = Append(@, fragment)]

\* Fault: the input is taken over before it is known to be complete.
withInputUnchecked(state) ==
    IF state.kind = "tool_use" THEN [state EXCEPT !.input = state.partial] ELSE state

\* content_block_stop: the input is replaced by what parses.
withInput(state) ==
    IF state.kind = "tool_use" /\ Wrapped(state.partial)
    THEN [state EXCEPT !.input = state.partial] ELSE state

contentOf(state) ==
    IF state.kind = "tool_use"
    THEN [type |-> state.kind, id |-> state.id, name |-> state.name, input |-> state.input]
    ELSE [type |-> state.kind, text |-> state.text]

\* The message: the blocks of known kinds, in the order of their indices.
aggregated ==
    LET kept == subsequence(blocks, {k \in Indices : blocks[k].kind \in Collectable})
    IN [content |-> [k \in DOMAIN kept |-> contentOf(kept[k])], stopReason |-> stopReason]

-----------------------------------------------------------------------------

Init == /\ source \in Messages
        /\ position = [k \in Indices |-> "unsent"]
        /\ sent = [k \in Indices |-> 0]
        /\ stopSent = FALSE
        /\ blocks = [k \in Indices |-> NoBlock]
        /\ stopReason = ""
        /\ pc = "reading"

\* content_block_start, which may have the first n fragments of the body with
\* it.  A call starts with an empty input, as the protocol has it.
BlockStart(k, n) ==
    /\ pc = "reading" /\ position[k] = "unsent"
    /\ source.content[k].type = "tool_use" => n = 0
    /\ position' = [position EXCEPT ![k] = "open"]
    /\ sent' = [sent EXCEPT ![k] = n]
    /\ blocks' = [blocks EXCEPT
                    ![k] = startedBlock(source.content[k], SubSeq(bodyOf(source.content[k]), 1, n))]
    /\ UNCHANGED <<source, stopSent, stopReason, pc>>

\* The upstream sends the fragments of a block in order.  A delta without a
\* start makes a block of no kind.
BlockDelta(k) ==
    /\ pc = "reading" /\ position[k] # "closed" /\ sent[k] < Len(bodyOf(source.content[k]))
    /\ position' = [position EXCEPT ![k] = IF @ = "unsent" THEN "headless" ELSE @]
    /\ sent' = [sent EXCEPT ![k] = @ + 1]
    /\ blocks' = withDelta(blocks, k, bodyOf(source.content[k])[sent'[k]])
    /\ UNCHANGED <<source, stopSent, stopReason, pc>>

WhollySent(k) == sent[k] = Len(bodyOf(source.content[k]))

\* A block ends early where the model's answer hits its limit.  The end of a
\* block of no kind changes nothing.
BlockStop(k) == /\ pc = "reading" /\ position[k] = "open"
                /\ WhollySent(k) \/ source.stopReason = "max_tokens"
                /\ position' = [position EXCEPT ![k] = "closed"]
                /\ blocks' = [blocks EXCEPT ![k] = withInput(@)]
                /\ UNCHANGED <<source, sent, stopSent, stopReason, pc>>

\* message_delta, after the last block.
StopReason == /\ pc = "reading" /\ ~stopSent
              /\ \A k \in Indices : position[k] \in {"closed", "headless"}
              /\ stopSent' = TRUE
              /\ stopReason' = source.stopReason
              /\ UNCHANGED <<source, position, sent, blocks, pc>>

\* An error event, or one that is not JSON.
StreamError == /\ pc = "reading"
               /\ pc' = "refused"
               /\ UNCHANGED <<upstreamVars, blocks, stopReason>>

\* The body ends, which is taken for the end of the message wherever it is.
EndOfBody == /\ pc = "reading"
             /\ pc' = "collected"
             /\ UNCHANGED <<upstreamVars, blocks, stopReason>>

Ended == pc # "reading" /\ UNCHANGED vars

Next == \/ \E k \in Indices : \/ \E n \in 0..Len(bodyOf(source.content[k])) : BlockStart(k, n)
                              \/ BlockDelta(k) \/ BlockStop(k)
        \/ StopReason \/ StreamError \/ EndOfBody \/ Ended

Spec == Init /\ [][Next]_vars

-----------------------------------------------------------------------------

CallIDs == {source.content[k].id : k \in {j \in Indices : source.content[j].type = "tool_use"}}

BlockState == [kind : STRING, text : Seq(STRING),
               partial : Seq(STRING), input : Seq(STRING),
               id : CallIDs \cup {NoCall}, name : Seq(STRING)]

\* Every variable stays in its domain, and a block has the kind it was started
\* with, and none without a start.
TypeOK == /\ source \in Messages
          /\ position \in [Indices -> {"unsent", "headless", "open", "closed"}]
          /\ \A k \in Indices : sent[k] \in 0 .. Len(bodyOf(source.content[k]))
          /\ stopSent \in BOOLEAN
          /\ blocks \in [Indices -> BlockState]
          /\ \A k \in Indices : blocks[k].kind = IF position[k] \in {"unsent", "headless"} THEN ""
                                                 ELSE source.content[k].type
          /\ stopReason \in {"", source.stopReason}
          /\ pc \in {"reading", "collected", "refused"}

\* A stream that was sent to its end, with nothing cut short, is collected to
\* the message that was streamed, however its blocks were interleaved, but
\* for the blocks that are dropped without a trace: those of other kinds, and
\* those whose start never came (stream.go AggregateAnthropicStream, 318, 374).
Reassembled ==
    pc = "collected" /\ stopSent /\ (\A k \in Indices : WhollySent(k)) =>
        LET collectable == {k \in Indices : /\ source.content[k].type \in Collectable
                                            /\ position[k] # "headless"}
        IN aggregated = [source EXCEPT !.content = subsequence(source.content, collectable)]

\* What may be shown of a block: a text from its beginning, a call with its
\* whole input or an empty one.
ShownOf(block) ==
    IF block.type = "tool_use" THEN {block, [block EXCEPT !.input = <<EmptyObject>>]}
    ELSE {[block EXCEPT !.text = SubSeq(block.text, 1, n)] : n \in 0..Len(block.text)}

\* Of a stream that broke off, or hit the model's limit, a client is shown
\* nothing that was not sent: the message that is converted for it has some
\* of the blocks of the one that was streamed, in their order, none twice, a
\* text up to some place, and the arguments of a call whole or empty, never cut
\* in the middle (stream.go content_block_stop; responses_response.go).
NothingMadeUp ==
    pc = "collected" =>
        /\ aggregated.stopReason \in {"", source.stopReason}
        /\ \E places \in SUBSET Indices :
              LET blocksShown == subsequence(source.content, places) IN
              /\ DOMAIN aggregated.content = DOMAIN blocksShown
              /\ \A n \in DOMAIN blocksShown : aggregated.content[n] \in ShownOf(blocksShown[n])
=============================================================================
