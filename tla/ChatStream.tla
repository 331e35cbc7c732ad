----------------------------- MODULE ChatStream -----------------------------
(* StreamChatToResponses (internal/protocol/chat_stream.go) with the part   *)
(* of writeChatAsResponses (internal/httpapi/server.go) around it: a Chat   *)
(* Completions event stream is translated, chunk by chunk, to the events of *)
(* a Responses stream.                                                     *)
(*                                                                         *)
(* One action is the translation up to the next event() call, or that call. *)
(* A tool is known by the index of its tool_calls element, which here is    *)
(* also the id of its call.                                                *)
(*                                                                         *)
(* pc names the event to be written next.  A chunk carries one delta: a     *)
(* chunk with several is their sequence.                                   *)
EXTENDS ResponsesStream

CONSTANTS Fragments,    \* what a content or arguments delta can hold
          SplitNames,   \* TRUE: the upstream may send a name in pieces
          FinishReasons,\* finish_reason values it may send
          MaxChunks     \* bound on the deltas of one stream

ASSUME ChatStreamAssumption ==
    /\ MaxChunks \in Nat
    /\ SplitNames \in BOOLEAN
    /\ Fragments \subseteq STRING
    /\ Names \subseteq Seq(STRING) /\ <<>> \notin Names
    /\ NoCall \notin CallIDs /\ "text" \notin CallIDs

VARIABLES
    pc,               \* the next event, "reading" or "returned"
    subject,          \* the item that event is about: "text" or a tool index
    delta,            \* the content of the next delta event
    cursor,           \* position of finish() in toolOrder
    textStarted, textOutputIndex, text,
    tools, toolOrder, outputOrder, nextOutputIndex,
    finishReason,
    chunks,           \* history: deltas read so far
    sentText,         \* history: the text the upstream has sent
    sentArguments,    \* history: the arguments it has sent, by tool index
    sentNames,        \* history: the name it has sent, by tool index
    sentIDs,          \* history: the tools it has sent an id for
    broken            \* history: the upstream failed mid-stream

converterVars == <<textStarted, textOutputIndex, text, tools, toolOrder,
                   outputOrder, nextOutputIndex, finishReason>>
sentVars == <<chunks, sentText, sentArguments, sentNames, sentIDs, broken>>
vars == <<streamVars, pc, subject, delta, cursor, converterVars, sentVars>>

-----------------------------------------------------------------------------

NewTool == [outputIndex |-> 0, callID |-> NoCall, name |-> <<>>, kind |-> "",
            arguments |-> <<>>, pending |-> <<>>, announced |-> FALSE, done |-> FALSE]

toolItem(tool) == [kind |-> tool.kind, name |-> tool.name, callID |-> tool.callID,
                   body |-> callBody(tool.kind, tool.arguments), stage |-> "added"]

subjectIndex == IF subject = "text" THEN textOutputIndex ELSE tools[subject].outputIndex

\* A tool can be announced once it has both an id and a name.
announceable(tool) == ~tool.announced /\ tool.callID # NoCall /\ tool.name # <<>>

finalOutputOf(ref) == Finished(IF ref = "text" THEN MessageItem(text) ELSE toolItem(tools[ref]))

\* The output array finish() builds: every item in output order, or one
\* empty message when there is none.
finalOutput ==
    IF outputOrder = <<>> THEN <<Finished(MessageItem(<<>>))>>
    ELSE [k \in DOMAIN outputOrder |-> finalOutputOf(outputOrder[k])]

\* buildResponsesResponse: a finish reason that means truncation.
finalStatus ==
    IF finishReason \in {"length", "max_tokens", "max_output_tokens", "content_filter"}
    THEN "incomplete" ELSE "completed"

-----------------------------------------------------------------------------

Init == /\ StreamInit
        /\ pc = "created" /\ subject = "text" /\ delta = <<>> /\ cursor = 1
        /\ textStarted = FALSE /\ textOutputIndex = 0 /\ text = <<>>
        /\ tools = [i \in CallIDs |-> NewTool]
        /\ toolOrder = <<>> /\ outputOrder = <<>> /\ nextOutputIndex = 0
        /\ finishReason = ""
        /\ chunks = 0 /\ sentText = <<>> /\ broken = FALSE
        /\ sentArguments = [i \in CallIDs |-> <<>>]
        /\ sentNames = [i \in CallIDs |-> <<>>]
        /\ sentIDs = {}

\* Begin writes two events before the upstream body is looked at.
WriteCreated == /\ pc = "created"
                /\ PhaseEvent("created")
                /\ pc' = "in_progress"
                /\ UNCHANGED <<done, subject, delta, cursor, converterVars, sentVars>>

WriteInProgress == /\ pc = "in_progress"
                   /\ PhaseEvent("in_progress")
                   /\ pc' = "reading"
                   /\ UNCHANGED <<done, subject, delta, cursor, converterVars, sentVars>>

\* textDelta: the first text opens the message item.
TextDelta(fragment) ==
    /\ pc = "reading" /\ chunks < MaxChunks
    /\ chunks' = chunks + 1
    /\ sentText' = Append(sentText, fragment)
    /\ subject' = "text" /\ delta' = <<fragment>>
    /\ IF textStarted
       THEN /\ pc' = "delta"
            /\ UNCHANGED <<textStarted, textOutputIndex, nextOutputIndex, outputOrder>>
       ELSE /\ pc' = "item.added"
            /\ textStarted' = TRUE
            /\ textOutputIndex' = nextOutputIndex
            /\ nextOutputIndex' = nextOutputIndex + 1
            /\ outputOrder' = Append(outputOrder, "text")
    /\ UNCHANGED <<streamVars, cursor, text, tools, toolOrder, finishReason,
                   sentArguments, sentNames, sentIDs, broken>>

\* What the fields of one tool_calls element do to the tool's state.
withHeader(tool, id, name) ==
    [tool EXCEPT !.callID = IF id = NoCall THEN @ ELSE id, !.name = @ \o name]

\* Fault: arguments that come too early are dropped.
withPendingDropped(tool, arguments) == tool

withPending(tool, arguments) ==
    IF tool.announced THEN tool ELSE [tool EXCEPT !.pending = @ \o arguments]

\* Fault: tools are numbered without regard to the message item.
announceToolByCount(tool) == [tool EXCEPT !.announced = TRUE, !.outputIndex = Len(toolOrder),
                                          !.kind = toolKind(tool.name)]

announceTool(tool) == [tool EXCEPT !.announced = TRUE, !.outputIndex = nextOutputIndex,
                                   !.kind = toolKind(tool.name)]

\* toolDelta: arguments that come before the id and the name wait in pending.
ToolDelta(i, id, name, arguments) ==
    LET tool == withPending(withHeader(tools[i], id, name), arguments) IN
    /\ pc = "reading" /\ chunks < MaxChunks
    /\ chunks' = chunks + 1
    /\ sentArguments' = [sentArguments EXCEPT ![i] = @ \o arguments]
    /\ sentNames' = [sentNames EXCEPT ![i] = @ \o name]
    /\ sentIDs' = IF id = NoCall THEN sentIDs ELSE sentIDs \cup {i}
    /\ toolOrder' = IF i \in {toolOrder[k] : k \in DOMAIN toolOrder} THEN toolOrder
                                                                   ELSE Append(toolOrder, i)
    /\ subject' = i
    /\ IF announceable(tool)
       THEN /\ tools' = [tools EXCEPT ![i] = announceTool(tool)]
            /\ nextOutputIndex' = nextOutputIndex + 1
            /\ outputOrder' = Append(outputOrder, i)
            /\ pc' = "item.added" /\ delta' = <<>>
       ELSE /\ tools' = [tools EXCEPT ![i] = tool]
            /\ pc' = IF tool.announced /\ arguments # <<>> THEN "delta" ELSE "reading"
            /\ delta' = IF tool.announced THEN arguments ELSE <<>>
            /\ UNCHANGED <<nextOutputIndex, outputOrder>>
    /\ UNCHANGED <<streamVars, cursor, textStarted, textOutputIndex, text, finishReason,
                   sentText, broken>>

\* The upstream's side of ToolDelta: the id of a call does not change, and a
\* name comes whole and once unless SplitNames.
ReadToolDelta ==
    \E i \in CallIDs, name \in Names \cup {<<>>},
       arguments \in {<<fragment>> : fragment \in Fragments} \cup {<<>>} :
        \E id \in {i, NoCall} :
            /\ name # <<>> /\ ~SplitNames => sentNames[i] = <<>>
            /\ ToolDelta(i, id, name, arguments)

FinishReason(reason) ==
    /\ pc = "reading" /\ chunks < MaxChunks
    /\ chunks' = chunks + 1
    /\ finishReason' = reason
    /\ UNCHANGED <<streamVars, pc, subject, delta, cursor, textStarted, textOutputIndex, text,
                   tools, toolOrder, outputOrder, nextOutputIndex,
                   sentText, sentArguments, sentNames, sentIDs, broken>>

\* consume collects reasoning in a buffer that nothing is made of.
ReasoningDelta ==
    /\ pc = "reading" /\ chunks < MaxChunks
    /\ chunks' = chunks + 1
    /\ UNCHANGED <<streamVars, pc, subject, delta, cursor, converterVars,
                   sentText, sentArguments, sentNames, sentIDs, broken>>

\* Fault: a broken stream is taken for a finished one.
UpstreamFailsUnnoticed == /\ pc = "reading"
                          /\ broken' = TRUE
                          /\ pc' = IF textStarted THEN "text.done" ELSE "tools"
                          /\ UNCHANGED <<streamVars, subject, delta, cursor, converterVars,
                                         chunks, sentText, sentArguments, sentNames, sentIDs>>

\* Fault: the handler returns without calling Fail.
UpstreamFailsUnreported == /\ pc = "reading"
                           /\ broken' = TRUE
                           /\ pc' = "returned"
                           /\ UNCHANGED <<streamVars, subject, delta, cursor, converterVars,
                                          chunks, sentText, sentArguments, sentNames, sentIDs>>

\* An error object, a chunk that is not JSON, or a failed read (which is how
\* the request timeout and a departed client show here).
UpstreamFails == /\ pc = "reading"
                 /\ broken' = TRUE
                 /\ pc' = "fail"
                 /\ UNCHANGED <<streamVars, subject, delta, cursor, converterVars,
                                chunks, sentText, sentArguments, sentNames, sentIDs>>

\* A clean end of the body, with or without [DONE]: finish() starts.
EndOfStream == /\ pc = "reading"
               /\ pc' = IF textStarted THEN "text.done" ELSE "tools"
               /\ subject' = "text"
               /\ UNCHANGED <<streamVars, delta, cursor, converterVars, sentVars>>

-----------------------------------------------------------------------------

WriteItemAdded ==
    /\ pc = "item.added"
    /\ IF subject = "text"
       THEN /\ ItemAdded(textOutputIndex, MessageItem(<<>>))
            /\ pc' = "part.added"
            /\ UNCHANGED <<delta, tools>>
       ELSE /\ ItemAdded(tools[subject].outputIndex, toolItem(tools[subject]))
            /\ pc' = IF tools[subject].pending = <<>> THEN "reading" ELSE "delta"
            /\ delta' = tools[subject].pending
            /\ tools' = [tools EXCEPT ![subject].pending = <<>>]
    /\ UNCHANGED <<done, subject, cursor, textStarted, textOutputIndex, text, toolOrder,
                   outputOrder, nextOutputIndex, finishReason, sentVars>>

WritePartAdded == /\ pc = "part.added"
                  /\ PartAdded(textOutputIndex)
                  /\ pc' = "delta"
                  /\ UNCHANGED <<done, subject, delta, cursor, converterVars, sentVars>>

\* emitToolDelta: the delta of a custom tool is kept, and nothing written.
keepsDelta == pc = "delta" /\ subject # "text" /\ tools[subject].kind = "custom_tool_call"

\* The delta joins the accumulated content and is passed on, except that a
\* custom tool's input stays back until it can be unwrapped.
WriteDelta ==
    /\ pc = "delta"
    /\ IF subject = "text"
       THEN /\ text' = text \o delta
            /\ Delta(textOutputIndex, delta)
            /\ UNCHANGED tools
       ELSE /\ tools' = [tools EXCEPT ![subject].arguments = @ \o delta]
            /\ IF keepsDelta
               THEN UNCHANGED clientVars
               ELSE Delta(tools[subject].outputIndex, delta)
            /\ UNCHANGED text
    /\ pc' = "reading"
    /\ UNCHANGED <<done, subject, delta, cursor, textStarted, textOutputIndex, toolOrder,
                   outputOrder, nextOutputIndex, finishReason, sentVars>>

\* finish(): three events close the message.
WriteTextDone == /\ pc = "text.done"
                 /\ BodyDone(textOutputIndex, text)
                 /\ pc' = "text.part.done"
                 /\ UNCHANGED <<done, subject, delta, cursor, converterVars, sentVars>>

WritePartDone == /\ pc = "text.part.done"
                 /\ PartDone(textOutputIndex, text)
                 /\ pc' = "text.item.done"
                 /\ UNCHANGED <<done, subject, delta, cursor, converterVars, sentVars>>

WriteTextItemDone == /\ pc = "text.item.done"
                     /\ ItemDone(textOutputIndex, MessageItem(text))
                     /\ pc' = "tools"
                     /\ UNCHANGED <<done, subject, delta, cursor, converterVars, sentVars>>

\* Fault: also the calls that were never announced are closed.
closableUnannounced(tool) == ~tool.done

\* Then every announced tool is closed, in order of first mention; one that
\* never got both an id and a name is passed over.
closable(tool) == tool.announced /\ ~tool.done

NextTool ==
    /\ pc = "tools" /\ cursor <= Len(toolOrder)
    /\ LET i == toolOrder[cursor] IN
       IF closable(tools[i])
       THEN /\ tools' = [tools EXCEPT ![i].done = TRUE]
            /\ subject' = i
            /\ pc' = IF tools[i].kind = "custom_tool_call" THEN "input.delta" ELSE "tool.done"
            /\ UNCHANGED cursor
       ELSE /\ cursor' = cursor + 1
            /\ UNCHANGED <<tools, subject, pc>>
    /\ UNCHANGED <<streamVars, delta, textStarted, textOutputIndex, text, toolOrder,
                   outputOrder, nextOutputIndex, finishReason, sentVars>>

WriteInputDelta == /\ pc = "input.delta"
                   /\ Delta(subjectIndex, callBody(tools[subject].kind, tools[subject].arguments))
                   /\ pc' = "tool.done"
                   /\ UNCHANGED <<done, subject, delta, cursor, converterVars, sentVars>>

WriteToolDone == /\ pc = "tool.done"
                 /\ BodyDone(subjectIndex, callBody(tools[subject].kind, tools[subject].arguments))
                 /\ pc' = "tool.item.done"
                 /\ UNCHANGED <<done, subject, delta, cursor, converterVars, sentVars>>

WriteToolItemDone == /\ pc = "tool.item.done"
                     /\ ItemDone(subjectIndex, toolItem(tools[subject]))
                     /\ cursor' = cursor + 1
                     /\ pc' = "tools"
                     /\ UNCHANGED <<done, subject, delta, converterVars, sentVars>>

\* CompleteFinal
WriteFinal == /\ pc = "tools" /\ cursor > Len(toolOrder)
              /\ TerminalEvent(finalStatus, finalOutput)
              /\ pc' = "returned"
              /\ UNCHANGED <<subject, delta, cursor, converterVars, sentVars>>

\* The handler reports a failed conversion with Fail.
WriteFailed == /\ pc = "fail"
               /\ TerminalEvent("failed", <<>>)
               /\ pc' = "returned"
               /\ UNCHANGED <<subject, delta, cursor, converterVars, sentVars>>

writesNext == /\ pc \notin {"reading", "returned"} /\ ~keepsDelta
              /\ ~(pc = "tools" /\ cursor <= Len(toolOrder))

\* A write to a client that is gone reports an error: Begin's ends the
\* handler, Fail's is ignored, any other makes the handler call Fail.
WriteError ==
    /\ ~live /\ writesNext
    /\ pc' = IF pc \in {"created", "in_progress", "fail"} THEN "returned" ELSE "fail"
    /\ done' = (done \/ pc \in {"tools", "fail"})
    /\ UNCHANGED <<clientVars, subject, delta, cursor, converterVars, sentVars>>

LoseClient == /\ pc # "returned"
              /\ ClientGone
              /\ UNCHANGED <<pc, subject, delta, cursor, converterVars, sentVars>>

Returned == pc = "returned" /\ UNCHANGED vars

-----------------------------------------------------------------------------

Read == \/ \E fragment \in Fragments : TextDelta(fragment)
        \/ ReadToolDelta
        \/ \E reason \in FinishReasons : FinishReason(reason)
        \/ ReasoningDelta
        \/ UpstreamFails
        \/ EndOfStream

Write == \/ WriteCreated \/ WriteInProgress
         \/ WriteItemAdded \/ WritePartAdded \/ WriteDelta
         \/ WriteTextDone \/ WritePartDone \/ WriteTextItemDone
         \/ NextTool \/ WriteInputDelta \/ WriteToolDone \/ WriteToolItemDone
         \/ WriteFinal \/ WriteFailed \/ WriteError

Next == Read \/ Write \/ LoseClient \/ Returned

Spec == Init /\ [][Next]_vars

\* The handler's goroutine keeps running, and a read of the upstream body
\* returns: the context of every request carries RequestTimeout.  A write returns
\* too, for a client that reads or has gone; Gateway has one that stalls.
FairSpec == Spec /\ WF_vars(Read) /\ WF_vars(Write)

-----------------------------------------------------------------------------

ToolState == [outputIndex : Nat, callID : CallIDs \cup {NoCall}, name : Seq(STRING),
              kind : {"", "function_call", "custom_tool_call"}, arguments : Seq(STRING),
              pending : Seq(STRING), announced : BOOLEAN, done : BOOLEAN]

ControlTypeOK ==
    /\ pc \in {"created", "in_progress", "reading", "item.added", "part.added", "delta",
               "text.done", "text.part.done", "text.item.done", "tools", "input.delta",
               "tool.done", "tool.item.done", "fail", "returned"}
    /\ subject \in CallIDs \cup {"text"}
    /\ delta \in Seq(STRING)
    /\ cursor \in Nat \ {0}

ConverterTypeOK ==
    /\ textStarted \in BOOLEAN /\ textOutputIndex \in Nat /\ text \in Seq(STRING)
    /\ tools \in [CallIDs -> ToolState]
    /\ toolOrder \in Seq(CallIDs)
    /\ outputOrder \in Seq(CallIDs \cup {"text"})
    /\ nextOutputIndex \in Nat
    /\ finishReason \in FinishReasons \cup {""}

SentTypeOK ==
    /\ chunks \in 0..MaxChunks
    /\ sentText \in Seq(STRING)
    /\ sentArguments \in [CallIDs -> Seq(STRING)]
    /\ sentNames \in [CallIDs -> Seq(STRING)]
    /\ sentIDs \in SUBSET CallIDs
    /\ broken \in BOOLEAN

\* Every variable stays in its domain; in particular the handler is always at
\* a known place and a tool has a kind from the two the converter knows.
TypeOK == StreamTypeOK /\ ControlTypeOK /\ ConverterTypeOK /\ SentTypeOK

Protocol == INSTANCE ResponsesProtocol WITH Reasonings <- {}
\* The stream a client receives is one the Responses protocol allows: items
\* are added in index order, deltas only extend them, the closing events
\* agree with the deltas, and nothing follows the one terminal event.
FollowsProtocol == Protocol!Spec

\* What the upstream sent, as the items a client should end up with.
sentItem(i) == LET kind == toolKind(sentNames[i]) IN
    Finished([kind |-> kind, name |-> sentNames[i], callID |-> i, stage |-> "added",
              body |-> callBody(kind, sentArguments[i])])

sentItems == {sentItem(i) : i \in {j \in sentIDs : sentNames[j] # <<>>}}
             \cup (IF sentText = <<>> THEN {} ELSE {Finished(MessageItem(sentText))})

Answered == phase \in {"completed", "incomplete"}

\* A response that completes shows exactly what the upstream sent: all the
\* text, and each identified tool call once with all its arguments, also
\* those that came before its id or name (chat_stream.go pending).
NothingLost ==
    Answered =>
        /\ {output[k] : k \in DOMAIN output}
             = IF sentItems = {} THEN {Finished(MessageItem(<<>>))} ELSE sentItems
        /\ \A j, k \in DOMAIN output : output[j] = output[k] => j = k

\* A stream the upstream broke off is never presented as a finished answer
\* (the error return of StreamChatToResponses leads to Fail, not finish).
NoAnswerFromBrokenStream == broken => ~Answered

\* Between two chunks the client's copy of every open item is the
\* converter's: same order, same header, same content so far.
openItem(ref) ==
    IF ref = "text" THEN [MessageItem(text) EXCEPT !.stage = "part"]
    ELSE [toolItem(tools[ref]) EXCEPT
              !.body = IF tools[ref].kind = "custom_tool_call" THEN <<>>
                                                               ELSE tools[ref].arguments]

ClientInStep ==
    live /\ pc = "reading" =>
        /\ nextOutputIndex = Len(outputOrder)
        /\ items = [k \in DOMAIN outputOrder |-> openItem(outputOrder[k])]

\* The handler ends, and a client that stays connected, and reads, has then received
\* a terminal event: no failure on any path leaves it waiting.
EndsWithTerminalEvent == <>(pc = "returned" /\ (live => phase \in Terminal))

\* stream.go:79 says of CompleteFinal that it is "used by incremental stream
\* converters that already emitted every output-item event": the output of
\* the terminal event has an item for no index that was not streamed.
EveryOutputItemStreamed == Answered => Len(output) = Len(items)

\* The tool a finished item names is of the kind the request declared it
\* with, however the upstream cut the name (toolDelta appends the pieces;
\* announceTool looks the kind up once).
KindAsDeclared ==
    Answered => \A k \in DOMAIN output :
        output[k].name # <<>> => output[k].kind = toolKind(output[k].name)
=============================================================================
