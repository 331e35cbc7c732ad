------------------------------ MODULE ChatPaths ------------------------------
(* The two ways a Chat event stream becomes a Responses answer: chunk by    *)
(* chunk (ChatStream), or, for a request without "stream", by collecting it *)
(* to one completion first (aggregateChatCompletionStream in                *)
(* internal/httpapi/server.go) and converting that (AnswerConversion).  Both *)
(* read the same upstream stream here.                                      *)
(*                                                                          *)
(* Only the first choice of a chunk is modelled: a request made from a       *)
(* Responses request asks for one, and chunks that have a delta: of others   *)
(* the streaming converter skips the finish reason too.                      *)
EXTENDS ChatStream, AnswerConversion

VARIABLE choice   \* what aggregateChatCompletionStream has collected

pathsVars == <<vars, choice>>

-----------------------------------------------------------------------------

\* completionChoice and its completionToolCalls, by index.
NewChoice == [content |-> <<>>, reasoning |-> <<>>, finishReason |-> "",
              indices |-> {},
              toolCalls |-> [i \in CallIDs |-> [id |-> NoCall, name |-> <<>>, arguments |-> <<>>]]]

\* Fault: arguments are kept once the call has its id, as if they never came first.
withToolCallIdentified(collected, i, id, name, arguments) ==
    [collected EXCEPT
        !.indices = @ \cup {i},
        !.toolCalls[i] = [id |-> IF id = NoCall THEN @.id ELSE id, name |-> @.name \o name,
                          arguments |-> IF @.id = NoCall /\ id = NoCall THEN @.arguments
                                        ELSE @.arguments \o arguments]]

withToolCall(collected, i, id, name, arguments) ==
    [collected EXCEPT
        !.indices = @ \cup {i},
        !.toolCalls[i] = [id |-> IF id = NoCall THEN @.id ELSE id, name |-> @.name \o name,
                          arguments |-> @.arguments \o arguments]]

\* The completion; the calls are in the order of their indices, which the
\* conversion keeps and nothing here tells apart.
aggregated == LET order == SetToSeq(choice.indices) IN
    [content |-> choice.content, reasoning |-> choice.reasoning,
     finishReason |-> choice.finishReason,
     toolCalls |-> [k \in DOMAIN order |-> choice.toolCalls[order[k]]]]

whole == ChatCompletionToResponses(aggregated)

-----------------------------------------------------------------------------

PathsInit == Init /\ choice = NewChoice

ReadText == \E fragment \in Fragments :
    TextDelta(fragment) /\ choice' = [choice EXCEPT !.content = Append(@, fragment)]

ReadToolCall ==
    \E i \in CallIDs, name \in Names \cup {<<>>},
       arguments \in {<<fragment>> : fragment \in Fragments} \cup {<<>>} :
        \E id \in {i, NoCall} :
            /\ name # <<>> /\ ~SplitNames => sentNames[i] = <<>>
            /\ ToolDelta(i, id, name, arguments)
            /\ choice' = withToolCall(choice, i, id, name, arguments)

ReadReasoning == \E fragment \in Fragments :
    ReasoningDelta /\ choice' = [choice EXCEPT !.reasoning = Append(@, fragment)]

ReadFinishReason == \E reason \in FinishReasons :
    FinishReason(reason) /\ choice' = [choice EXCEPT !.finishReason = reason]

PathsRead == \/ ReadText \/ ReadToolCall \/ ReadReasoning \/ ReadFinishReason
             \/ (UpstreamFails \/ EndOfStream) /\ UNCHANGED choice

PathsWrite == Write /\ UNCHANGED choice

PathsNext == \/ PathsRead \/ PathsWrite
             \/ (LoseClient \/ Returned) /\ UNCHANGED choice

PathsSpec == PathsInit /\ [][PathsNext]_pathsVars

\* As FairSpec of ChatStream: the handler's goroutine keeps running, and a read
\* of the upstream body returns, at the latest when RequestTimeout ends it; a
\* write returns for a client that reads or has gone.
PathsFairSpec == PathsSpec /\ WF_pathsVars(PathsRead) /\ WF_pathsVars(PathsWrite)

-----------------------------------------------------------------------------

\* What only the collected answer shows: reasoning, and calls that never got
\* an id, under an id made up for them.
onlyWhole ==
    (IF choice.reasoning = <<>> THEN {} ELSE {reasoningOutputItem(choice.reasoning)})
    \cup {chatToolCallToResponses(choice.toolCalls[i]) :
             i \in {j \in CallIDs : choice.toolCalls[j].id = NoCall
                                      /\ choice.toolCalls[j].name # <<>>}}

\* With and without "stream" a client gets the same answer: the same status,
\* the same text and the same identified calls, and apart from the message
\* that stands for an empty answer the collected answer adds just onlyWhole
\* (server.go aggregateChatCompletionStream against chat_stream.go consume).
PathsAgree ==
    Answered /\ chunks > 0 =>
        /\ phase = whole.status
        /\ ToSet(whole.output) \ {messageOutputItem(<<>>)}
             = (ToSet(output) \ {messageOutputItem(<<>>)}) \cup onlyWhole
=============================================================================
