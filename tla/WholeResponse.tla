--------------------------- MODULE WholeResponse ---------------------------
(* The other way a Responses stream is produced: the upstream answer is     *)
(* read to its end, converted to one response object, and                  *)
(* ResponsesStream.Complete (internal/protocol/stream.go) plays that object *)
(* out as events.  writeAnthropicAsResponses always works like this,        *)
(* writeChatAsResponses when the upstream did not answer with an event      *)
(* stream (internal/httpapi/server.go).                                     *)
EXTENDS ResponsesStream

CONSTANTS Answers,    \* the responses a conversion can return: [status, output]
          Reasonings  \* the summaries their reasoning items carry

\* What the conversions put in an output.
Whole(full) == WellFormed(full) /\ (full.kind = "reasoning" => full.body \in Reasonings)

ASSUME WholeResponseAssumption ==
    /\ NoCall \notin CallIDs
    /\ \A answer \in Answers :
           /\ answer.status \in {"completed", "incomplete"}
           /\ answer.output \in Seq(ItemState)
           /\ \A k \in 1..Len(answer.output) : Whole(answer.output[k])

VARIABLES pc,        \* the next event, "reading", "items" or "returned"
          response,  \* the object given to Complete
          index,     \* position in response.output, from 0
          broken     \* history: the answer could not be read or converted

vars == <<streamVars, pc, response, index, broken>>

-----------------------------------------------------------------------------

item == response.output[index + 1]

\* Fault: the item is shown with its content, which the deltas repeat.
startedItemWhole(full) == [full EXCEPT !.stage = "added"]

\* The item as startedItem shows it: no content, except a reasoning item's.
startedItem(full) == [full EXCEPT !.stage = "added",
                                  !.body = IF full.kind = "reasoning" THEN @ ELSE <<>>]

\* The first of the item's own events (itemEvents).
firstEvent(kind) == CASE kind = "message"   -> "part.added"
                      [] kind = "reasoning" -> "item.done"
                      [] OTHER              -> "delta"

Init == /\ StreamInit
        /\ pc = "created"
        /\ response = [status |-> "completed", output |-> <<>>]
        /\ index = 0
        /\ broken = FALSE

WriteCreated == /\ pc = "created"
                /\ PhaseEvent("created")
                /\ pc' = "in_progress"
                /\ UNCHANGED <<done, response, index, broken>>

WriteInProgress == /\ pc = "in_progress"
                   /\ PhaseEvent("in_progress")
                   /\ pc' = "reading"
                   /\ UNCHANGED <<done, response, index, broken>>

\* io.ReadAll and the conversion, which may both fail.
ConvertAnswer == /\ pc = "reading"
                 /\ response' \in Answers
                 /\ pc' = "items"
                 /\ UNCHANGED <<streamVars, index, broken>>

UpstreamFails == /\ pc = "reading"
                 /\ broken' = TRUE
                 /\ pc' = "fail"
                 /\ UNCHANGED <<streamVars, response, index>>

WriteItemAdded == /\ pc = "items" /\ index < Len(response.output)
                  /\ ItemAdded(index, startedItem(item))
                  /\ pc' = firstEvent(item.kind)
                  /\ UNCHANGED <<done, response, index, broken>>

WritePartAdded == /\ pc = "part.added"
                  /\ PartAdded(index)
                  /\ pc' = "delta"
                  /\ UNCHANGED <<done, response, index, broken>>

WriteDelta == /\ pc = "delta"
              /\ Delta(index, item.body)
              /\ pc' = "body.done"
              /\ UNCHANGED <<done, response, index, broken>>

WriteBodyDone == /\ pc = "body.done"
                 /\ BodyDone(index, item.body)
                 /\ pc' = IF item.kind = "message" THEN "part.done" ELSE "item.done"
                 /\ UNCHANGED <<done, response, index, broken>>

WritePartDone == /\ pc = "part.done"
                 /\ PartDone(index, item.body)
                 /\ pc' = "item.done"
                 /\ UNCHANGED <<done, response, index, broken>>

WriteItemDone == /\ pc = "item.done"
                 /\ ItemDone(index, item)
                 /\ index' = index + 1
                 /\ pc' = "items"
                 /\ UNCHANGED <<done, response, broken>>

\* Fault: a truncated answer is announced as a complete one.
WriteCompletedAlways == /\ pc = "items" /\ index >= Len(response.output)
                        /\ TerminalEvent("completed", response.output)
                        /\ pc' = "returned"
                        /\ UNCHANGED <<response, index, broken>>

WriteCompleted == /\ pc = "items" /\ index >= Len(response.output)
                  /\ TerminalEvent(response.status, response.output)
                  /\ pc' = "returned"
                  /\ UNCHANGED <<response, index, broken>>

WriteFailed == /\ pc = "fail"
               /\ TerminalEvent("failed", <<>>)
               /\ pc' = "returned"
               /\ UNCHANGED <<response, index, broken>>

\* Nobody looks at the error of Complete or Fail: any failed write ends the
\* handler, and only the terminal events set done before they are written.
WriteError == /\ ~live
              /\ pc \notin {"reading", "returned"}
              /\ done' = (done \/ pc = "fail" \/ (pc = "items" /\ index >= Len(response.output)))
              /\ pc' = "returned"
              /\ UNCHANGED <<clientVars, response, index, broken>>

LoseClient == /\ pc # "returned"
              /\ ClientGone
              /\ UNCHANGED <<pc, response, index, broken>>

Returned == pc = "returned" /\ UNCHANGED vars

Read == ConvertAnswer \/ UpstreamFails

Write == \/ WriteCreated \/ WriteInProgress
         \/ WriteItemAdded \/ WritePartAdded \/ WriteDelta \/ WriteBodyDone
         \/ WritePartDone \/ WriteItemDone
         \/ WriteCompleted \/ WriteFailed \/ WriteError

Next == Read \/ Write \/ LoseClient \/ Returned

Spec == Init /\ [][Next]_vars

-----------------------------------------------------------------------------

\* Every variable stays in its domain and the position inside the output.
TypeOK == /\ StreamTypeOK
          /\ pc \in {"created", "in_progress", "reading", "items", "part.added", "delta",
                     "body.done", "part.done", "item.done", "fail", "returned"}
          /\ response.status \in {"completed", "incomplete"}
          /\ response.output \in Seq(ItemState)
          /\ index \in 0..Len(response.output)
          /\ broken \in BOOLEAN

Protocol == INSTANCE ResponsesProtocol

\* The stream played out from a whole response is one the Responses protocol
\* allows, event for event, as the incremental one of ChatStream is.
FollowsProtocol == Protocol!Spec

\* A client that follows the events alone, without the terminal event's copy,
\* ends with the very items of the converted response; and one that stays is
\* left, when the handler returns, with a terminal event that tells an answer
\* from a failure.
EventsCarryTheAnswer ==
    /\ phase \in {"completed", "incomplete"} => items = response.output /\ phase = response.status
    /\ pc = "returned" /\ live => phase = IF broken THEN "failed" ELSE response.status
=============================================================================
