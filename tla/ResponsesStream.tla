-------------------------- MODULE ResponsesStream --------------------------
(* The writer of a Responses event stream (internal/protocol/stream.go) and *)
(* the client at the other end of the connection.  Every operator below is *)
(* one call of event(): it changes what the client has assembled when the  *)
(* connection is up, and is lost when it is not.  Whether the write reports *)
(* an error is up to the caller (see WriteError in the handlers).          *)
EXTENDS ToolCalls

CONSTANTS CallIDs       \* ids tool calls can have

VARIABLES done,    \* ResponsesStream.done: the terminal event has been tried
          live,    \* the client is still connected
          phase,   \* the last response.* event the client received
          items,   \* the client's copy of every output item, by output_index + 1
          output   \* the output array of the terminal event

clientVars == <<live, phase, items, output>>
streamVars == <<done, clientVars>>

-----------------------------------------------------------------------------

Terminal == {"completed", "incomplete", "failed"}

MessageItem(text) ==
    [kind |-> "message", name |-> <<>>, callID |-> NoCall, body |-> text, stage |-> "added"]

Finished(item) == [item EXCEPT !.stage = "done"]

\* An item of a finished response: tool calls have a name and an id, and
\* nothing but these has either.
WellFormed(full) ==
    /\ full.stage = "done"
    /\ IF full.kind \in {"message", "reasoning"}
       THEN full.name = <<>> /\ full.callID = NoCall
       ELSE full.name \in Names /\ full.callID \in CallIDs

StreamInit == /\ done = FALSE
              /\ live = TRUE
              /\ phase = "none"
              /\ items = <<>>
              /\ output = <<>>

\* One event that changes the client's items.
Show(newItems) == /\ items' = IF live THEN newItems ELSE items
                  /\ UNCHANGED <<live, phase, output>>

\* response.created, response.in_progress
PhaseEvent(newPhase) == /\ phase' = IF live THEN newPhase ELSE phase
                        /\ UNCHANGED <<live, items, output>>

\* response.output_item.added: the client files the item under its index.
ItemAdded(index, item) ==
    Show(IF index = Len(items) THEN Append(items, item)
                               ELSE [items EXCEPT ![index + 1] = item])

\* response.content_part.added
PartAdded(index) == Show([items EXCEPT ![index + 1].stage = "part"])

\* response.output_text.delta, .function_call_arguments.delta and
\* .custom_tool_call_input.delta
Delta(index, text) == Show([items EXCEPT ![index + 1].body = @ \o text])

\* response.output_text.done, .function_call_arguments.done and
\* .custom_tool_call_input.done carry the whole content again.
BodyDone(index, body) ==
    Show([items EXCEPT ![index + 1].body = body, ![index + 1].stage = "sealed"])

\* response.content_part.done
PartDone(index, body) ==
    Show([items EXCEPT ![index + 1].body = body, ![index + 1].stage = "closed"])

\* response.output_item.done carries the whole item again.
ItemDone(index, item) == Show([items EXCEPT ![index + 1] = Finished(item)])

\* Complete, CompleteFinal and Fail: the terminal event, once.
TerminalEvent(status, finalOutput) ==
    /\ done' = TRUE
    /\ phase' = IF live /\ ~done THEN status ELSE phase
    /\ output' = IF live /\ ~done THEN finalOutput ELSE output
    /\ UNCHANGED <<live, items>>

\* The client goes away; from then on writes may fail.
ClientGone == /\ live
              /\ live' = FALSE
              /\ UNCHANGED <<done, phase, items, output>>

-----------------------------------------------------------------------------

ItemState == [kind : {"message", "function_call", "custom_tool_call", "reasoning"},
              name : Seq(STRING), callID : CallIDs \cup {NoCall}, body : Seq(STRING),
              stage : {"added", "part", "sealed", "closed", "done"}]

StreamTypeOK ==
    /\ done \in BOOLEAN
    /\ live \in BOOLEAN
    /\ phase \in {"none", "created", "in_progress"} \cup Terminal
    /\ items \in Seq(ItemState)
    /\ output \in Seq(ItemState)
=============================================================================
