------------------------- MODULE ResponsesProtocol -------------------------
(* What the reader of one Responses event stream is promised, whatever     *)
(* upstream format the gateway translates from.  The state is the reader's *)
(* own: the phase of the response, the output items it has assembled from  *)
(* the events so far, and the output the terminal event repeats.           *)
(* ChatStream and WholeResponse implement this specification.              *)
EXTENDS Naturals, Sequences

CONSTANTS Names,        \* names a tool can have
          CallIDs,      \* ids a tool call can have
          Reasonings,   \* summaries a reasoning item can carry
          NoCall        \* "no call id", of items that are not tool calls

VARIABLES phase, items, output

vars == <<phase, items, output>>

-----------------------------------------------------------------------------

Terminal == {"completed", "incomplete", "failed"}
Phases   == {"none", "created", "in_progress"} \cup Terminal

\* An item as its output_item.added event shows it: no content yet, except
\* that a reasoning item arrives whole.
Message == [kind |-> "message", name |-> <<>>, callID |-> NoCall,
            body |-> <<>>, stage |-> "added"]

ToolItem(kind, name, id) ==
    [kind |-> kind, name |-> name, callID |-> id, body |-> <<>>, stage |-> "added"]

Reasoning(summary) == [Message EXCEPT !.kind = "reasoning", !.body = summary]

FreshItems ==
    {Message}
    \cup {ToolItem(kind, name, id) : kind \in {"function_call", "custom_tool_call"},
                                     name \in Names, id \in CallIDs}
    \cup {Reasoning(summary) : summary \in Reasonings}

\* The order of the events of one item, by its kind.
StageSteps(kind) ==
    CASE kind = "message"   -> {<<"added", "part">>, <<"part", "sealed">>,
                                <<"sealed", "closed">>, <<"closed", "done">>}
      [] kind = "reasoning" -> {<<"added", "done">>}
      [] OTHER              -> {<<"added", "sealed">>, <<"sealed", "done">>}

\* Deltas reach a message inside its content part, a tool call once added.
Growing(item) == \/ item.kind = "message" /\ item.stage = "part"
                 \/ item.kind \in {"function_call", "custom_tool_call"} /\ item.stage = "added"

Extends(longer, shorter) ==
    /\ Len(shorter) <= Len(longer)
    /\ SubSeq(longer, 1, Len(shorter)) = shorter

-----------------------------------------------------------------------------

Init == phase = "none" /\ items = <<>> /\ output = <<>>

Create == /\ phase = "none"
          /\ phase' = "created"
          /\ UNCHANGED <<items, output>>

Start == /\ phase = "created"
         /\ phase' = "in_progress"
         /\ UNCHANGED <<items, output>>

\* Output indices are handed out in order: a new item is the next one.
AddItem == /\ phase = "in_progress"
           /\ \E item \in FreshItems : items' = Append(items, item)
           /\ UNCHANGED <<phase, output>>

\* A delta only adds to the end of what the reader already has.
Grow(i) == /\ phase = "in_progress"
           /\ Growing(items[i])
           /\ items' = [items EXCEPT ![i].body = items'[i].body]
           /\ Extends(items'[i].body, items[i].body)
           /\ UNCHANGED <<phase, output>>

\* The closing events of an item repeat its header and content; they may
\* not correct them.
Advance(i) == /\ phase = "in_progress"
              /\ \E to \in {"part", "sealed", "closed", "done"} :
                    /\ <<items[i].stage, to>> \in StageSteps(items[i].kind)
                    /\ items' = [items EXCEPT ![i].stage = to]
              /\ UNCHANGED <<phase, output>>

\* The terminal event repeats the finished items in index order; a response
\* without items may show one empty message instead.
Complete == /\ phase = "in_progress"
            /\ phase' \in {"completed", "incomplete"}
            /\ \A i \in DOMAIN items : items[i].stage = "done"
            /\ \/ output' = items
               \/ items = <<>> /\ output' = <<[Message EXCEPT !.stage = "done"]>>
            /\ UNCHANGED items

Fail == /\ phase = "in_progress"
        /\ phase' = "failed"
        /\ UNCHANGED <<items, output>>

Next == \/ Create \/ Start \/ AddItem \/ Complete \/ Fail
        \/ \E i \in DOMAIN items : Grow(i) \/ Advance(i)

Spec == Init /\ [][Next]_vars
=============================================================================
