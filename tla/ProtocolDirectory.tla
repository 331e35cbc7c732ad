------------------------- MODULE ProtocolDirectory -------------------------
(* What callers of ProtocolForModel are promised: the cache, its lock and   *)
(* its expiry aside, there is one directory of protocols; a refresh lays a  *)
(* whole catalog over it at once, and every answer is one look into it      *)
(* between the question and the return.  ProtocolCache implements this.     *)
EXTENDS ModelProtocols

CONSTANTS Callers,   \* requests being served
          Catalogs,  \* what the model catalog can list
          Nobody     \* no question asked, no answer given yet

VARIABLES known,     \* the directory
          asked,     \* the base name each caller asked for
          answer     \* the protocol each caller was told

vars == <<known, asked, answer>>

Init == /\ known = [m \in Models |-> Unlisted]
        /\ asked = [c \in Callers |-> Nobody]
        /\ answer = [c \in Callers |-> Nobody]

Ask(c, base) == /\ asked[c] = Nobody
                /\ asked' = [asked EXCEPT ![c] = base]
                /\ UNCHANGED <<known, answer>>

Refresh(catalog) == /\ known' = overlay(catalog, known)
                    /\ UNCHANGED <<asked, answer>>

Answer(c) == /\ asked[c] # Nobody /\ answer[c] = Nobody
             /\ answer' = [answer EXCEPT ![c] = protocolOf(known, asked[c])]
             /\ UNCHANGED <<known, asked>>

Next == \/ \E c \in Callers : Answer(c) \/ \E base \in Bases : Ask(c, base)
        \/ \E catalog \in Catalogs : Refresh(catalog)

Spec == Init /\ [][Next]_vars
=============================================================================
