-------------------------- MODULE ProtocolCacheMC --------------------------
(* ProtocolCache with one model, listed as free, as paid, or both. *)
EXTENDS ProtocolCache

listed(free, paid) == [m \in Models |-> IF m[2] = "free" THEN free ELSE paid]

\* A catalog that lists both variants, one that knows the paid one only, and
\* one that changed its mind about the free one.
MCCatalogs == {listed("messages", "responses"), listed(Unlisted, "responses"),
               listed("chat", Unlisted)}

=============================================================================
