----------------------------- MODULE SessionIdsMC -----------------------------
(* Requests without a signal, with one or two, with signals that differ only *)
(* in white space or beyond 256 bytes, with blank headers, and with sessions *)
(* that have been through another gateway.                                   *)
EXTENDS SessionIds, TLC

CONSTANTS s1, s2, c1, c2

MCCallers == {c1, c2}
SomeCaller == Permutations(MCCallers)

\* Canonical ids another gateway has sent: one it has drawn, and the one both
\* gateways make of a signal.
Canonical == headerValue(FALSE, [part |-> 2 * PerMs - 1, rest |-> 0], NoText)
Forwarded == headerValue(FALSE, digestOf(s1), NoText)
MCSignals == {s1, s2}
MCDigest == (s1 :> 0) @@ (s2 :> 1)

plain(signal) == headerValue(FALSE, signal, NoText)
blank == headerValue(TRUE, NoText, NoText)

MCInbounds ==
    {("x-opencode-request" :> plain(s1)) @@ ("x-opencode-session" :> blank),
     [n \in {"x-opencode-session"} |-> Forwarded],
     ("x-session-affinity" :> headerValue(TRUE, s1, NoText)) @@ ("X-Session-Id" :> plain(s2)),
     ("x-opencode-session" :> Canonical) @@ ("conversation-id" :> plain(s2)),
     ("x-session-affinity" :> blank) @@ ("conversation-id" :> headerValue(FALSE, s2, s1)),
     [n \in {"x-opencode-session-id", "x-opencode-request-id"} |-> plain(s2)]}
=============================================================================
