----------------------------- MODULE SessionIds -----------------------------
(* The session a request is sent upstream with: Headers of                   *)
(* internal/provider/client.go, zenSessionID and canonicalOpenCodeSessionID   *)
(* of zen_compat.go, on top of the generator, for OpenCode Zen as the         *)
(* upstream.  A client may name its conversation in one of several headers;   *)
(* without one, a session is made up.                                        *)
(*                                                                           *)
(* A session id is its time part and whatever stands behind it: the random   *)
(* characters of its draw, or the digest of a signal, which is taken to be   *)
(* different for different signals.  A gateway in front of this one makes     *)
(* the same digests.                                                         *)
EXTENDS IdGenerator

CONSTANTS Inbounds,     \* the headers requests come with, by name
          Signals,      \* what they can say that is no canonical id
          NoText,       \* the empty text
          digest,       \* the 36 bits of the digest that go into the time part
          Window,       \* how many low values of a time part are canonical: 64
          MaxSteps      \* bound on the ids issued and the requests with a signal together

ASSUME SessionAssumption == /\ Window \in 2..PerMs /\ MaxSteps \in Nat /\ NoText \notin Signals
                            /\ \A s \in Signals : digest[s] \in 0..Span - 1

VARIABLES sessions,  \* history: what each request said and the session it got
          headers    \* those of the last request sent upstream

sessionVars == <<sessions, headers>>

\* The ids a gateway makes are no signals, and drawn characters no digest.
OwnIds == [part : 0..Capacity - 1, rest : Signals \cup 1..MaxIds]
ASSUME SignalAssumption == Signals \cap OwnIds = {} /\ Signals \cap 1..MaxIds = {}

\* The headers looked at, the first that is set counting, and those set.
signalHeaders == <<"x-opencode-session", "x-opencode-session-id", "x-session-affinity",
                   "X-Session-Id", "conversation-id">>
affinityHeaders == {"x-opencode-session", "x-opencode-session-id", "x-session-affinity",
                    "X-Session-Id"}
correlationHeaders == {"x-opencode-request", "x-opencode-request-id"}

-----------------------------------------------------------------------------

\* canonicalOpenCodeSessionPattern: the last three digits are fc0 or more.
isCanonical(id) == id.part % PerMs >= PerMs - Window

\* The value of a header: white space around it or not, the first 256 bytes of
\* what stands in between, and what is left of it beyond them.
headerValue(padded, head, beyond) == [padded |-> padded, head |-> head, beyond |-> beyond]

\* White space, and what is beyond 256 bytes, is cut off.
cleanHeaderValue(value) == value.head

\* What a request's headers say is, once it is clean, nothing, a signal or a
\* canonical id.
ASSUME InboundAssumption ==
    \A inbound \in Inbounds, k \in DOMAIN signalHeaders :
        signalHeaders[k] \in DOMAIN inbound =>
            LET head == inbound[signalHeaders[k]].head IN
            head = NoText \/ head \in Signals \/ isCanonical(head)

\* descendingTimePart: below the digest a one, then the complement.
descendingTimePart(bits) == Capacity - 1 - (bits * PerMs + 1)

digestOf(signal) == [part |-> descendingTimePart(digest[signal]), rest |-> signal]

\* Fault: whatever is an id already is taken for canonical.
canonicalIdUnchecked(id, bits) == id

\* A generated id stays what it is only while the count of its millisecond is
\* low; otherwise a digest of it, of any bits, takes the place of its time part.
canonicalId(id, bits) ==
    IF isCanonical(id) THEN id ELSE [id EXCEPT !.part = descendingTimePart(bits)]

\* Fault: every signal is digested, the canonical ones too.
canonicalSignalDigested(signal) ==
    IF signal \in Signals THEN digestOf(signal)
    ELSE [signal EXCEPT !.part = descendingTimePart(signal.part % Span)]

\* canonicalOpenCodeSessionID of a header's value.
canonicalSignal(signal) == IF signal \in Signals THEN digestOf(signal) ELSE signal

\* The k-th of the headers is there and says something.
says(inbound, k) == /\ signalHeaders[k] \in DOMAIN inbound
                    /\ cleanHeaderValue(inbound[signalHeaders[k]]) # NoText

signalled(inbound) == \E k \in DOMAIN signalHeaders : says(inbound, k)

\* zenSessionID: the first header that says something.
signalOf(inbound) ==
    inbound[signalHeaders[CHOOSE k \in DOMAIN signalHeaders :
        says(inbound, k) /\ \A l \in 1..k - 1 : ~says(inbound, l)]]

\* The client's headers, those of the session replaced, those that correlate
\* requests removed.
headersWith(inbound, session) ==
    [name \in (DOMAIN inbound \cup affinityHeaders) \ correlationHeaders |->
        IF name \in affinityHeaders THEN session ELSE inbound[name]]

-----------------------------------------------------------------------------

SessionInit == Init /\ sessions = <<>> /\ headers = <<>>

sessionsAsked == Len(SelectSeq(sessions, LAMBDA s : s.signalled))

\* The bound of the model.
Within == sessionsAsked + Len(issued) < MaxSteps

SignalledRequest(inbound) ==
    /\ signalled(inbound) /\ Within
    /\ LET session == canonicalSignal(cleanHeaderValue(signalOf(inbound))) IN
       /\ sessions' = Append(sessions, [signalled |-> TRUE, signal |-> signalOf(inbound),
                                        session |-> session])
       /\ headers' = headersWith(inbound, session)
    /\ UNCHANGED vars

\* The session is made up: the draw of the generator, made canonical.
UnsignalledRequest(c, inbound) ==
    /\ ~signalled(inbound) /\ Within
    /\ DrawNumber(c, "ses")
    /\ \E bits \in 0..Span - 1 :
       LET drawn == [part |-> issued'[Len(issued')].part, rest |-> Len(issued')]
           session == canonicalId(drawn, bits) IN
       /\ sessions' = Append(sessions, [signalled |-> FALSE, session |-> session,
                                        signal |-> headerValue(FALSE, drawn, NoText)])
       /\ headers' = headersWith(inbound, session)

SessionNext ==
    \/ \E inbound \in Inbounds : SignalledRequest(inbound)
    \/ \E inbound \in Inbounds, c \in Callers : UnsignalledRequest(c, inbound)
    \/ \E c \in Callers : ReadClock(c) /\ UNCHANGED sessionVars
    \/ \E c \in Callers : Within /\ DrawNumber(c, "msg") /\ UNCHANGED sessionVars
    \/ ~Within /\ UNCHANGED <<vars, sessionVars>>

SessionSpec == SessionInit /\ [][SessionNext]_<<vars, sessionVars>>

-----------------------------------------------------------------------------

\* Whatever session a request gets, from a client's header or from the
\* generator, has the form upstream knows sessions by, also when a millisecond
\* has seen more requests than its ids keep that form (zen_compat.go:155,
\* client.go:71).  "Zen's free-tier gate requires matching session and
\* affinity IDs, and rejects the request-correlation header": whatever mixture
\* of them the client has sent (client.go:265).
SessionsCanonical ==
    /\ \A k \in DOMAIN sessions : isCanonical(sessions[k].session)
    /\ sessions # <<>> =>
          /\ \A name \in affinityHeaders :
                name \in DOMAIN headers /\ headers[name] = sessions[Len(sessions)].session
          /\ DOMAIN headers \cap correlationHeaders = {}

\* A conversation keeps its session: the same signal gets the same session
\* whenever it comes and whichever header it comes in, another signal
\* another one, unless it is that session already, from a gateway in front
\* of this one; a session that has been through a gateway is not changed by
\* the next (zen_compat.go:155, canonicalOpenCodeSessionID).  Signals are the
\* same when they agree in their first 256 bytes, white space around them
\* aside: conversations that differ only further on share a session
\* (client.go:400-408), and a header that is blank says nothing.
SessionKept ==
    \A j, k \in DOMAIN sessions :
        LET a == sessions[j]
            b == sessions[k]
        IN /\ a.session = b.session
                <=> \/ a.signal.head = b.signal.head
                    \/ a.signal.head = b.session \/ b.signal.head = a.session
           /\ canonicalSignal(b.session) = b.session
=============================================================================
