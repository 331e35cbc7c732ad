---------------------------- MODULE UpstreamCall ----------------------------
(* One request on its way upstream: Client.do and waitForRetry              *)
(* (internal/provider/client.go), called by a handler that then relays the  *)
(* answer or reports the error (internal/httpapi/server.go).  The upstream  *)
(* answers, rate limits or breaks the connection as it likes, the client may *)
(* leave at any time, and RequestTimeout runs throughout.                   *)
EXTENDS Naturals

CONSTANTS MaxRetries,      \* Client.maxRetries
          RetryDelay,      \* Client.retryDelay
          RequestTimeout,  \* config.RequestTimeout
          BodySize,        \* of the request, in parts an upstream may have read
          Statuses,        \* what the upstream can answer with, besides 429
          MaxTime          \* bound on the clock

ASSUME CallAssumption ==
    /\ MaxRetries \in Nat /\ RetryDelay \in Nat /\ RequestTimeout \in Nat \ {0}
    /\ BodySize \in Nat /\ MaxTime \in Nat /\ RequestTimeout <= MaxTime
    /\ Statuses \subseteq Nat \ {0, 429, 502, 504}

VARIABLES
    clock,        \* the time since the handler made its context
    pc,           \* where the handler is
    attempt,      \* the loop variable of do
    offset,       \* how much of the request body the current reader has handed out
    status,       \* of the response at hand
    wake,         \* when the timer of waitForRetry fires
    clientGone,   \* the inbound request's context is cancelled
    open,         \* response bodies not yet closed, by attempt
    idle,         \* connections kept for reuse
    reply,        \* what the handler wrote: a status, or 0 for nothing
    sent,         \* history: attempts that reached the upstream
    reused,       \* history: how many of them on a kept connection
    received,     \* history: the parts of the body the last answer is based on
    limitedAt     \* history: when the last 429 arrived

historyVars == <<sent, reused, received, limitedAt>>
vars == <<clock, pc, attempt, offset, status, wake, clientGone, open, idle, reply, historyVars>>

-----------------------------------------------------------------------------

Init == /\ clock = 0 /\ pc = "request" /\ attempt = 0 /\ offset = 0
        /\ status = 0 /\ wake = 0 /\ clientGone = FALSE
        /\ open = {} /\ idle = 0 /\ reply = 0
        /\ sent = 0 /\ reused = 0 /\ received = {} /\ limitedAt = 0

deadlineExceeded == clock >= RequestTimeout
contextDone == clientGone \/ deadlineExceeded

\* Fault: the pause grows with the attempts but starts from nothing.
backoffLinear == attempt * RetryDelay

\* The pause before the next attempt.
backoff == 2 ^ attempt * RetryDelay

\* Only a 429 is retried, and not after the last attempt.
retryable == status = 429 /\ attempt < MaxRetries

\* request.Close and DisableKeepAlives: no connection survives its response.
keepsConnection == FALSE

\* Fault: one reader for all attempts.
readerShared == offset

\* Where a new attempt starts to read the body.
readerStart == 0

\* A request with a reader of its own; with a context that is done it is not
\* sent any more.
NewRequest == /\ pc = "request"
              /\ offset' = readerStart
              /\ IF contextDone
                 THEN pc' = "error" /\ UNCHANGED <<sent, reused, idle>>
                 ELSE /\ pc' = "sending"
                      /\ sent' = sent + 1
                      /\ IF idle > 0 THEN idle' = idle - 1 /\ reused' = reused + 1
                                     ELSE UNCHANGED <<idle, reused>>
              /\ UNCHANGED <<clock, attempt, status, wake, clientGone, open, reply,
                             received, limitedAt>>

\* The upstream may turn a request down before it has read the whole body;
\* the reader is then left where it was.
UpstreamAnswers(code) ==
    /\ pc = "sending"
    /\ status' = code
    /\ offset' \in (IF code = 200 THEN {BodySize} ELSE offset..BodySize)
    /\ received' = {part \in 1..BodySize : offset < part /\ part <= offset'}
    /\ open' = open \cup {attempt}
    /\ limitedAt' = IF code = 429 THEN clock ELSE limitedAt
    /\ pc' = "answered"
    /\ UNCHANGED <<clock, attempt, wake, clientGone, idle, reply, sent, reused>>

\* The connection breaks, or the context ends while the request is under way.
UpstreamBreaks == /\ pc = "sending"
                  /\ pc' = "error"
                  /\ UNCHANGED <<clock, attempt, offset, status, wake, clientGone, open, idle,
                                 reply, historyVars>>

\* Fault: the request is made without the handler's context.
ContextEndsUnheeded == FALSE

ContextEnds == contextDone /\ UpstreamBreaks

\* The answer is the caller's ...
Accept == /\ pc = "answered" /\ ~retryable
          /\ pc' = "relay"
          /\ UNCHANGED <<clock, attempt, offset, status, wake, clientGone, open, idle, reply,
                         historyVars>>

\* Fault: the rate-limited response is dropped without closing its body.
DiscardUnclosed == /\ pc = "answered" /\ retryable
                   /\ wake' = clock + backoff
                   /\ pc' = "waiting"
                   /\ UNCHANGED <<clock, attempt, offset, status, clientGone, open, idle, reply,
                                  historyVars>>

\* ... or a rate limit to sit out: the body is drained and closed before the
\* timer is set.
Discard == /\ pc = "answered" /\ retryable
           /\ open' = open \ {attempt}
           /\ idle' = IF keepsConnection THEN idle + 1 ELSE idle
           /\ wake' = clock + backoff
           /\ pc' = "waiting"
           /\ UNCHANGED <<clock, attempt, offset, status, clientGone, reply, historyVars>>

\* waitForRetry: the timer, or the context; when both are ready, either.
TimerFires == /\ pc = "waiting" /\ clock >= wake
              /\ attempt' = attempt + 1
              /\ pc' = "request"
              /\ UNCHANGED <<clock, offset, status, wake, clientGone, open, idle, reply,
                             historyVars>>

WaitCancelled == /\ pc = "waiting" /\ contextDone
                 /\ pc' = "error"
                 /\ UNCHANGED <<clock, attempt, offset, status, wake, clientGone, open, idle,
                                reply, historyVars>>

\* The handler passes the answer on and closes its body on return.
Relay == /\ pc = "relay"
         /\ reply' = status
         /\ open' = open \ {attempt}
         /\ pc' = "returned"
         /\ UNCHANGED <<clock, attempt, offset, status, wake, clientGone, idle, historyVars>>

\* Fault: a timeout is reported like any other failure.
errorReplyUniform == IF clientGone THEN 0 ELSE 502

\* What a failed call is reported as: nothing to a client that left, 504
\* after the timeout, 502 otherwise.
errorReply == IF clientGone THEN 0 ELSE IF deadlineExceeded THEN 504 ELSE 502

ReportError == /\ pc = "error"
               /\ reply' = errorReply
               /\ pc' = "returned"
               /\ UNCHANGED <<clock, attempt, offset, status, wake, clientGone, open, idle,
                              historyVars>>

\* At any time, while its error is being written to it as well.
ClientLeaves == /\ ~clientGone
                /\ clientGone' = TRUE
                /\ UNCHANGED <<clock, pc, attempt, offset, status, wake, open, idle, reply,
                               historyVars>>

Tick == /\ clock < MaxTime /\ pc # "returned"
        /\ clock' = clock + 1
        /\ UNCHANGED <<pc, attempt, offset, status, wake, clientGone, open, idle, reply,
                       historyVars>>

Returned == pc = "returned" /\ UNCHANGED vars

-----------------------------------------------------------------------------

Handler == \/ NewRequest \/ ContextEnds \/ Accept \/ Discard
           \/ TimerFires \/ WaitCancelled \/ Relay \/ ReportError

Upstream == UpstreamBreaks \/ \E code \in Statuses \cup {429} : UpstreamAnswers(code)

Next == Handler \/ Upstream \/ ClientLeaves \/ Tick \/ Returned

Spec == Init /\ [][Next]_vars

\* The handler runs and time passes.  Nothing is asked of the upstream: it may
\* never answer.
FairSpec == Spec /\ WF_vars(Handler) /\ WF_vars(Tick)

-----------------------------------------------------------------------------

\* Every variable stays in its domain; there is one reply at most.
TypeOK == /\ clock \in 0..MaxTime
          /\ pc \in {"request", "sending", "answered", "waiting", "relay", "error", "returned"}
          /\ attempt \in 0..MaxRetries
          /\ offset \in 0..BodySize
          /\ status \in Statuses \cup {0, 429}
          /\ wake \in Nat
          /\ clientGone \in BOOLEAN
          /\ open \in SUBSET (0..MaxRetries)
          /\ idle \in Nat
          /\ reply \in Statuses \cup {0, 429, 502, 504}
          /\ sent \in 0..MaxRetries + 1
          /\ reused \in Nat
          /\ received \in SUBSET (1..BodySize)
          /\ limitedAt \in 0..MaxTime

\* No response body outlives the handler, whichever way it returns, and none
\* is still open while the next attempt is made: retries pile up no
\* connections.
BodiesClosed == /\ pc \in {"request", "sending", "waiting", "error", "returned"} => open = {}
                /\ \A j, k \in open : j = k

\* The n-th retry is sent no sooner than 2^(n-1) delays after the rate limit
\* it answers, and a client is shown a rate limit only when all the retries
\* have been spent.
BackoffIsKept ==
    [][/\ sent' # sent /\ attempt > 0 =>
              clock >= limitedAt + 2 ^ (attempt - 1) * RetryDelay
       /\ reply' = 429 => sent = MaxRetries + 1]_vars

\* An answer is to the whole request, on a retry as on the first attempt: the
\* body is not continued where the rate-limited attempt stopped reading.
AnswersWholeRequest == pc \in {"relay", "returned"} /\ status = 200 => received = 1..BodySize

\* The outcome of the call fits what happened: a client that stayed gets
\* exactly one reply, a call that failed is told as a timeout once the time is
\* over and as another failure before, and nothing is sent upstream for a
\* request whose time is over.  An answer that was accepted is the reply,
\* whatever becomes of its body: a timeout while it is gathered is answered
\* with 502 (server.go:301, 411; Gateway).
OutcomeFits ==
    [][/\ (pc' = "returned" /\ pc # "returned") =>
              /\ ~clientGone => reply' # 0
              /\ reply' = 504 => clock >= RequestTimeout
              /\ reply' = 502 => clock < RequestTimeout
       /\ sent' # sent => clock < RequestTimeout /\ ~clientGone]_vars

\* client.go:152 and client.go:182: a discarded response is drained "so the
\* connection can be reused".
RetryReusesConnection == sent > 1 => reused > 0
=============================================================================
