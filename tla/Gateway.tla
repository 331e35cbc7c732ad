------------------------------- MODULE Gateway -------------------------------
(* A request from end to end (internal/httpapi/server.go): the handlers      *)
(* models, chatCompletions and responses from the authorisation on, the call *)
(* upstream with its retries (UpstreamCall), and the ways its answer is      *)
(* handed to the client.  What the converters write into an event stream is  *)
(* left to ChatStream and WholeResponse: here a stream has a head, passes     *)
(* chunks on and ends in one way or another.                                 *)
EXTENDS UpstreamCall, FiniteSets

CONSTANT MaxBody  \* bound on the parts of an upstream body

ASSUME BodyAssumption == MaxBody \in Nat

VARIABLES
    inbound,  \* the request: its route, the protocol of its model, its stream flag
    flaws,    \* what is wrong with it
    step,     \* where the handler is, around the call upstream
    answer,   \* the upstream's answer: an event stream or not, convertible or not
    left,     \* parts of its body still to come
    out,      \* what the client was given
    cut,      \* history: the body broke off
    writing,  \* the handler is in a write to the client, and goes on when it returns
    stalled   \* the client neither reads nor sends any more, and stays

gatewayVars == <<inbound, flaws, step, answer, left, out, cut, writing, stalled>>
allVars == <<vars, gatewayVars>>

Inbounds ==
    [route : {"models"}, target : {"chat"}, stream : {FALSE}]
    \cup [route : {"chat"}, target : {"chat"}, stream : BOOLEAN]
    \cup [route : {"responses"}, target : {"chat", "responses", "anthropic"}, stream : BOOLEAN]

\* No or a wrong key, an unreadable body, a request that does not parse, an
\* input that cannot be translated, tools that cannot be added to.
Flaws == {"key", "body", "request", "input", "tools"}

converted == inbound.route = "responses" /\ inbound.target # "responses"

\* The flaws a route can meet.
possibleFlaws(in) ==
    CASE in.route = "models"                               -> {"key"}
      [] in.route = "responses" /\ in.target # "responses" -> Flaws \ {"tools"}
      [] OTHER                                             -> Flaws \ {"input"}

Nothing == [status |-> 0, type |-> "none", parts |-> 0, end |-> "none"]

-----------------------------------------------------------------------------

GatewayInit == /\ Init
               /\ inbound \in Inbounds
               /\ flaws \in SUBSET possibleFlaws(inbound)
               /\ step = "authorize"
               /\ answer = [sse |-> FALSE, sound |-> FALSE] /\ left = 0
               /\ out = Nothing /\ cut = FALSE
               /\ writing = FALSE /\ stalled = FALSE

\* The checks before the request is sent, in the order they are made.
stepsBefore == <<"authorize", "read", "parse", "translate", "prepare">>
flawFound(k) == <<"key", "body", "request", "input", "tools">>[k] \in flaws

errorAnswer(code) == [status |-> code, type |-> "json", parts |-> 0, end |-> "whole"]

\* What the last check finds wrong is an error of DoProtocol, reported as a
\* failed call.
Check(k) == /\ step = stepsBefore[k]
            /\ IF flawFound(k)
               THEN /\ step' = "done"
                    /\ out' = IF k = 5 /\ clientGone THEN out
                              ELSE errorAnswer(<<401, 400, 400, 400, 502>>[k])
               ELSE /\ step' = IF k = 5 THEN "call" ELSE stepsBefore[k + 1]
                    /\ UNCHANGED out
            /\ writing' = (out' # out)
            /\ UNCHANGED <<vars, inbound, flaws, answer, left, cut, stalled>>

\* Client.do and waitForRetry, under a context with RequestTimeout.
Call == /\ step = "call"
        /\ \/ NewRequest \/ ContextEnds \/ Discard \/ TimerFires \/ WaitCancelled
        /\ UNCHANGED gatewayVars

UpstreamMoves == step = "call" /\ Upstream /\ UNCHANGED gatewayVars

ReceiveAnswer == /\ step = "call" /\ Accept
                 /\ step' = "answer"
                 /\ answer' \in [sse : BOOLEAN, sound : BOOLEAN]
                 /\ left' \in 0..MaxBody
                 /\ UNCHANGED <<inbound, flaws, out, cut, writing, stalled>>

\* A call that failed: an error of the gateway's own, but for a client that
\* has left.
ReportFailure == /\ step = "call" /\ ReportError
                 /\ step' = "done"
                 /\ out' = IF errorReply = 0 THEN out ELSE errorAnswer(errorReply)
                 /\ writing' = (errorReply # 0)
                 /\ UNCHANGED <<inbound, flaws, answer, left, cut, stalled>>

-----------------------------------------------------------------------------
(* The answer.                                                               *)

succeeded == status \in 200..299

\* Fault: an event stream nobody asked for is passed on.
modeCopying ==
    CASE converted -> IF ~succeeded THEN "error" ELSE IF inbound.stream THEN "convert" ELSE "gather"
      [] inbound.route = "models" -> IF status = 200 THEN "gather" ELSE "copy"
      [] OTHER -> IF inbound.stream THEN "stream" ELSE "copy"

\* Read whole before a word is written ("gather"), reported as an error
\* ("error"), converted event by event or at the end of the body into a stream
\* that has begun ("convert"), or passed on ("stream", "copy").
mode ==
    CASE converted -> IF ~succeeded THEN "error" ELSE IF inbound.stream THEN "convert" ELSE "gather"
      [] inbound.route = "models" -> IF status = 200 THEN "gather" ELSE "copy"
      [] ~converted /\ inbound.stream -> "stream"
      [] OTHER -> IF status = 200 /\ answer.sse THEN "gather" ELSE "copy"

upstreamType == IF answer.sse THEN "sse" ELSE "json"

passesOn == mode \in {"stream", "copy"}

\* The body is read once the head is out, where it goes out first, and not
\* while what was read before is being written.
reading == step = "answer" /\ ~writing /\ (mode \in {"gather", "error"} \/ out.status # 0)

\* writeUpstreamResponse calls whatever it streams an event stream, errors
\* included; writePassthroughResponse leaves the upstream's type.  A converted
\* stream begins with an event of its own.
WriteHead ==
    /\ step = "answer" /\ out.status = 0 /\ mode \in {"convert", "stream", "copy"}
    /\ out' = [out EXCEPT
                 !.status = IF mode = "convert" THEN 200 ELSE status,
                 !.type = IF mode = "copy" \/ (mode = "stream" /\ inbound.route # "chat")
                          THEN upstreamType ELSE "sse"]
    /\ writing' = (mode = "convert")
    /\ UNCHANGED <<vars, inbound, flaws, step, answer, left, cut, stalled>>

\* The answer is over, with a last write unless it was passed on.
Return(given) == /\ out' = given
                 /\ step' = "return"
                 /\ writing' = (given # out /\ ~passesOn)

\* writeAPIError and the other answers that are one JSON object.
jsonAnswer(code) == [out EXCEPT !.status = code, !.type = "json", !.end = "whole"]

\* What was read is passed on, converted to events or none, or kept.
ReadPart ==
    /\ reading /\ left > 0
    /\ left' = left - 1
    /\ IF passesOn
       THEN out' = [out EXCEPT !.parts = @ + 1] /\ writing' = TRUE
       ELSE UNCHANGED out /\ writing' \in {FALSE, mode = "convert"}
    /\ UNCHANGED <<vars, inbound, flaws, step, answer, cut, stalled>>

\* The client has taken what was written; or it has left and the write fails,
\* upon which the handler reads no further.
WriteReturns ==
    /\ writing /\ writing' = FALSE
    /\ \/ UNCHANGED <<step, out>>
       \/ /\ clientGone /\ step = "answer"
          /\ step' = "return" /\ out' = [out EXCEPT !.end = "ended"]
    /\ UNCHANGED <<vars, inbound, flaws, answer, left, cut, stalled>>

\* writeConvertedUpstreamError: what is no error status becomes one.
errorStatus == IF status < 400 THEN 502 ELSE status

\* Fault: a stream under way is answered as if nothing had been written.
failedConversionAnew == jsonAnswer(502)

\* Fail(): the stream that has begun ends with a failed response.
failedConversion == [out EXCEPT !.end = "failed"]

\* filterFreeModels: whatever it cannot read it passes on as it is, and under
\* the upstream's type.
modelList == [jsonAnswer(200) EXCEPT !.type = IF answer.sound THEN "json" ELSE upstreamType]

\* What is gathered is handed on in one piece, or reported as invalid.
gathered == IF inbound.route = "models" THEN modelList
            ELSE IF answer.sound THEN jsonAnswer(200) ELSE jsonAnswer(502)

BodyEnds ==
    /\ reading /\ left = 0
    /\ CASE mode = "gather" -> Return(gathered)
         [] mode = "error" -> Return(jsonAnswer(errorStatus))
         [] mode = "convert" -> Return(IF answer.sound THEN [out EXCEPT !.end = "whole"]
                                       ELSE failedConversion)
         [] passesOn -> Return([out EXCEPT !.end = "ended"])
    /\ UNCHANGED <<vars, inbound, flaws, answer, left, cut, stalled>>

\* Fault: the error of the read is overlooked, the body taken as it is.
gatheredCutUnnoticed == jsonAnswer(200)

\* The models handler writes nothing to a client that has left.
gatheredCut == IF inbound.route = "models" /\ clientGone THEN out ELSE jsonAnswer(502)

\* A read of the body fails.  Behind a head that is out, a pass-through just
\* ends; the text of an error is cut short.
breaksOff ==
    /\ reading
    /\ CASE mode = "gather" -> Return(gatheredCut)
         [] mode = "error" -> Return(jsonAnswer(errorStatus))
         [] mode = "convert" -> Return(failedConversion)
         [] passesOn -> Return([out EXCEPT !.end = "ended"])
    /\ cut' = TRUE
    /\ UNCHANGED <<vars, inbound, flaws, answer, left, stalled>>

BodyBreaks == breaksOff

\* The context of the call governs its body as well: timeout and departure of
\* the client end the read.
ContextEndsBody == contextDone /\ breaksOff

\* The deferred Close, and the end of the handler.
ReturnFromHandler == /\ step = "return" /\ ~writing /\ Relay
                     /\ step' = "done"
                     /\ UNCHANGED <<inbound, flaws, answer, left, out, cut, writing, stalled>>

GatewayClientLeaves == (step # "done" \/ writing) /\ ClientLeaves /\ UNCHANGED gatewayVars

\* The client stops reading, and sending, for good, but keeps the connection.
ClientStalls == /\ ~stalled /\ ~clientGone /\ (step # "done" \/ writing)
                /\ stalled' = TRUE
                /\ UNCHANGED <<vars, inbound, flaws, step, answer, left, out, cut, writing>>

\* RequestTimeout runs from the call on, and while the body is read.
GatewayTick == step \in {"call", "answer"} /\ Tick /\ UNCHANGED gatewayVars

GatewayDone == step = "done" /\ ~writing /\ UNCHANGED allVars

-----------------------------------------------------------------------------

GatewayHandler == \/ \E k \in 1..5 : Check(k)
                  \/ Call \/ ReceiveAnswer \/ ReportFailure
                  \/ WriteHead \/ WriteReturns \/ ContextEndsBody \/ ReturnFromHandler

GatewayUpstream == UpstreamMoves \/ ReadPart \/ BodyEnds \/ BodyBreaks

GatewayNext == \/ GatewayHandler \/ GatewayUpstream
               \/ GatewayClientLeaves \/ ClientStalls \/ GatewayTick \/ GatewayDone

\* A write to the client, or the read of its request, that need never return:
\* the server sets no deadline for either (main.go:34-39), and only a client
\* that has left ends them.
heldByClient == stalled /\ ~clientGone /\ (writing \/ step = "read")

\* The handler runs, unless its client holds it, and time passes.  Nothing is
\* asked of the upstream: it may never answer, and never end an answer it has
\* begun.
GatewaySpec == /\ GatewayInit /\ [][GatewayNext]_allVars
               /\ WF_allVars(~heldByClient /\ GatewayHandler) /\ WF_allVars(GatewayTick)

-----------------------------------------------------------------------------

\* Every client that stays is given exactly one head, at the latest when the
\* handler ends, and nothing that is found out later changes it
\* (server.go:322, 355, 432: after WriteHeader failures have to be told in the
\* stream).
OneHead ==
    [][/\ out.status # 0 => /\ out'.status = out.status /\ out'.type = out.type
                            /\ out'.parts >= out.parts
       /\ step' = "done" /\ step # "done" /\ ~clientGone => out'.status # 0]_allVars

\* An answer that looks whole is whole: when the upstream's body breaks off,
\* by a failed connection or by the timeout, or cannot be converted, a client
\* that stays gets an error status or a failed response, never a shortened
\* answer.  Answers passed on as they come are the exception: they end like
\* whole ones (server.go:338, 376).
TruncationIsTold ==
    (step = "done" /\ ~clientGone /\ reply = status /\ succeeded /\ ~passesOn) =>
        ((out.status = 200 /\ out.end = "whole")
            <=> (~cut /\ (answer.sound \/ inbound.route = "models")))

\* A client gets the kind of answer it asked for, though the upstream is
\* always asked for a stream: without "stream" a success is never an event
\* stream, with it always one, except that a model that speaks Responses
\* answers in the upstream's type (server.go:318, 349), as does a model list
\* that cannot be read (server.go:120).  Nobody is served whose request has a
\* flaw.
AsAsked ==
    step = "done" /\ out.status = 200 =>
        /\ flaws = {}
        /\ ~inbound.stream /\ (answer.sound \/ inbound.route # "models") => out.type = "json"
        /\ inbound.stream /\ ~(inbound.route = "responses" /\ ~converted) => out.type = "sse"

\* The handler comes back and every body is closed, though the upstream may
\* never answer, stop in the middle of a body, or rate limit for ever.  Only
\* its own client can hold it for good, in a write or in the read of the
\* request, by staying and doing nothing: RequestTimeout ends the call and
\* the reads of the upstream's body, and no write (server.go:333, 343, 371).
AlwaysReturns == <>(step = "done" /\ ~writing /\ open = {}) \/ <>[]heldByClient
=============================================================================
