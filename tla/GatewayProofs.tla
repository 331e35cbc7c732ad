---------------------------- MODULE GatewayProofs ----------------------------
(* What a request is owed, for any number of retries, any delays, timeouts,  *)
(* statuses and body sizes: the safety properties of Gateway, and those of   *)
(* UpstreamCall as the call a handler makes.                                 *)
EXTENDS Gateway, Integers, TLAPS

-----------------------------------------------------------------------------
(* The invariant.  CallInv and BackoffInv are what the call keeps for        *)
(* itself; RequestInv says that a request has come as far as its flaws let   *)
(* it; AnswerInv ties what the client has been given to the place of the     *)
(* handler, which is what the properties, about the end of the handler only, *)
(* do not say themselves.                                                    *)

Places == {"request", "sending", "answered", "waiting", "relay", "error", "returned"}

CallInv ==
    /\ pc \in Places
    /\ clock \in Nat /\ clientGone \in BOOLEAN
    /\ status \in Statuses \cup {0, 429}
    /\ pc \in {"request", "sending", "waiting", "error"} => status \in {0, 429}
    /\ pc \in {"answered", "relay"} => status # 0 /\ open = {attempt}
    /\ pc \notin {"answered", "relay"} => open = {}
    /\ pc = "sending" => offset = 0
    /\ status = 200 => received = 1..BodySize

\* Where the rate limits have led: how many attempts were sent, and how long
\* the next one has waited.
BackoffInv ==
    /\ attempt \in Nat /\ attempt <= MaxRetries
    /\ limitedAt \in Nat /\ limitedAt <= clock /\ wake \in Int
    /\ pc = "request" => sent = attempt
    /\ pc \in {"sending", "answered", "waiting", "relay"} => sent = attempt + 1
    /\ pc = "waiting" => /\ attempt < MaxRetries
                         /\ wake >= limitedAt + 2 ^ attempt * RetryDelay
    /\ pc = "request" /\ attempt > 0 =>
          clock >= limitedAt + 2 ^ (attempt - 1) * RetryDelay
    /\ pc = "relay" /\ status = 429 => attempt = MaxRetries
    /\ reply = 429 => pc = "returned" /\ sent = MaxRetries + 1

Before == {"authorize", "read", "parse", "translate", "prepare"}

RequestInv ==
    /\ inbound \in Inbounds /\ flaws \in SUBSET Flaws
    /\ step \in Before \cup {"call", "answer", "return", "done"}
    /\ step \in {"read", "parse", "translate", "prepare"} => "key" \notin flaws
    /\ step \in {"parse", "translate", "prepare"} => "body" \notin flaws
    /\ step \in {"translate", "prepare"} => "request" \notin flaws
    /\ step = "prepare" => "input" \notin flaws
    /\ step \in {"call", "answer", "return"} => flaws = {}

\* The head that is out is that of the mode, and nothing else is known yet.
HeadIsOut == /\ mode \in {"convert", "stream", "copy"}
             /\ out.status = (IF mode = "convert" THEN 200 ELSE status)
             /\ out.type = (IF mode = "copy" \/ (mode = "stream" /\ inbound.route # "chat")
                            THEN upstreamType ELSE "sse")
             /\ out.end = "none"

Told == ~clientGone /\ succeeded /\ ~passesOn =>
            ((out.status = 200 /\ out.end = "whole")
                <=> (~cut /\ (answer.sound \/ inbound.route = "models")))

Fitting == out.status = 200 =>
               /\ flaws = {}
               /\ ~inbound.stream /\ (answer.sound \/ inbound.route # "models") => out.type = "json"
               /\ inbound.stream /\ ~(inbound.route = "responses" /\ ~converted) => out.type = "sse"

Outs == [status : Nat, type : {"none", "json", "sse"}, parts : Nat,
         end : {"none", "whole", "failed", "ended"}]

AnswerInv ==
    /\ answer \in [sse : BOOLEAN, sound : BOOLEAN] /\ left \in Nat /\ cut \in BOOLEAN
    /\ out \in Outs
    /\ step \in Before => pc = "request" /\ status = 0 /\ reply = 0
    /\ step \in Before \cup {"call"} => out = Nothing /\ pc \notin {"relay", "returned"} /\ ~cut
    /\ step = "answer" => pc = "relay" /\ ~cut /\ (out = Nothing \/ HeadIsOut)
    /\ step = "return" => pc = "relay" /\ (clientGone \/ out.status # 0) /\ Told /\ Fitting
    /\ step = "done" => /\ pc \in {"request", "returned"}
                        /\ reply = status => Told
                        /\ Fitting

IInv == CallInv /\ BackoffInv /\ RequestInv /\ AnswerInv

-----------------------------------------------------------------------------
(* How an answer is handed on.                                               *)

\* What each mode says of the request and the upstream's status.
LEMMA ModeFacts ==
    ASSUME inbound \in Inbounds, status \in Nat
    PROVE  /\ mode \in {"error", "convert", "gather", "stream", "copy"}
           /\ mode = "error" => converted /\ ~succeeded
           /\ mode = "convert" => converted /\ succeeded /\ inbound.stream
           /\ mode = "gather" => /\ succeeded /\ ~inbound.stream
                                 /\ ~converted => status = 200
           /\ mode = "stream" => ~converted /\ inbound.stream /\ inbound.route # "models"
           /\ mode = "copy" => /\ ~converted /\ ~inbound.stream
                               /\ status = 200 => inbound.route # "models" /\ ~answer.sse
<1>1. inbound.route \in {"models", "chat", "responses"} /\ inbound.stream \in BOOLEAN
      /\ (inbound.route = "models" => ~inbound.stream)
  BY DEF Inbounds
<1>2. CASE converted
  <2>1. mode = IF ~succeeded THEN "error" ELSE IF inbound.stream THEN "convert" ELSE "gather"
    BY <1>1, <1>2 DEF mode, converted
  <2> QED  BY <1>1, <1>2, <2>1
<1>3. CASE ~converted /\ inbound.route = "models"
  <2>1. mode = IF status = 200 THEN "gather" ELSE "copy"
    BY <1>1, <1>3 DEF mode, converted
  <2> QED  BY <1>1, <1>3, <2>1 DEF succeeded
<1>4. CASE ~converted /\ inbound.route # "models" /\ inbound.stream
  <2>1. mode = "stream"
    BY <1>1, <1>4 DEF mode, converted
  <2> QED  BY <1>1, <1>4, <2>1
<1>5. CASE ~converted /\ inbound.route # "models" /\ ~inbound.stream
  <2>1. mode = IF status = 200 /\ answer.sse THEN "gather" ELSE "copy"
    BY <1>1, <1>5 DEF mode, converted
  <2> QED  BY <1>1, <1>5, <2>1 DEF succeeded
<1> QED  BY <1>2, <1>3, <1>4, <1>5

-----------------------------------------------------------------------------
(* The steps of the call.                                                    *)

\* Whatever the gateway does, the call makes one of its own steps or none.
LEMMA CallMoves ==
    ASSUME [GatewayNext]_allVars
    PROVE  \/ NewRequest \/ UpstreamBreaks \/ Accept \/ Discard \/ TimerFires \/ WaitCancelled
           \/ \E code \in Statuses \cup {429} : UpstreamAnswers(code)
           \/ Relay \/ ReportError \/ ClientLeaves \/ Tick \/ UNCHANGED vars
<1> USE DEF allVars
<1>1. CASE GatewayHandler
  BY <1>1 DEF GatewayHandler, Check, Call, ReceiveAnswer, ReportFailure, WriteHead,
              WriteReturns, ContextEndsBody, breaksOff, ReturnFromHandler, ContextEnds
<1>2. CASE GatewayUpstream
  BY <1>2 DEF GatewayUpstream, UpstreamMoves, Upstream, ReadPart, BodyEnds, BodyBreaks, breaksOff
<1>3. CASE GatewayClientLeaves \/ ClientStalls \/ GatewayTick \/ GatewayDone \/ UNCHANGED allVars
  BY <1>3 DEF GatewayClientLeaves, ClientStalls, GatewayTick, GatewayDone
<1> QED  BY <1>1, <1>2, <1>3 DEF GatewayNext

\* The call keeps its invariant.
LEMMA CallStep ==
    ASSUME CallInv, [GatewayNext]_allVars
    PROVE  CallInv'
<1> USE CallAssumption DEF CallInv, Places, historyVars
<1>1. CASE NewRequest
  BY <1>1 DEF NewRequest, readerStart
<1>2. CASE UpstreamBreaks
  BY <1>2 DEF UpstreamBreaks
<1>3. CASE Accept
  BY <1>3 DEF Accept
<1>4. CASE Discard
  BY <1>4 DEF Discard, retryable
<1>5. CASE TimerFires
  BY <1>5 DEF TimerFires
<1>6. CASE WaitCancelled
  BY <1>6 DEF WaitCancelled
<1>7. ASSUME NEW code \in Statuses \cup {429}, UpstreamAnswers(code) PROVE CallInv'
  <2>1. code \in Nat \ {0} /\ offset = 0
    BY <1>7 DEF UpstreamAnswers
  <2>2. code = 200 => received' = 1..BodySize
    BY <1>7, <2>1 DEF UpstreamAnswers
  <2> QED  BY <1>7, <2>1, <2>2 DEF UpstreamAnswers
<1>8. CASE Relay
  BY <1>8 DEF Relay
<1>9. CASE ReportError
  BY <1>9 DEF ReportError
<1>10. CASE ClientLeaves
  BY <1>10 DEF ClientLeaves
<1>11. CASE Tick
  BY <1>11 DEF Tick
<1>12. CASE UNCHANGED vars
  BY <1>12 DEF vars
<1> QED
  BY <1>1, <1>2, <1>3, <1>4, <1>5, <1>6, <1>7, <1>8, <1>9, <1>10, <1>11, <1>12, CallMoves

\* Time only adds to a pause that is kept.
LEMMA PauseKept ==
    ASSUME NEW from \in Nat, NEW now \in Nat, from <= now, NEW n \in Nat
    PROVE  /\ now + 2 ^ n * RetryDelay \in Int
           /\ now + 2 ^ n * RetryDelay >= from + 2 ^ n * RetryDelay
           /\ 2 ^ ((n + 1) - 1) * RetryDelay = 2 ^ n * RetryDelay
           /\ \A end \in Int : end >= from + 2 ^ n * RetryDelay /\ now >= end =>
                  now >= from + 2 ^ n * RetryDelay
<1> USE CallAssumption
<1> DEFINE X == 2 ^ n * RetryDelay
<1>1. X \in Int
  OBVIOUS
<1>2. (n + 1) - 1 = n
  OBVIOUS
<1> HIDE DEF X
<1>3. /\ now + X \in Int /\ now + X >= from + X
      /\ \A end \in Int : end >= from + X /\ now >= end => now >= from + X
  BY <1>1
<1> QED  BY <1>2, <1>3 DEF X

\* Attempts are counted, and no pause is cut short.
LEMMA BackoffStep ==
    ASSUME CallInv, BackoffInv, [GatewayNext]_allVars
    PROVE  BackoffInv'
<1> USE CallAssumption DEF CallInv, Places, BackoffInv, historyVars
<1>1. CASE NewRequest
  BY <1>1 DEF NewRequest
<1>2. CASE UpstreamBreaks
  BY <1>2 DEF UpstreamBreaks
<1>3. CASE Accept
  BY <1>3 DEF Accept, retryable
<1>4. CASE Discard
  BY <1>4, PauseKept DEF Discard, retryable, backoff
<1>5. CASE TimerFires
  BY <1>5, PauseKept DEF TimerFires
<1>6. CASE WaitCancelled
  BY <1>6 DEF WaitCancelled
<1>7. CASE \E code \in Statuses \cup {429} : UpstreamAnswers(code)
  BY <1>7 DEF UpstreamAnswers
<1>8. CASE Relay
  BY <1>8 DEF Relay
<1>9. CASE ReportError
  BY <1>9 DEF ReportError, errorReply
<1>10. CASE ClientLeaves
  BY <1>10 DEF ClientLeaves
<1>11. CASE Tick
  BY <1>11 DEF Tick
<1>12. CASE UNCHANGED vars
  BY <1>12 DEF vars
<1> QED
  BY <1>1, <1>2, <1>3, <1>4, <1>5, <1>6, <1>7, <1>8, <1>9, <1>10, <1>11, <1>12, CallMoves

-----------------------------------------------------------------------------
(* The steps of the handler.                                                 *)

\* A read that fails: the answer is over, and what the client gets of it
\* depends on the mode.
LEMMA BreakFacts ==
    ASSUME inbound \in Inbounds, status \in Nat, breaksOff
    PROVE  /\ step = "answer" /\ step' = "return" /\ cut' = TRUE
           /\ UNCHANGED <<vars, inbound, flaws, answer, left>>
           /\ mode \in {"gather", "error"} \/ out.status # 0
           /\ mode = "gather" => out' = gatheredCut
           /\ mode = "error" => out' = jsonAnswer(errorStatus)
           /\ mode = "convert" => out' = failedConversion
           /\ passesOn => out' = [out EXCEPT !.end = "ended"]
<1>1. mode \in {"error", "convert", "gather", "stream", "copy"}
  BY ModeFacts
<1>2. CASE mode = "gather"
  BY <1>2 DEF breaksOff, reading, Return, passesOn
<1>3. CASE mode = "error"
  BY <1>3 DEF breaksOff, reading, Return, passesOn
<1>4. CASE mode = "convert"
  BY <1>4 DEF breaksOff, reading, Return, passesOn
<1>5. CASE mode \in {"stream", "copy"}
  BY <1>5 DEF breaksOff, reading, Return, passesOn
<1> QED  BY <1>1, <1>2, <1>3, <1>4, <1>5

\* The end of a body that was read whole.
LEMMA EndFacts ==
    ASSUME inbound \in Inbounds, status \in Nat, BodyEnds
    PROVE  /\ step = "answer" /\ step' = "return"
           /\ UNCHANGED <<vars, inbound, flaws, answer, left, cut>>
           /\ mode \in {"gather", "error"} \/ out.status # 0
           /\ mode = "gather" => out' = gathered
           /\ mode = "error" => out' = jsonAnswer(errorStatus)
           /\ mode = "convert" =>
                 out' = IF answer.sound THEN [out EXCEPT !.end = "whole"] ELSE failedConversion
           /\ passesOn => out' = [out EXCEPT !.end = "ended"]
<1>1. mode \in {"error", "convert", "gather", "stream", "copy"}
  BY ModeFacts
<1>2. CASE mode = "gather"
  BY <1>2 DEF BodyEnds, reading, Return, passesOn
<1>3. CASE mode = "error"
  BY <1>3 DEF BodyEnds, reading, Return, passesOn
<1>4. CASE mode = "convert"
  BY <1>4 DEF BodyEnds, reading, Return, passesOn
<1>5. CASE mode \in {"stream", "copy"}
  BY <1>5 DEF BodyEnds, reading, Return, passesOn
<1> QED  BY <1>1, <1>2, <1>3, <1>4, <1>5

\* A check that finds nothing moves on with one flaw less to fear.
LEMMA CheckPasses ==
    ASSUME RequestInv, NEW k \in 1..5, Check(k)
    PROVE  RequestInv' /\ step \in Before
<1> USE DEF RequestInv, Check, stepsBefore, flawFound, Flaws, Before
<1>1. CASE k = 1
  BY <1>1
<1>2. CASE k = 2
  BY <1>2
<1>3. CASE k = 3
  BY <1>3
<1>4. CASE k = 4
  BY <1>4
<1>5. CASE k = 5
  BY <1>5
<1> QED  BY <1>1, <1>2, <1>3, <1>4, <1>5

\* A request is called for, answered and returned from only without a flaw.
LEMMA RequestStep ==
    ASSUME CallInv, RequestInv, [GatewayNext]_allVars
    PROVE  RequestInv'
<1> USE DEF RequestInv, Before
<1>0. status \in Nat
  BY CallAssumption DEF CallInv
<1>1. CASE GatewayHandler
  <2>1. CASE \E k \in 1..5 : Check(k)
    BY <2>1, CheckPasses
  <2>2. CASE Call
    BY <2>2 DEF Call, gatewayVars
  <2>3. CASE ReceiveAnswer \/ ReportFailure
    BY <2>3 DEF ReceiveAnswer, ReportFailure
  <2>4. CASE WriteHead \/ WriteReturns \/ ReturnFromHandler
    BY <2>4 DEF WriteHead, WriteReturns, ReturnFromHandler
  <2>5. CASE ContextEndsBody
    BY <1>0, <2>5, BreakFacts DEF ContextEndsBody
  <2> QED  BY <1>1, <2>1, <2>2, <2>3, <2>4, <2>5 DEF GatewayHandler
<1>2. CASE GatewayUpstream
  <2>1. CASE UpstreamMoves
    BY <2>1 DEF UpstreamMoves, gatewayVars
  <2>2. CASE ReadPart
    BY <2>2 DEF ReadPart
  <2>3. CASE BodyEnds
    BY <1>0, <2>3, EndFacts
  <2>4. CASE BodyBreaks
    BY <1>0, <2>4, BreakFacts DEF BodyBreaks
  <2> QED  BY <1>2, <2>1, <2>2, <2>3, <2>4 DEF GatewayUpstream
<1>3. CASE GatewayClientLeaves \/ ClientStalls \/ GatewayTick \/ GatewayDone \/ UNCHANGED allVars
  BY <1>3 DEF GatewayClientLeaves, ClientStalls, GatewayTick, GatewayDone, gatewayVars, allVars
<1> QED  BY <1>1, <1>2, <1>3 DEF GatewayNext

-----------------------------------------------------------------------------
(* What the client is given.                                                 *)

\* The mode, and what is made of it, is settled with the upstream's answer.
LEMMA ModeStable ==
    ASSUME UNCHANGED <<inbound, status, answer>>
    PROVE  UNCHANGED <<mode, passesOn, succeeded, converted, upstreamType>>
  BY DEF mode, passesOn, succeeded, converted, upstreamType

\* The gateway's own answers.
LEMMA OwnAnswers ==
    /\ Nothing \in Outs /\ Nothing.status = 0
    /\ \A code \in Nat : errorAnswer(code) \in Outs /\ errorAnswer(code).status = code
<1>1. Nothing \in Outs
  BY DEF Nothing, Outs
<1>2. Nothing.status = 0
  BY DEF Nothing
<1>3. ASSUME NEW code \in Nat
      PROVE  errorAnswer(code) \in Outs /\ errorAnswer(code).status = code
  BY DEF errorAnswer, Outs
<1> QED  BY <1>1, <1>2, <1>3

\* A head that fits the mode fits what the client has asked for.
LEMMA HeadFits ==
    ASSUME CallInv, RequestInv, AnswerInv, step = "answer", HeadIsOut
    PROVE  out.status # 0 /\ Fitting
<1>1. inbound \in Inbounds /\ flaws = {} /\ status \in Nat \ {0}
  BY CallAssumption DEF CallInv, RequestInv, AnswerInv
<1>2. CASE mode = "convert"
  BY <1>1, <1>2, ModeFacts DEF HeadIsOut, Fitting
<1>3. CASE mode = "stream"
  <2>1. ~converted /\ inbound.stream /\ inbound.route \in {"chat", "responses"}
    BY <1>1, <1>3, ModeFacts DEF Inbounds
  <2>2. inbound.route = "chat" => out.type = "sse"
    BY <1>3 DEF HeadIsOut
  <2> QED  BY <1>1, <1>3, <2>1, <2>2 DEF HeadIsOut, Fitting
<1>4. CASE mode = "copy"
  <2>1. /\ ~inbound.stream
        /\ status = 200 => inbound.route # "models" /\ ~answer.sse
    BY <1>1, <1>4, ModeFacts
  <2>2. out.type = upstreamType /\ out.status = status
    BY <1>4 DEF HeadIsOut
  <2> QED  BY <1>1, <2>1, <2>2 DEF Fitting, upstreamType
<1> QED  BY <1>2, <1>3, <1>4 DEF HeadIsOut

\* The checks end the request with an error, or move on.
LEMMA CheckAnswers ==
    ASSUME RequestInv, AnswerInv, NEW k \in 1..5, Check(k)
    PROVE  /\ AnswerInv'
           /\ out.status = 0
           /\ step' = "done" /\ ~clientGone => out'.status # 0
<1>1. /\ step \in Before /\ pc = "request" /\ status = 0 /\ reply = 0 /\ out = Nothing /\ ~cut
      /\ UNCHANGED <<pc, status, reply, clientGone, inbound, flaws, answer, left, cut>>
  BY CheckPasses DEF AnswerInv, Check, vars
<1>2. CASE flawFound(k)
  <2>1. step' = "done"
    BY <1>2 DEF Check
  <2>2. <<401, 400, 400, 400, 502>>[k] \in {400, 401, 502}
    OBVIOUS
  <2>3. out' \in {Nothing, errorAnswer(400), errorAnswer(401), errorAnswer(502)}
    BY <1>1, <1>2, <2>2 DEF Check
  <2>4. /\ out'.status # 200 /\ out' \in Outs /\ out.status = 0
        /\ ~clientGone => out'.status # 0
    BY <1>1, <1>2, <2>2, <2>3, OwnAnswers DEF Check
  <2>5. ~succeeded'
    BY <1>1 DEF succeeded
  <2> QED  BY <1>1, <2>1, <2>4, <2>5 DEF AnswerInv, Told, Fitting, Before
<1>3. CASE ~flawFound(k)
  <2>1. step' \in Before \cup {"call"} /\ out' = out
    BY <1>3 DEF Check, stepsBefore, Before
  <2> QED  BY <1>1, <2>1, OwnAnswers DEF AnswerInv, Before
<1> QED  BY <1>2, <1>3

\* A failed call is reported with an error of the gateway's own.
LEMMA FailureAnswers ==
    ASSUME CallInv, AnswerInv, ReportFailure
    PROVE  AnswerInv' /\ (~clientGone => out'.status # 0)
<1>1. /\ step' = "done" /\ pc' = "returned" /\ reply' = errorReply /\ out = Nothing
      /\ UNCHANGED <<status, clientGone, inbound, flaws, answer, left, cut>>
  BY DEF ReportFailure, ReportError, AnswerInv
<1>2. errorReply \in {0, 502, 504} /\ (~clientGone => errorReply # 0)
  BY DEF errorReply
<1>3. out' \in {Nothing, errorAnswer(502), errorAnswer(504)} /\ (~clientGone => out' # Nothing)
  BY <1>1, <1>2 DEF ReportFailure, Nothing, errorAnswer
<1>4. out'.status # 200 /\ out' \in Outs
      /\ (~clientGone => out'.status # 0)
  BY <1>3, OwnAnswers
<1>5. reply' = status' => ~succeeded'
  BY <1>1, <1>2 DEF succeeded
<1> QED  BY <1>1, <1>4, <1>5 DEF AnswerInv, Told, Fitting, Before

\* The head goes out once, and says what the mode wants it to.
LEMMA HeadAnswers ==
    ASSUME CallInv, RequestInv, AnswerInv, WriteHead
    PROVE  AnswerInv'
<1>1. /\ step = "answer" /\ step' = "answer" /\ out = Nothing
      /\ mode \in {"convert", "stream", "copy"}
      /\ UNCHANGED <<pc, status, reply, clientGone, inbound, flaws, answer, left, cut>>
  BY CallAssumption DEF WriteHead, vars, AnswerInv, CallInv, HeadIsOut
<1>2. UNCHANGED <<mode, upstreamType>>
  BY <1>1, ModeStable
<1>3. /\ out'.status = (IF mode = "convert" THEN 200 ELSE status)
      /\ out'.type = (IF mode = "copy" \/ (mode = "stream" /\ inbound.route # "chat")
                      THEN upstreamType ELSE "sse")
      /\ out'.end = "none" /\ out' \in Outs
  <2> DEFINE code == IF mode = "convert" THEN 200 ELSE status
             type == IF mode = "copy" \/ (mode = "stream" /\ inbound.route # "chat")
                     THEN upstreamType ELSE "sse"
  <2>1. code \in Nat /\ type \in {"json", "sse"}
    BY CallAssumption DEF CallInv, upstreamType
  <2>2. out \in Outs /\ out.end = "none"
    BY <1>1, OwnAnswers DEF Nothing
  <2>3. out' = [out EXCEPT !.status = code, !.type = type]
    BY DEF WriteHead
  <2> HIDE DEF code, type
  <2>4. out'.status = code /\ out'.type = type /\ out'.end = "none" /\ out' \in Outs
    BY <2>1, <2>2, <2>3 DEF Outs
  <2> QED  BY <2>4 DEF code, type
<1>4. HeadIsOut'
  BY <1>1, <1>2, <1>3 DEF HeadIsOut
<1> QED  BY <1>1, <1>3, <1>4 DEF AnswerInv, Before

\* The last word of an answer.
LEMMA LastWord ==
    ASSUME AnswerInv, step = "answer", step' = "return", cut' \in BOOLEAN, out' \in Outs,
           UNCHANGED <<pc, status, reply, clientGone, inbound, flaws, answer, left>>,
           clientGone \/ out'.status # 0, Told', Fitting'
    PROVE  AnswerInv'
  BY DEF AnswerInv, Before

\* With the head the answer stays what was asked for.
LEMMA SameHead ==
    ASSUME Fitting, UNCHANGED <<inbound, flaws, answer>>,
           out'.status = out.status, out'.type = out.type
    PROVE  Fitting'
  BY DEF Fitting, converted

\* An answer that is one JSON object.
LEMMA JsonAnswers ==
    ASSUME out \in Outs, NEW code \in Nat
    PROVE  /\ jsonAnswer(code) \in Outs
           /\ jsonAnswer(code).status = code /\ jsonAnswer(code).type = "json"
           /\ jsonAnswer(code).end = "whole" /\ jsonAnswer(code).parts = out.parts
  BY DEF jsonAnswer, Outs

\* An answer that comes to its end.
LEMMA EndedAnswers ==
    ASSUME out \in Outs, NEW end \in {"whole", "failed", "ended"}
    PROVE  /\ [out EXCEPT !.end = end] \in Outs
           /\ [out EXCEPT !.end = end].status = out.status
           /\ [out EXCEPT !.end = end].type = out.type
           /\ [out EXCEPT !.end = end].parts = out.parts
           /\ [out EXCEPT !.end = end].end = end
  BY DEF Outs

\* A part of the body, read for later or passed on.
LEMMA PartAnswers ==
    ASSUME CallInv, RequestInv, AnswerInv, ReadPart
    PROVE  /\ AnswerInv'
           /\ out'.status = out.status /\ out'.type = out.type /\ out'.parts >= out.parts
<1>1. /\ step = "answer" /\ left' \in Nat /\ out \in Outs /\ out.parts \in Nat
      /\ pc = "relay" /\ ~cut
      /\ UNCHANGED <<pc, status, reply, clientGone, inbound, flaws, step, answer, cut>>
      /\ mode \in {"gather", "error"} \/ out.status # 0
  BY DEF ReadPart, reading, vars, AnswerInv, Outs
<1>2. UNCHANGED <<mode, passesOn, succeeded, converted, upstreamType>>
  BY <1>1, ModeStable
<1>3. CASE UNCHANGED out
  <2>1. HeadIsOut => HeadIsOut'
    BY <1>1, <1>2, <1>3 DEF HeadIsOut
  <2> QED  BY <1>1, <1>3, <2>1 DEF AnswerInv, Before
<1>4. CASE passesOn /\ out' = [out EXCEPT !.parts = @ + 1]
  <2>1. HeadIsOut
    BY <1>1, <1>4, OwnAnswers DEF AnswerInv, passesOn
  <2>2. /\ out' \in Outs /\ out'.status = out.status /\ out'.type = out.type /\ out'.end = out.end
        /\ out'.parts = out.parts + 1
    BY <1>1, <1>4 DEF Outs
  <2>3. HeadIsOut'
    BY <1>1, <1>2, <2>1, <2>2 DEF HeadIsOut
  <2> QED  BY <1>1, <1>4, <2>2, <2>3 DEF AnswerInv, Before
<1> QED  BY <1>3, <1>4 DEF ReadPart

\* A write that returns changes nothing that was written, and one that fails
\* ends the answer of a client that has left.
LEMMA WriteAnswers ==
    ASSUME CallInv, RequestInv, AnswerInv, WriteReturns
    PROVE  /\ AnswerInv'
           /\ out'.status = out.status /\ out'.type = out.type /\ out'.parts >= out.parts
<1>1. /\ out \in Outs /\ out.parts \in Nat
      /\ UNCHANGED <<pc, status, reply, clientGone, inbound, flaws, answer, left, cut>>
  BY DEF WriteReturns, vars, AnswerInv, Outs
<1>2. UNCHANGED <<mode, passesOn, succeeded, converted, upstreamType>>
  BY <1>1, ModeStable
<1>3. CASE UNCHANGED <<step, out>>
  <2>1. (HeadIsOut => HeadIsOut') /\ (Told => Told') /\ (Fitting => Fitting')
    BY <1>1, <1>2, <1>3 DEF HeadIsOut, Told, Fitting
  <2> QED  BY <1>1, <1>3, <2>1 DEF AnswerInv, Before
<1>4. CASE /\ clientGone /\ step = "answer"
           /\ step' = "return" /\ out' = [out EXCEPT !.end = "ended"]
  <2>1. /\ out' \in Outs /\ out'.status = out.status /\ out'.type = out.type
        /\ out'.parts = out.parts
    BY <1>1, <1>4, EndedAnswers
  <2>2. Fitting
    BY <1>4, OwnAnswers, HeadFits DEF AnswerInv, Fitting
  <2>3. Fitting' /\ Told'
    BY <1>1, <1>4, <2>1, <2>2, SameHead DEF Told
  <2> QED  BY <1>1, <1>4, <2>1, <2>3 DEF AnswerInv, Before
<1> QED  BY <1>3, <1>4 DEF WriteReturns

\* Where the body is read before anything is said, nothing has been said.
LEMMA ReadingFirst ==
    ASSUME CallInv, RequestInv, AnswerInv, step = "answer",
           mode \in {"gather", "error"} \/ out.status # 0
    PROVE  /\ mode \in {"gather", "error"} => out = Nothing
           /\ mode \notin {"gather", "error"} => HeadIsOut /\ Fitting
  BY OwnAnswers, HeadFits DEF AnswerInv, HeadIsOut

\* A body that breaks off is told, unless it is passed on.
LEMMA BreakAnswers ==
    ASSUME CallInv, RequestInv, AnswerInv, breaksOff
    PROVE  /\ AnswerInv'
           /\ out.status # 0 => /\ out'.status = out.status /\ out'.type = out.type
                                /\ out'.parts >= out.parts
<1>1. inbound \in Inbounds /\ status \in Nat /\ out \in Outs /\ out.parts \in Nat
  BY CallAssumption DEF CallInv, RequestInv, AnswerInv, Outs
<1>2. /\ step = "answer" /\ step' = "return" /\ cut' = TRUE
      /\ UNCHANGED <<pc, status, reply, clientGone, inbound, flaws, answer, left>>
      /\ mode \in {"gather", "error"} \/ out.status # 0
  BY <1>1, BreakFacts DEF vars
<1>3. UNCHANGED <<mode, passesOn, succeeded, converted, upstreamType>>
  BY <1>2, ModeStable
<1>4. CASE mode = "gather"
  <2>1. out = Nothing /\ ((clientGone /\ out' = out) \/ out' = jsonAnswer(502))
    BY <1>1, <1>2, <1>4, BreakFacts, ReadingFirst DEF gatheredCut
  <2>2. /\ out' \in Outs /\ out'.status # 200 /\ out.status = 0
        /\ clientGone \/ out'.status # 0
    BY <1>1, <2>1, JsonAnswers, OwnAnswers
  <2>3. Told' /\ Fitting'
    BY <1>2, <2>2 DEF Told, Fitting
  <2> QED  BY <1>2, <2>2, <2>3, LastWord
<1>5. CASE mode = "error"
  <2>1. errorStatus \in Nat \ {0, 200} /\ ~succeeded
    BY <1>1, <1>5, ModeFacts DEF errorStatus
  <2>2. out' \in Outs /\ out'.status \notin {0, 200} /\ out.status = 0
    BY <1>1, <1>2, <1>5, <2>1, BreakFacts, ReadingFirst, JsonAnswers, OwnAnswers
  <2>3. Told' /\ Fitting'
    BY <1>3, <2>1, <2>2 DEF Told, Fitting
  <2> QED  BY <1>2, <2>2, <2>3, LastWord
<1>6. CASE mode = "convert" \/ passesOn
  <2>1. HeadIsOut /\ Fitting /\ out.status # 0
    BY <1>2, <1>6, ReadingFirst DEF passesOn
  <2>2. out' = [out EXCEPT !.end = "failed"] \/ (passesOn /\ out' = [out EXCEPT !.end = "ended"])
    BY <1>1, <1>6, BreakFacts DEF failedConversion
  <2>3. /\ out' \in Outs /\ out'.status = out.status /\ out'.type = out.type
        /\ out'.parts = out.parts /\ (passesOn \/ out'.end = "failed")
    BY <1>1, <2>2, EndedAnswers
  <2>4. Told'
    BY <1>2, <1>3, <2>3 DEF Told
  <2>5. Fitting'
    BY <1>2, <2>1, <2>3, SameHead
  <2> QED  BY <1>1, <1>2, <2>1, <2>3, <2>4, <2>5, LastWord
<1> QED  BY <1>1, <1>4, <1>5, <1>6, ModeFacts DEF passesOn

\* A whole body becomes a whole answer, if it can be converted.
LEMMA EndAnswers ==
    ASSUME CallInv, RequestInv, AnswerInv, BodyEnds
    PROVE  /\ AnswerInv'
           /\ out.status # 0 => /\ out'.status = out.status /\ out'.type = out.type
                                /\ out'.parts >= out.parts
<1>1. /\ inbound \in Inbounds /\ status \in Nat /\ flaws = {} /\ out \in Outs /\ out.parts \in Nat
      /\ answer \in [sse : BOOLEAN, sound : BOOLEAN] /\ step = "answer"
      /\ cut \in BOOLEAN /\ ~cut
  BY EndFacts, CallAssumption DEF CallInv, RequestInv, AnswerInv, Outs
<1>2. /\ step' = "return" /\ cut' = cut
      /\ UNCHANGED <<pc, status, reply, clientGone, inbound, flaws, answer, left>>
      /\ mode \in {"gather", "error"} \/ out.status # 0
  BY <1>1, EndFacts DEF vars
<1>3. UNCHANGED <<mode, passesOn, succeeded, converted, upstreamType>>
  BY <1>2, ModeStable
<1>4. CASE mode = "gather"
  <2>1. out' = gathered /\ out = Nothing /\ ~inbound.stream
    BY <1>1, <1>2, <1>4, EndFacts, ReadingFirst, ModeFacts
  <2>2. CASE inbound.route = "models"
    <3>1. /\ modelList \in Outs /\ modelList.status = 200 /\ modelList.end = "whole"
          /\ answer.sound => modelList.type = "json"
      <4>1. PICK list \in Outs : /\ list = jsonAnswer(200) /\ list.status = 200
                                  /\ list.end = "whole" /\ list.type = "json"
        BY <1>1, JsonAnswers
      <4>2. modelList = [list EXCEPT !.type = IF answer.sound THEN "json" ELSE upstreamType]
        BY <4>1 DEF modelList
      <4>3. upstreamType \in {"sse", "json"}
        BY DEF upstreamType
      <4> QED  BY <4>1, <4>2, <4>3 DEF Outs
    <3>2. Told' /\ Fitting'
      BY <1>1, <1>2, <2>1, <2>2, <3>1 DEF gathered, Told, Fitting
    <3> QED  BY <1>1, <1>2, <2>1, <2>2, <3>1, <3>2, LastWord, OwnAnswers DEF gathered
  <2>3. CASE inbound.route # "models" /\ answer.sound
    <3>1. /\ out' \in Outs /\ out'.status = 200 /\ out'.end = "whole" /\ out'.type = "json"
      BY <1>1, <2>1, <2>3, JsonAnswers DEF gathered
    <3>2. Told' /\ Fitting'
      BY <1>1, <1>2, <2>1, <2>3, <3>1 DEF Told, Fitting
    <3> QED  BY <1>1, <1>2, <2>1, <3>1, <3>2, LastWord, OwnAnswers
  <2>4. CASE inbound.route # "models" /\ ~answer.sound
    <3>1. out' \in Outs /\ out'.status = 502
      BY <1>1, <2>1, <2>4, JsonAnswers DEF gathered
    <3>2. Told' /\ Fitting'
      BY <1>1, <1>2, <2>4, <3>1 DEF Told, Fitting
    <3> QED  BY <1>1, <1>2, <2>1, <3>1, <3>2, LastWord, OwnAnswers
  <2> QED  BY <2>2, <2>3, <2>4
<1>5. CASE mode = "error"
  <2>1. errorStatus \in Nat \ {0, 200} /\ ~succeeded
    BY <1>1, <1>5, ModeFacts DEF errorStatus
  <2>2. out' \in Outs /\ out'.status \notin {0, 200} /\ out.status = 0
    BY <1>1, <1>2, <1>5, <2>1, EndFacts, ReadingFirst, JsonAnswers, OwnAnswers
  <2>3. Told' /\ Fitting'
    BY <1>3, <2>1, <2>2 DEF Told, Fitting
  <2> QED  BY <1>1, <1>2, <2>2, <2>3, LastWord
<1>6. CASE mode = "convert" \/ passesOn
  <2>1. HeadIsOut /\ Fitting /\ out.status # 0
    BY <1>1, <1>2, <1>6, ReadingFirst DEF passesOn
  <2>2. \E end \in {"whole", "failed", "ended"} :
           /\ out' = [out EXCEPT !.end = end]
           /\ ~passesOn => (end = "whole" <=> answer.sound)
    BY <1>1, <1>6, EndFacts DEF failedConversion
  <2>3. /\ out' \in Outs /\ out'.status = out.status /\ out'.type = out.type
        /\ out'.parts = out.parts /\ (~passesOn => (out'.end = "whole" <=> answer.sound))
    BY <1>1, <2>2, EndedAnswers
  <2>4. ~passesOn => out.status = 200 /\ inbound.route # "models"
    BY <1>1, <1>6, <2>1, ModeFacts DEF HeadIsOut, passesOn, converted
  <2>5. Told'
    BY <1>1, <1>2, <1>3, <2>3, <2>4 DEF Told
  <2>6. Fitting'
    BY <1>2, <2>1, <2>3, SameHead
  <2> QED  BY <1>1, <1>2, <2>1, <2>3, <2>5, <2>6, LastWord
<1> QED  BY <1>1, <1>4, <1>5, <1>6, ModeFacts DEF passesOn

-----------------------------------------------------------------------------
(* All steps together.                                                       *)

\* What no step may do to a head that is out, and what the last one owes.
HeadKept == /\ out.status # 0 => /\ out'.status = out.status /\ out'.type = out.type
                                 /\ out'.parts >= out.parts
            /\ step' = "done" /\ step # "done" /\ ~clientGone => out'.status # 0

\* What the call does before its answer is there shows nothing to the client.
LEMMA CallAnswers ==
    ASSUME AnswerInv, Call \/ UpstreamMoves
    PROVE  AnswerInv' /\ HeadKept
<1>1. step = "call" /\ out = Nothing /\ ~cut /\ pc' \notin {"relay", "returned"}
      /\ UNCHANGED gatewayVars
  BY DEF AnswerInv, Call, UpstreamMoves, Upstream, UpstreamBreaks, UpstreamAnswers,
         ContextEnds, NewRequest, Discard, TimerFires, WaitCancelled
<1> QED  BY <1>1, OwnAnswers DEF AnswerInv, HeadKept, Before, gatewayVars

\* The answer arrives, and nothing of it is out yet.
LEMMA ReceiveAnswers ==
    ASSUME AnswerInv, ReceiveAnswer
    PROVE  AnswerInv' /\ HeadKept
<1>1. /\ step = "call" /\ step' = "answer" /\ out = Nothing /\ ~cut /\ pc' = "relay"
      /\ UNCHANGED <<out, cut>> /\ answer' \in [sse : BOOLEAN, sound : BOOLEAN]
      /\ left' \in Nat
  BY BodyAssumption DEF AnswerInv, ReceiveAnswer, Accept
<1> QED  BY <1>1, OwnAnswers DEF AnswerInv, HeadKept, Before

\* The handler comes back with what it has written.
LEMMA ReturnAnswers ==
    ASSUME AnswerInv, ReturnFromHandler
    PROVE  AnswerInv' /\ HeadKept
<1>1. /\ step = "return" /\ step' = "done" /\ pc' = "returned"
      /\ clientGone \/ out.status # 0
      /\ Told /\ Fitting /\ out \in Outs
      /\ UNCHANGED <<status, clientGone, inbound, flaws, answer, left, out, cut>>
  BY DEF AnswerInv, ReturnFromHandler, Relay
<1>2. UNCHANGED <<passesOn, succeeded, converted>>
  BY <1>1, ModeStable
<1>3. Told' /\ Fitting'
  BY <1>1, <1>2 DEF Told, Fitting
<1> QED  BY <1>1, <1>3 DEF AnswerInv, HeadKept, Outs, Before

\* Time and what the client does change nothing that was written.
LEMMA OutsideAnswers ==
    ASSUME AnswerInv,
           GatewayClientLeaves \/ ClientStalls \/ GatewayTick \/ GatewayDone \/ UNCHANGED allVars
    PROVE  AnswerInv' /\ HeadKept
<1>1. /\ UNCHANGED <<pc, status, reply, inbound, flaws, step, answer, left, out, cut>>
      /\ clientGone' = clientGone \/ clientGone' = TRUE
  BY DEF GatewayClientLeaves, ClientStalls, GatewayTick, GatewayDone, ClientLeaves, Tick, allVars,
         vars, gatewayVars
<1>2. UNCHANGED <<mode, passesOn, succeeded, converted, upstreamType>>
  BY <1>1, ModeStable
<1>3. (Told => Told') /\ (Fitting => Fitting') /\ (HeadIsOut => HeadIsOut')
  BY <1>1, <1>2 DEF Told, Fitting, HeadIsOut
<1> QED  BY <1>1, <1>3 DEF AnswerInv, HeadKept, Outs, Before

\* Every step keeps the promise to the client.
LEMMA AnswerStep ==
    ASSUME IInv, [GatewayNext]_allVars
    PROVE  AnswerInv' /\ HeadKept
<1> USE DEF IInv
<1>1. CASE \E k \in 1..5 : Check(k)
  BY <1>1, CheckAnswers DEF HeadKept
<1>2. CASE Call \/ UpstreamMoves
  BY <1>2, CallAnswers
<1>3. CASE ReceiveAnswer
  BY <1>3, ReceiveAnswers
<1>4. CASE ReportFailure
  <2>1. out.status = 0
    BY <1>4, OwnAnswers DEF ReportFailure, AnswerInv
  <2> QED  BY <1>4, <2>1, FailureAnswers DEF HeadKept
<1>5. CASE WriteHead
  <2>1. out.status = 0 /\ step' = "answer"
    BY <1>5 DEF WriteHead
  <2> QED  BY <1>5, <2>1, HeadAnswers DEF HeadKept
<1>6. CASE ReadPart
  <2>1. step' # "done"
    BY <1>6 DEF ReadPart, reading
  <2> QED  BY <1>6, <2>1, PartAnswers DEF HeadKept
<1>7. CASE BodyBreaks \/ ContextEndsBody
  <2>1. breaksOff
    BY <1>7 DEF BodyBreaks, ContextEndsBody
  <2>2. inbound \in Inbounds /\ status \in Nat
    BY CallAssumption DEF CallInv, RequestInv
  <2>3. step' = "return"
    BY <2>1, <2>2, BreakFacts
  <2> QED  BY <2>1, <2>3, BreakAnswers DEF HeadKept
<1>8. CASE BodyEnds
  <2>1. inbound \in Inbounds /\ status \in Nat
    BY CallAssumption DEF CallInv, RequestInv
  <2>2. step' = "return"
    BY <1>8, <2>1, EndFacts
  <2> QED  BY <1>8, <2>2, EndAnswers DEF HeadKept
<1>9. CASE ReturnFromHandler
  BY <1>9, ReturnAnswers
<1>10. CASE GatewayClientLeaves \/ ClientStalls \/ GatewayTick \/ GatewayDone \/ UNCHANGED allVars
  BY <1>10, OutsideAnswers
<1>11. CASE WriteReturns
  <2>1. step' = "done" => step = "done"
    BY <1>11 DEF WriteReturns
  <2> QED  BY <1>11, <2>1, WriteAnswers DEF HeadKept
<1> QED
  BY <1>1, <1>2, <1>3, <1>4, <1>5, <1>6, <1>7, <1>8, <1>9, <1>10, <1>11
  DEF GatewayNext, GatewayHandler, GatewayUpstream

\* Every request starts with nothing said and nothing sent.
LEMMA Initially ==
    ASSUME GatewayInit
    PROVE  IInv
<1>1. CallInv
  <2>1. /\ clock = 0 /\ pc = "request" /\ offset = 0 /\ status = 0 /\ clientGone = FALSE
        /\ open = {}
    BY DEF GatewayInit, Init
  <2>2. 0 \in Nat /\ 0 # 200 /\ status \in Statuses \cup {0, 429}
    BY <2>1
  <2>3. pc \in Places /\ pc \notin {"answered", "relay"}
    BY <2>1 DEF Places
  <2> QED  BY <2>1, <2>2, <2>3 DEF CallInv
<1>2. BackoffInv
  BY CallAssumption DEF GatewayInit, Init, BackoffInv
<1>3. RequestInv
  <2>1. possibleFlaws(inbound) \subseteq Flaws
    BY DEF possibleFlaws, Flaws
  <2> QED  BY <2>1 DEF GatewayInit, RequestInv, Before
<1>4. AnswerInv
  BY OwnAnswers DEF GatewayInit, Init, AnswerInv, Before
<1> QED  BY <1>1, <1>2, <1>3, <1>4 DEF IInv

\* The invariant holds in every state of every request.
THEOREM Invariant == GatewaySpec => []IInv
<1>1. GatewayInit => IInv
  BY Initially
<1>2. IInv /\ [GatewayNext]_allVars => IInv'
  BY CallStep, BackoffStep, RequestStep, AnswerStep DEF IInv
<1> QED  BY <1>1, <1>2, PTL DEF GatewaySpec

-----------------------------------------------------------------------------
(* The properties.                                                           *)

\* No response body outlives the handler or the attempt it answers, however
\* many retries there are (client.go:174-199, the deferred Close of server.go).
THEOREM BodiesAreClosed == GatewaySpec => []BodiesClosed
<1>1. IInv => BodiesClosed
  BY DEF IInv, CallInv, BodiesClosed
<1> QED  BY <1>1, Invariant, PTL

\* A retry answers the whole request: no attempt goes on where another has
\* stopped reading the body (client.go:157).
THEOREM WholeRequest == GatewaySpec => []AnswersWholeRequest
<1>1. IInv => AnswersWholeRequest
  BY DEF IInv, CallInv, AnswersWholeRequest
<1> QED  BY <1>1, Invariant, PTL

\* A body that breaks off, or cannot be converted, never becomes an answer
\* that looks whole, wherever in a body of any length it happens
\* (server.go:413, 432, 476).
THEOREM TruncationTold == GatewaySpec => []TruncationIsTold
<1>1. IInv => TruncationIsTold
  BY DEF IInv, AnswerInv, TruncationIsTold, Told
<1> QED  BY <1>1, Invariant, PTL

\* Whatever the upstream sends, a client is served the kind of answer it asked
\* for, and only for a request without a flaw (server.go:318, 349, 413).
THEOREM ServedAsAsked == GatewaySpec => []AsAsked
<1>1. IInv => AsAsked
  BY DEF IInv, AnswerInv, AsAsked, Fitting
<1> QED  BY <1>1, Invariant, PTL

\* One head goes out for every client that stays, and no later failure
\* rewrites it (server.go:322, 355, 432).
THEOREM OneHeadOnly == GatewaySpec => OneHead
<1>1. IInv /\ [GatewayNext]_allVars => HeadKept
  BY AnswerStep
<1> QED  BY <1>1, Invariant, PTL DEF GatewaySpec, OneHead, HeadKept

\* The outcome of a call fits what became of it: one that failed is reported
\* with 504 after the timeout and with 502 before, to a client that stayed with
\* one of them, and no attempt is made for a request that is over.  Of the body
\* of an answer that was accepted it says nothing (client.go:150-200,
\* server.go:writeProviderError).
THEOREM OutcomesFit == GatewaySpec => OutcomeFits
<1> DEFINE Fits == /\ (pc' = "returned" /\ pc # "returned") =>
                         /\ ~clientGone => reply' # 0
                         /\ reply' = 504 => clock >= RequestTimeout
                         /\ reply' = 502 => clock < RequestTimeout
                   /\ sent' # sent => clock < RequestTimeout /\ ~clientGone
<1>1. IInv /\ [GatewayNext]_allVars => [Fits]_vars
  <2> SUFFICES ASSUME CallInv, [GatewayNext]_allVars, ~UNCHANGED vars PROVE Fits
    BY DEF IInv
  <2> USE CallAssumption DEF CallInv, historyVars
  <2>1. CASE NewRequest
    BY <2>1 DEF NewRequest, contextDone, deadlineExceeded
  <2>2. CASE UpstreamBreaks \/ Accept \/ Discard \/ TimerFires \/ WaitCancelled
             \/ ClientLeaves \/ Tick
    BY <2>2 DEF UpstreamBreaks, Accept, Discard, TimerFires, WaitCancelled, ClientLeaves, Tick
  <2>3. CASE \E code \in Statuses \cup {429} : UpstreamAnswers(code)
    BY <2>3 DEF UpstreamAnswers
  <2>4. CASE Relay
    BY <2>4 DEF Relay
  <2>5. CASE ReportError
    BY <2>5 DEF ReportError, errorReply, deadlineExceeded
  <2> QED  BY <2>1, <2>2, <2>3, <2>4, <2>5, CallMoves
<1> QED  BY <1>1, Invariant, PTL DEF GatewaySpec, OutcomeFits

\* However many retries are allowed and however long the delay: each of them
\* waits for its pause after the rate limit it answers, and a client sees a
\* rate limit only after the last (client.go:174-199).
THEOREM BackoffKept == GatewaySpec => BackoffIsKept
<1> DEFINE Kept == /\ sent' # sent /\ attempt > 0 =>
                          clock >= limitedAt + 2 ^ (attempt - 1) * RetryDelay
                   /\ reply' = 429 => sent = MaxRetries + 1
<1>1. IInv /\ [GatewayNext]_allVars => [Kept]_vars
  <2> SUFFICES ASSUME CallInv, BackoffInv, [GatewayNext]_allVars PROVE [Kept]_vars
    BY DEF IInv
  <2> USE CallAssumption DEF CallInv, BackoffInv, historyVars
  <2>1. CASE NewRequest
    BY <2>1 DEF NewRequest
  <2>2. CASE UpstreamBreaks \/ Accept \/ Discard \/ TimerFires \/ WaitCancelled
             \/ ClientLeaves \/ Tick
    BY <2>2 DEF UpstreamBreaks, Accept, Discard, TimerFires, WaitCancelled, ClientLeaves, Tick
  <2>3. CASE \E code \in Statuses \cup {429} : UpstreamAnswers(code)
    BY <2>3 DEF UpstreamAnswers
  <2>4. CASE Relay
    BY <2>4 DEF Relay
  <2>5. CASE ReportError
    BY <2>5 DEF ReportError, errorReply
  <2> QED  BY <2>1, <2>2, <2>3, <2>4, <2>5, CallMoves
<1> QED  BY <1>1, Invariant, PTL DEF GatewaySpec, BackoffIsKept
=============================================================================
