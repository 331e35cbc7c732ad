------------------------ MODULE ServerLifecycleProofs ------------------------
(* How the process ends, for any number of requests and any grace.           *)
EXTENDS ServerLifecycle, TLAPS

-----------------------------------------------------------------------------

\* What the place of the main goroutine says: a signal is handled from the
\* first place on, a shutdown follows a signal, and no request is cut off
\* before the end.
MainInv == /\ main \in {"selecting", "shutdown"} => handled
           /\ main = "shutdown" => signalled /\ inShutdown
           /\ main \in {"installing", "selecting"} => ~inShutdown /\ remaining = Grace
           /\ main # "exited" => \A r \in Requests : requests[r] # "cut"
           /\ serverErrors = "closed" => inShutdown

IInv == TypeOK /\ MainInv /\ ExitsAsItEnded

\* The process can end in any state before the last, and every state is one
\* the properties allow, provided the code fits.
LEMMA ExitStep ==
    ASSUME IInv, main # "exited", NEW code \in {"0", "1", "killed"}, Exit(code),
           code = "0" => signalled /\ Running = {},
           code = "1" => serverErrors = "failed" \/ (signalled /\ remaining = 0)
    PROVE  IInv'
<1>1. TypeOK'
  BY DEF IInv, TypeOK, Exit
<1>2. MainInv'
  BY DEF IInv, TypeOK, MainInv, Exit
<1>3. ExitsAsItEnded'
  <2>1. code = "0" => \A r \in Requests : requests'[r] # "cut"
    <3> SUFFICES ASSUME code = "0", NEW r \in Requests PROVE requests'[r] # "cut"
      OBVIOUS
    <3>1. requests[r] # "running" /\ requests[r] # "cut"
      BY DEF IInv, MainInv, Running
    <3> QED  BY <3>1 DEF Exit
  <2> QED  BY <2>1 DEF IInv, ExitsAsItEnded, Exit
<1> QED  BY <1>1, <1>2, <1>3 DEF IInv

\* The steps that do not end the process.
LEMMA RunningStep ==
    ASSUME IInv, main # "exited",
           \/ Listen \/ ListenFails \/ InstallHandler \/ StartShutdown \/ Tick
           \/ handled /\ Signal
           \/ \E r \in Requests : Accept(r) \/ Complete(r)
    PROVE  IInv' /\ main' # "exited"
<1> USE GraceAssumption DEF IInv, TypeOK, MainInv, ExitsAsItEnded
<1>1. CASE Listen
  BY <1>1 DEF Listen
<1>2. CASE ListenFails
  BY <1>2 DEF ListenFails
<1>3. CASE InstallHandler
  BY <1>3 DEF InstallHandler
<1>4. CASE StartShutdown
  BY <1>4 DEF StartShutdown
<1>5. CASE Tick
  BY <1>5 DEF Tick
<1>6. CASE handled /\ Signal
  BY <1>6 DEF Signal
<1>7. ASSUME NEW r \in Requests, Accept(r) \/ Complete(r)
      PROVE  IInv' /\ main' # "exited"
  <2>1. \E to \in {"running", "answered"} : requests' = [requests EXCEPT ![r] = to]
    BY <1>7 DEF Accept, Complete
  <2>2. /\ requests' \in [Requests -> {"none", "running", "answered", "cut"}]
        /\ \A q \in Requests : requests'[q] # "cut"
    BY <1>7, <2>1 DEF Accept, Complete
  <2> QED  BY <1>7, <2>2 DEF Accept, Complete
<1> QED  BY <1>1, <1>2, <1>3, <1>4, <1>5, <1>6, <1>7

\* Every step keeps the invariant, and one that ends the process of a server
\* that works and handles its signals finds its requests done or out of time.
LEMMA EveryStep ==
    ASSUME IInv, [Next]_vars
    PROVE  /\ IInv'
           /\ handled /\ serverErrors # "failed" /\ main' = "exited" /\ main # "exited" =>
                 \A r \in Requests : requests[r] = "running" => remaining = 0
<1>1. CASE ServerStopped
  BY <1>1, ExitStep DEF ServerStopped
<1>2. CASE Drained
  <2>1. signalled /\ main # "exited"
    BY <1>2 DEF IInv, MainInv, Drained
  <2> QED  BY <1>2, <2>1, ExitStep DEF Drained, Running
<1>3. CASE GraceOver
  <2>1. signalled /\ main # "exited"
    BY <1>3 DEF IInv, MainInv, GraceOver
  <2> QED  BY <1>3, <2>1, ExitStep DEF GraceOver
<1>4. CASE Signal /\ ~handled
  BY <1>4, ExitStep DEF Signal
<1>5. CASE \/ Listen \/ ListenFails \/ InstallHandler \/ StartShutdown \/ Tick
           \/ handled /\ Signal
           \/ \E r \in Requests : Accept(r) \/ Complete(r)
  <2>1. main # "exited"
    BY <1>5 DEF Listen, ListenFails, InstallHandler, StartShutdown, Tick, Signal, Accept, Complete
  <2> QED  BY <1>5, <2>1, RunningStep
<1>6. CASE Exited \/ UNCHANGED vars
  BY <1>6 DEF Exited, vars, IInv, TypeOK, MainInv, ExitsAsItEnded
<1> QED  BY <1>1, <1>2, <1>3, <1>4, <1>5, <1>6 DEF Next, Main

\* The invariant holds from the start of the process to its end.
THEOREM Invariant == Spec => []IInv
<1>1. Init => IInv
  <2> SUFFICES ASSUME Init PROVE IInv
    OBVIOUS
  <2>1. TypeOK
    <3>1. /\ main = "installing" /\ handled = FALSE /\ signalled = FALSE
          /\ listener = "starting" /\ serverErrors = "none"
          /\ inShutdown = FALSE /\ exitCode = "none"
      BY DEF Init
    <3>2. remaining \in 0..Grace
      BY GraceAssumption DEF Init
    <3>3. requests \in [Requests -> {"none", "running", "answered", "cut"}]
      BY DEF Init
    <3> QED  BY <3>1, <3>2, <3>3 DEF TypeOK
  <2>2. MainInv
    BY DEF Init, MainInv
  <2>3. ExitsAsItEnded
    BY DEF Init, ExitsAsItEnded
  <2> QED  BY <2>1, <2>2, <2>3 DEF IInv
<1>2. IInv /\ [Next]_vars => IInv'
  BY EveryStep
<1> QED  BY <1>1, <1>2, PTL DEF Spec

-----------------------------------------------------------------------------

\* The exit code is true whatever signals, requests and failures race for the
\* end of the process (main.go from the select on).
THEOREM ExitCodeIsTrue == Spec => []ExitsAsItEnded
<1>1. IInv => ExitsAsItEnded
  BY DEF IInv
<1> QED  BY <1>1, Invariant, PTL

\* With any number of signals and any grace, a running request keeps all of
\* it unless the server itself has failed (main.go: the signal handler stays
\* installed until main returns).
THEOREM GraceGranted == Spec => GraceIsGranted
<1> DEFINE Granted == handled /\ serverErrors # "failed" /\ main' = "exited" =>
                          \A r \in Requests : requests[r] = "running" => remaining = 0
<1>1. IInv /\ [Next]_vars => [Granted]_vars
  <2> SUFFICES ASSUME IInv, Next, ~UNCHANGED vars PROVE Granted
    OBVIOUS
  <2>1. main # "exited"
    BY DEF Next, Main, Listen, ListenFails, InstallHandler, ServerStopped, StartShutdown,
           Drained, GraceOver, Signal, Tick, Exited, Accept, Complete
  <2> QED  BY <2>1, EveryStep
<1> QED  BY <1>1, Invariant, PTL DEF Spec, GraceIsGranted
=============================================================================
