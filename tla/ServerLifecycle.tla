--------------------------- MODULE ServerLifecycle ---------------------------
(* main (cmd/server/main.go) from the start of the server on: the listening  *)
(* goroutine, the signal handler installed after it, the select between the  *)
(* two, and the graceful shutdown with its ten seconds.  Of a request it is  *)
(* only seen that it runs, for as long as it likes.                          *)
EXTENDS Naturals

CONSTANTS Requests,  \* requests of clients
          Grace      \* what Shutdown is given, in ticks

ASSUME GraceAssumption == Grace \in Nat \ {0}

VARIABLES main,          \* where the main goroutine is
          handled,       \* signal.NotifyContext is installed
          signalled,     \* shutdownContext is done
          listener,      \* the goroutine in ListenAndServe
          serverErrors,  \* what is in the channel of that name
          inShutdown,    \* http.Server.Shutdown has begun
          remaining,     \* of the grace, while it runs
          requests,      \* where each request is
          exitCode       \* of the process

vars == <<main, handled, signalled, listener, serverErrors, inShutdown, remaining, requests,
          exitCode>>

Running == {r \in Requests : requests[r] = "running"}

-----------------------------------------------------------------------------

Init == /\ main = "installing" /\ handled = FALSE /\ signalled = FALSE
        /\ listener = "starting" /\ serverErrors = "none"
        /\ inShutdown = FALSE /\ remaining = Grace
        /\ requests = [r \in Requests |-> "none"]
        /\ exitCode = "none"

\* The process ends and takes with it what still runs.
Exit(code) == /\ main' = "exited"
              /\ exitCode' = code
              /\ requests' = [r \in Requests |->
                                 IF requests[r] = "running" THEN "cut" ELSE requests[r]]
              /\ UNCHANGED <<handled, signalled, listener, serverErrors, inShutdown, remaining>>

\* ListenAndServe: the port is bound, unless Shutdown came first ...
Listen == /\ main # "exited" /\ listener = "starting"
          /\ IF inShutdown
             THEN listener' = "down" /\ serverErrors' = "closed"
             ELSE listener' = "open" /\ UNCHANGED serverErrors
          /\ UNCHANGED <<main, handled, signalled, inShutdown, remaining, requests, exitCode>>

\* ... or cannot be; accepting connections may also fail later.
ListenFails == /\ main # "exited" /\ listener \in {"starting", "open"} /\ ~inShutdown
               /\ listener' = "down"
               /\ serverErrors' = "failed"
               /\ UNCHANGED <<main, handled, signalled, inShutdown, remaining, requests, exitCode>>

Accept(r) == /\ main # "exited" /\ listener = "open" /\ requests[r] = "none"
             /\ requests' = [requests EXCEPT ![r] = "running"]
             /\ UNCHANGED <<main, handled, signalled, listener, serverErrors, inShutdown,
                            remaining, exitCode>>

Complete(r) == /\ main # "exited" /\ requests[r] = "running"
               /\ requests' = [requests EXCEPT ![r] = "answered"]
               /\ UNCHANGED <<main, handled, signalled, listener, serverErrors, inShutdown,
                              remaining, exitCode>>

InstallHandler == /\ main = "installing"
                  /\ handled' = TRUE
                  /\ main' = "selecting"
                  /\ UNCHANGED <<signalled, listener, serverErrors, inShutdown, remaining,
                                 requests, exitCode>>

\* Fault: the handler is taken away with the first signal, the next one kills.
SignalOnce == /\ main # "exited"
              /\ IF handled /\ ~signalled
                 THEN /\ signalled' = TRUE
                      /\ UNCHANGED <<main, handled, listener, serverErrors, inShutdown, remaining,
                                     requests, exitCode>>
                 ELSE Exit("killed")

\* A signal kills the process until the handler is installed; from then on it
\* only ends shutdownContext, and a second one does nothing more.
Signal == /\ main # "exited"
          /\ IF handled
             THEN /\ signalled' = TRUE
                  /\ UNCHANGED <<main, handled, listener, serverErrors, inShutdown, remaining,
                                 requests, exitCode>>
             ELSE Exit("killed")

\* Fault: the process ends as after a shutdown.
ServerStoppedQuietly == main = "selecting" /\ serverErrors = "failed" /\ Exit("0")

\* select: the server has failed ...
ServerStopped == main = "selecting" /\ serverErrors = "failed" /\ Exit("1")

\* ... or a signal has come.  With both ready, either is taken.  Shutdown
\* closes the listener, and ListenAndServe returns ErrServerClosed.
StartShutdown == /\ main = "selecting" /\ signalled
                 /\ main' = "shutdown"
                 /\ inShutdown' = TRUE
                 /\ IF listener = "open"
                    THEN listener' = "down" /\ serverErrors' = "closed"
                    ELSE UNCHANGED <<listener, serverErrors>>
                 /\ UNCHANGED <<handled, signalled, remaining, requests, exitCode>>

\* Shutdown looks from time to time whether all requests are done ...
Drained == main = "shutdown" /\ Running = {} /\ Exit("0")

\* Fault: Shutdown is given no time limit.
GraceOverNever == FALSE

\* ... and gives up when its context ends, even if it has not looked since
\* the last request was done.
GraceOver == main = "shutdown" /\ remaining = 0 /\ Exit("1")

Tick == /\ main = "shutdown" /\ remaining > 0
        /\ remaining' = remaining - 1
        /\ UNCHANGED <<main, handled, signalled, listener, serverErrors, inShutdown, requests,
                       exitCode>>

Exited == main = "exited" /\ UNCHANGED vars

-----------------------------------------------------------------------------

Main == InstallHandler \/ ServerStopped \/ StartShutdown \/ Drained \/ GraceOver

Next == \/ Main \/ Listen \/ ListenFails \/ Signal \/ Tick \/ Exited
        \/ \E r \in Requests : Accept(r) \/ Complete(r)

Spec == Init /\ [][Next]_vars

\* The goroutines run and time passes; no request need ever end.
FairSpec == Spec /\ WF_vars(Main) /\ WF_vars(Listen) /\ WF_vars(Tick)

-----------------------------------------------------------------------------

\* Every variable stays in its domain, the process ends with a code, and no
\* port is open once the shutdown has begun.
TypeOK == /\ main \in {"installing", "selecting", "shutdown", "exited"}
          /\ handled \in BOOLEAN /\ signalled \in BOOLEAN /\ inShutdown \in BOOLEAN
          /\ listener \in {"starting", "open", "down"}
          /\ inShutdown => listener # "open"
          /\ serverErrors \in {"none", "failed", "closed"}
          /\ remaining \in 0..Grace
          /\ requests \in [Requests -> {"none", "running", "answered", "cut"}]
          /\ exitCode \in (IF main = "exited" THEN {"0", "1", "killed"} ELSE {"none"})

\* The exit code tells how it went: 0 is a shutdown that somebody asked for
\* and that lost no request, 1 a server that failed or a grace used up.
ExitsAsItEnded ==
    /\ exitCode = "0" => signalled /\ \A r \in Requests : requests[r] # "cut"
    /\ exitCode = "1" => serverErrors = "failed" \/ (signalled /\ remaining = 0)

\* Once the process handles signals and serves, no number of them costs a
\* running request its ten seconds.
GraceIsGranted ==
    [][(handled /\ serverErrors # "failed" /\ main' = "exited") =>
           \A r \in Requests : requests[r] = "running" => remaining = 0]_vars

\* A handled signal and a failed server both end the process, whatever the
\* requests do.
EndsWhenTold == (signalled \/ serverErrors = "failed") ~> (main = "exited")
=============================================================================
