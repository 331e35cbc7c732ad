--------------------------- MODULE ProtocolCache ---------------------------
(* ProtocolForModel and refreshProtocolsLocked                              *)
(* (internal/provider/protocols.go): a cache of the model catalog, shared by *)
(* every request handler behind a sync.RWMutex.  A caller looks under the   *)
(* read lock; when the cache has expired it takes the write lock, looks     *)
(* again, and fetches the catalog while it holds the lock.                  *)
(*                                                                         *)
(* Each caller is one request.  Time is a counter; now[c] is the time       *)
(* caller c read on entry and uses for both of its checks.                  *)
EXTENDS ModelProtocols

CONSTANTS Callers,       \* requests being served
          Catalogs,      \* what the model catalog can list, never nothing
          Nobody,        \* no caller, no answer
          TTL,           \* protocolCacheTTL
          FailureTTL,    \* protocolFailureTTL
          FetchTimeout,  \* the timeout of refreshProtocolsLocked
          MaxTime        \* bound on the clock

ASSUME CacheAssumption ==
    /\ TTL \in Nat \ {0} /\ FailureTTL \in Nat \ {0}
    /\ FetchTimeout \in Nat /\ MaxTime \in Nat
    /\ Catalogs \subseteq ProtocolMap
    /\ Nobody \notin Callers \cup Bases \cup Protocols

VARIABLES
    clock,       \* the time
    protocols,   \* Client.protocols
    expires,     \* Client.protocolsExpires
    writer,      \* the caller that holds or has claimed the write lock
    pc,          \* where each caller is
    now,         \* the time each caller read on entry
    asked,       \* the base of the model name each caller asks for
    answer,      \* what it was told
    discovered,  \* the catalog the writer has still to copy into the map
    deadline,    \* when the writer's fetch times out
    lastEnd,     \* history: when the last refresh, good or bad, ended
    lastTTL      \* history: for how long its result is to be used

cacheVars == <<protocols, expires, discovered>>
historyVars == <<lastEnd, lastTTL>>
vars == <<clock, cacheVars, writer, pc, now, asked, answer, deadline, historyVars>>

-----------------------------------------------------------------------------

Nothing == [m \in Models |-> Unlisted]

Init == /\ clock = 0
        /\ protocols = Nothing
        /\ expires = 0
        /\ writer = Nobody
        /\ pc = [c \in Callers |-> "idle"]
        /\ now = [c \in Callers |-> 0]
        /\ asked = [c \in Callers |-> Nobody]
        /\ answer = [c \in Callers |-> Nobody]
        /\ discovered = Nothing
        /\ deadline = 0
        /\ lastEnd = 0 /\ lastTTL = 0

StillFresh(c) == now[c] < expires

Readers == {c \in Callers : pc[c] = "reading"}

\* Writers exclude everybody, and readers exclude writers: the writer waits
\* in "drain" until the readers that were there before it are gone.
Writing == {"checking", "fetching", "merging", "looking"}

Goto(c, place) == pc' = [pc EXCEPT ![c] = place]

\* Fault: the readers that queued behind the writer stay there.
UnlockAlone(c) == writer' = Nobody /\ Goto(c, "answered")

\* Unlock lets in every reader that has queued behind the writer.
Unlock(c) ==
    /\ writer' = Nobody
    /\ pc' = [d \in Callers |-> IF d = c THEN "answered"
                                ELSE IF pc[d] = "rwait" THEN "reading" ELSE pc[d]]

TellProtocol(c) == answer' = [answer EXCEPT ![c] = protocolOf(protocols, asked[c])]

-----------------------------------------------------------------------------

\* A caller enters and reads the clock, before it tries any lock.
Ask(c, base) == /\ pc[c] = "idle"
                /\ asked' = [asked EXCEPT ![c] = base]
                /\ now' = [now EXCEPT ![c] = clock]
                /\ Goto(c, "rlock")
                /\ UNCHANGED <<clock, cacheVars, writer, answer, deadline, historyVars>>

\* RLock: at once, or behind a writer that holds or waits for the lock.
RLock(c) == /\ pc[c] = "rlock"
            /\ Goto(c, IF writer = Nobody THEN "reading" ELSE "rwait")
            /\ UNCHANGED <<clock, cacheVars, writer, now, asked, answer, deadline, historyVars>>

\* Under the read lock: answer from a fresh cache, or go for the write lock.
FastPath(c) == /\ pc[c] = "reading"
               /\ IF StillFresh(c)
                  THEN TellProtocol(c) /\ Goto(c, "answered")
                  ELSE Goto(c, "lock") /\ UNCHANGED answer
               /\ UNCHANGED <<clock, cacheVars, writer, now, asked, deadline, historyVars>>

\* Lock: one writer at a time, which keeps new readers out ...
Lock(c) == /\ pc[c] = "lock"
           /\ writer = Nobody
           /\ writer' = c
           /\ Goto(c, "drain")
           /\ UNCHANGED <<clock, cacheVars, now, asked, answer, deadline, historyVars>>

\* ... and gets the lock when the earlier ones have left.
Locked(c) == /\ pc[c] = "drain"
             /\ Readers = {}
             /\ Goto(c, "checking")
             /\ UNCHANGED <<clock, cacheVars, writer, now, asked, answer, deadline, historyVars>>

\* The second check, with the time read on entry: another caller may have
\* refreshed the cache meanwhile.
AlreadyRefreshed(c) == /\ pc[c] = "checking"
                       /\ StillFresh(c)
                       /\ TellProtocol(c)
                       /\ Unlock(c)
                       /\ UNCHANGED <<clock, cacheVars, now, asked, deadline, historyVars>>

\* Fault: the second check is left out.
StartFetchUnchecked(c) == /\ pc[c] = "checking"
                          /\ deadline' = clock + FetchTimeout
                          /\ Goto(c, "fetching")
                          /\ UNCHANGED <<clock, cacheVars, writer, now, asked, answer,
                                         historyVars>>

StartFetch(c) == /\ pc[c] = "checking"
                 /\ ~StillFresh(c)
                 /\ deadline' = clock + FetchTimeout
                 /\ Goto(c, "fetching")
                 /\ UNCHANGED <<clock, cacheVars, writer, now, asked, answer, historyVars>>

\* Fault: a refresh prolongs the old expiry instead of starting a new one.
expiryProlonged(ttl) == expires + ttl

\* The result of a refresh is used from the moment it ends.
expiryAfter(ttl) == clock + ttl

\* No answer in time, an error status, a body that does not decode, a
\* catalog without OpenCode models, or the fetching caller's client left.
FetchFails(c) == /\ pc[c] = "fetching"
                 /\ expires' = expiryAfter(FailureTTL)
                 /\ lastEnd' = clock /\ lastTTL' = FailureTTL
                 /\ Goto(c, "looking")
                 /\ UNCHANGED <<clock, protocols, discovered, writer, now, asked, answer, deadline>>

\* Fault: the map is emptied before the new catalog is copied.
FetchSucceedsAnew(c) == /\ pc[c] = "fetching"
                        /\ discovered' \in Catalogs
                        /\ protocols' = Nothing
                        /\ Goto(c, "merging")
                        /\ UNCHANGED <<clock, expires, writer, now, asked, answer, deadline,
                                       historyVars>>

FetchSucceeds(c) == /\ pc[c] = "fetching"
                    /\ discovered' \in Catalogs
                    /\ Goto(c, "merging")
                    /\ UNCHANGED <<clock, protocols, expires, writer, now, asked, answer, deadline,
                                   historyVars>>

\* The loop that copies the catalog, one model at a time.
MergeModel(c, m) == /\ pc[c] = "merging"
                    /\ discovered[m] # Unlisted
                    /\ protocols' = [protocols EXCEPT ![m] = discovered[m]]
                    /\ discovered' = [discovered EXCEPT ![m] = Unlisted]
                    /\ UNCHANGED <<clock, expires, writer, pc, now, asked, answer, deadline,
                                   historyVars>>

MergeEnds(c) == /\ pc[c] = "merging"
                /\ discovered = Nothing
                /\ expires' = expiryAfter(TTL)
                /\ lastEnd' = clock /\ lastTTL' = TTL
                /\ Goto(c, "looking")
                /\ UNCHANGED <<clock, protocols, discovered, writer, now, asked, answer, deadline>>

\* The last lookup, still under the write lock.
Look(c) == /\ pc[c] = "looking"
           /\ TellProtocol(c)
           /\ Unlock(c)
           /\ UNCHANGED <<clock, cacheVars, now, asked, deadline, historyVars>>

\* Time passes, but not past the timeout of a fetch under way.
Tick == /\ clock < MaxTime
        /\ \A c \in Callers : pc[c] = "fetching" => clock < deadline
        /\ clock' = clock + 1
        /\ UNCHANGED <<cacheVars, writer, pc, now, asked, answer, deadline, historyVars>>

Finished == (\A c \in Callers : pc[c] = "answered") /\ UNCHANGED vars

-----------------------------------------------------------------------------

EndFetch(c) == FetchFails(c) \/ FetchSucceeds(c)

Step(c) == \/ RLock(c) \/ FastPath(c) \/ Lock(c) \/ Locked(c)
           \/ AlreadyRefreshed(c) \/ StartFetch(c) \/ EndFetch(c)
           \/ MergeEnds(c) \/ Look(c)
           \/ \E m \in Models : MergeModel(c, m)

Next == \/ \E c \in Callers : Step(c) \/ \E base \in Bases : Ask(c, base)
        \/ Tick \/ Finished

Spec == Init /\ [][Next]_vars

\* Every caller's goroutine runs; a fetch ends because it has a timeout.
FairSpec == Spec /\ \A c \in Callers : WF_vars(Step(c))

-----------------------------------------------------------------------------

Places == {"idle", "rlock", "rwait", "reading", "lock", "drain", "answered"} \cup Writing

\* Every variable stays in its domain: an answer is always a protocol.
TypeOK == /\ clock \in Nat
          /\ protocols \in ProtocolMap
          /\ expires \in Nat
          /\ writer \in Callers \cup {Nobody}
          /\ pc \in [Callers -> Places]
          /\ now \in [Callers -> Nat]
          /\ asked \in [Callers -> Bases \cup {Nobody}]
          /\ answer \in [Callers -> Protocols \cup {Nobody}]
          /\ discovered \in ProtocolMap
          /\ deadline \in Nat
          /\ lastEnd \in Nat /\ lastTTL \in Nat

\* The map is written by one caller at a time, and read by nobody meanwhile
\* (protocolMu over both lookups, the fetch and the copying loop).
WriterExcludesAll ==
    \A c \in Callers : pc[c] \in Writing =>
        writer = c /\ \A d \in Callers \ {c} : pc[d] \notin Writing \cup {"reading"}

\* An answer never comes from a cache that was out of date when its caller
\* asked: by the time it looks, the cache is fresh or was just refreshed.
AnswersAreFresh ==
    [][\A c \in Callers : answer'[c] # answer[c] => now[c] < expires]_vars

\* However many callers find the cache expired at once, and however long they
\* waited for the lock with an old reading of the clock, the catalog is asked
\* again only TTL after a good refresh and FailureTTL after a failed one.
RefreshSpacing ==
    [][\A c \in Callers :
          pc[c] # "fetching" /\ pc'[c] = "fetching" => clock >= lastEnd + lastTTL]_vars

\* Callers see the refreshes as atomic and the directory as one thing:
\* half-copied catalogs are invisible, a failed refresh keeps what was known.
Directory == INSTANCE ProtocolDirectory WITH known <- overlay(discovered, protocols)
ImplementsDirectory == Directory!Spec

\* Every caller is answered: nobody is left behind in the lock's queues.
EveryCallerAnswered == \A c \in Callers : (pc[c] = "rlock") ~> (pc[c] = "answered")
=============================================================================
