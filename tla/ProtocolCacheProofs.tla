------------------------ MODULE ProtocolCacheProofs ------------------------
(* What ProtocolCache promises, for any number of callers, models, catalogs  *)
(* and any times to live: the invariants of its lock and of its clock        *)
(* readings, the two properties of the refreshes that rest on them, and that *)
(* it implements ProtocolDirectory.                                          *)
EXTENDS ProtocolCache, TLAPS

-----------------------------------------------------------------------------
(* The invariant.  TypeOK alone, WriterExcludesAll alone and the two action *)
(* properties are not inductive: they need to know who claims the lock, and *)
(* how the clock readings relate to the expiry.                             *)

\* The lock is claimed by exactly the caller that is past Lock.
ClaimMatches == \A c \in Callers : pc[c] \in Writing \cup {"drain"} <=> writer = c

\* Nobody reads while somebody is past "drain".
NoReaderInside == \A c, d \in Callers : pc[c] \in Writing => pc[d] # "reading"

LockInv == ClaimMatches /\ NoReaderInside

\* The expiry is the one of the last refresh, readings of the clock are past,
\* and a caller about to look after a refresh asked before its expiry.
TimeInv == /\ expires = lastEnd + lastTTL
           /\ \A c \in Callers : now[c] <= clock
           /\ \A c \in Callers : pc[c] = "looking" => now[c] < expires

\* There are models left to copy only while a caller is copying, questions
\* and answers are there exactly between entry and return.
DataInv == /\ (\A c \in Callers : pc[c] # "merging") => discovered = Nothing
           /\ \A c \in Callers : pc[c] = "idle" <=> asked[c] = Nobody
           /\ \A c \in Callers : pc[c] = "answered" <=> answer[c] # Nobody

IInv == TypeOK /\ LockInv /\ TimeInv /\ DataInv

-----------------------------------------------------------------------------
\* A lookup ends in a protocol, whatever the map holds.
LEMMA LookupType ==
    ASSUME NEW map \in ProtocolMap, NEW base \in Bases
    PROVE  protocolOf(map, base) \in Protocols
<1>1. <<base, "free">> \in Models /\ <<base, "paid">> \in Models
  BY DEF Models
<1>2. map[<<base, "free">>] \in Protocols \cup {Unlisted}
      /\ map[<<base, "paid">>] \in Protocols \cup {Unlisted}
  BY <1>1 DEF ProtocolMap
<1> QED
  BY <1>2, ProtocolsAssumption DEF protocolOf, lookupProtocol, modelLookupKeys

\* An empty catalog changes nothing.
LEMMA OverlayNothing ==
    ASSUME NEW map \in ProtocolMap
    PROVE  overlay(Nothing, map) = map
BY DEF overlay, Nothing, ProtocolMap

\* The empty map is a map.
LEMMA NothingType == Nothing \in ProtocolMap
BY DEF Nothing, ProtocolMap

\* Types are kept by every step.
LEMMA TypeStep == TypeOK /\ LockInv /\ DataInv /\ [Next]_vars => TypeOK'
<1> SUFFICES ASSUME TypeOK, LockInv, DataInv, [Next]_vars PROVE TypeOK'
  OBVIOUS
<1> USE CacheAssumption, NothingType
<1>a. ASSUME NEW c \in Callers, TellProtocol(c), asked[c] \in Bases
      PROVE  answer' \in [Callers -> Protocols \cup {Nobody}]
  BY <1>a, LookupType DEF TellProtocol, TypeOK
<1>b. ASSUME NEW c \in Callers, Unlock(c)
      PROVE  pc' \in [Callers -> Places] /\ writer' \in Callers \cup {Nobody}
  BY <1>b DEF Unlock, TypeOK, Places
<1>c. ASSUME NEW c \in Callers, pc[c] \in {"reading", "checking", "looking"}
      PROVE  asked[c] \in Bases
  BY <1>c DEF TypeOK, DataInv
<1>1. ASSUME NEW c \in Callers, NEW base \in Bases, Ask(c, base) PROVE TypeOK'
  BY <1>1 DEF Ask, Goto, TypeOK, Places, cacheVars, historyVars
<1>2. ASSUME NEW c \in Callers, RLock(c) PROVE TypeOK'
  BY <1>2 DEF RLock, Goto, TypeOK, Places, cacheVars, historyVars
<1>3. ASSUME NEW c \in Callers, FastPath(c) PROVE TypeOK'
  <2>1. pc' \in [Callers -> Places]
    BY <1>3 DEF FastPath, Goto, TypeOK, Places
  <2>2. answer' \in [Callers -> Protocols \cup {Nobody}]
    BY <1>3, <1>a, <1>c DEF FastPath, TypeOK
  <2> QED
    BY <1>3, <2>1, <2>2 DEF FastPath, TypeOK, cacheVars, historyVars
<1>4. ASSUME NEW c \in Callers, Lock(c) PROVE TypeOK'
  BY <1>4 DEF Lock, Goto, TypeOK, Places, cacheVars, historyVars
<1>5. ASSUME NEW c \in Callers, Locked(c) PROVE TypeOK'
  BY <1>5 DEF Locked, Goto, TypeOK, Places, Writing, cacheVars, historyVars
<1>6. ASSUME NEW c \in Callers, AlreadyRefreshed(c) PROVE TypeOK'
  BY <1>6, <1>a, <1>b, <1>c DEF AlreadyRefreshed, TypeOK, cacheVars, historyVars
<1>7. ASSUME NEW c \in Callers, StartFetch(c) PROVE TypeOK'
  BY <1>7 DEF StartFetch, Goto, TypeOK, Places, Writing, cacheVars, historyVars
<1>8. ASSUME NEW c \in Callers, FetchFails(c) PROVE TypeOK'
  BY <1>8 DEF FetchFails, expiryAfter, Goto, TypeOK, Places, Writing
<1>9. ASSUME NEW c \in Callers, FetchSucceeds(c) PROVE TypeOK'
  BY <1>9 DEF FetchSucceeds, Goto, TypeOK, Places, Writing, historyVars
<1>10. ASSUME NEW c \in Callers, NEW m \in Models, MergeModel(c, m) PROVE TypeOK'
  <2>1. protocols' \in ProtocolMap /\ discovered' \in ProtocolMap
    BY <1>10 DEF MergeModel, TypeOK, ProtocolMap
  <2> QED
    BY <1>10, <2>1 DEF MergeModel, TypeOK, historyVars
<1>11. ASSUME NEW c \in Callers, MergeEnds(c) PROVE TypeOK'
  BY <1>11 DEF MergeEnds, expiryAfter, Goto, TypeOK, Places, Writing
<1>12. ASSUME NEW c \in Callers, Look(c) PROVE TypeOK'
  BY <1>12, <1>a, <1>b, <1>c DEF Look, TypeOK, cacheVars, historyVars
<1>13. CASE Tick
  BY <1>13 DEF Tick, TypeOK, cacheVars, historyVars
<1>14. CASE UNCHANGED vars
  BY <1>14 DEF vars, TypeOK, cacheVars, historyVars
<1> QED
  BY <1>1, <1>2, <1>3, <1>4, <1>5, <1>6, <1>7, <1>8, <1>9, <1>10, <1>11, <1>12, <1>13, <1>14
  DEF Next, Step, EndFetch, Finished

\* Only the caller that claims the lock is past Lock, and no reader is inside
\* with it, after every step.
LEMMA LockStep == TypeOK /\ LockInv /\ [Next]_vars => LockInv'
<1> SUFFICES ASSUME TypeOK, LockInv, [Next]_vars PROVE LockInv'
  OBVIOUS
<1> USE CacheAssumption DEF TypeOK, LockInv, ClaimMatches, NoReaderInside, Goto, Writing, Places
<1>1. ASSUME NEW c \in Callers, NEW base \in Bases, Ask(c, base) PROVE LockInv'
  BY <1>1 DEF Ask
<1>2. ASSUME NEW c \in Callers, RLock(c) PROVE LockInv'
  BY <1>2 DEF RLock
<1>3. ASSUME NEW c \in Callers, FastPath(c) PROVE LockInv'
  BY <1>3 DEF FastPath
<1>4. ASSUME NEW c \in Callers, Lock(c) PROVE LockInv'
  BY <1>4 DEF Lock
<1>5. ASSUME NEW c \in Callers, Locked(c) PROVE LockInv'
  BY <1>5 DEF Locked, Readers
<1>6. ASSUME NEW c \in Callers, Unlock(c), pc[c] \in {"checking", "looking"} PROVE LockInv'
  BY <1>6 DEF Unlock
<1>7. ASSUME NEW c \in Callers, AlreadyRefreshed(c) PROVE LockInv'
  BY <1>6, <1>7 DEF AlreadyRefreshed
<1>8. ASSUME NEW c \in Callers, StartFetch(c) PROVE LockInv'
  BY <1>8 DEF StartFetch
<1>9. ASSUME NEW c \in Callers, EndFetch(c) PROVE LockInv'
  BY <1>9 DEF EndFetch, FetchFails, FetchSucceeds
<1>10. ASSUME NEW c \in Callers, NEW m \in Models, MergeModel(c, m) PROVE LockInv'
  BY <1>10 DEF MergeModel
<1>11. ASSUME NEW c \in Callers, MergeEnds(c) PROVE LockInv'
  BY <1>11 DEF MergeEnds
<1>12. ASSUME NEW c \in Callers, Look(c) PROVE LockInv'
  BY <1>6, <1>12 DEF Look
<1>13. CASE Tick
  BY <1>13 DEF Tick
<1>14. CASE UNCHANGED vars
  BY <1>14 DEF vars
<1> QED
  BY <1>1, <1>2, <1>3, <1>4, <1>5, <1>7, <1>8, <1>9, <1>10, <1>11, <1>12, <1>13, <1>14
  DEF Next, Step, Finished

\* A refresh ends with an expiry in the future; nobody else can change it
\* before the caller that refreshed has looked.
LEMMA TimeStep == TypeOK /\ LockInv /\ TimeInv /\ [Next]_vars => TimeInv'
<1> SUFFICES ASSUME TypeOK, LockInv, TimeInv, [Next]_vars PROVE TimeInv'
  OBVIOUS
<1> USE CacheAssumption DEF TypeOK, TimeInv, Goto, Places, cacheVars, historyVars
<1>1. ASSUME NEW c \in Callers, NEW base \in Bases, Ask(c, base) PROVE TimeInv'
  BY <1>1 DEF Ask
<1>2. ASSUME NEW c \in Callers, RLock(c) PROVE TimeInv'
  BY <1>2 DEF RLock
<1>3. ASSUME NEW c \in Callers, FastPath(c) PROVE TimeInv'
  BY <1>3 DEF FastPath
<1>4. ASSUME NEW c \in Callers, Lock(c) \/ Locked(c) PROVE TimeInv'
  BY <1>4 DEF Lock, Locked
<1>5. ASSUME NEW c \in Callers, AlreadyRefreshed(c) \/ Look(c) PROVE TimeInv'
  BY <1>5 DEF AlreadyRefreshed, Look, Unlock
<1>6. ASSUME NEW c \in Callers, StartFetch(c) PROVE TimeInv'
  BY <1>6 DEF StartFetch
<1>7. ASSUME NEW c \in Callers, NEW ttl \in {TTL, FailureTTL},
             pc[c] \in Writing, pc' = [pc EXCEPT ![c] = "looking"],
             expires' = clock + ttl, lastEnd' = clock, lastTTL' = ttl,
             UNCHANGED <<clock, now>>
      PROVE  TimeInv'
  <2>1. \A d \in Callers : pc'[d] = "looking" => d = c
    BY <1>7 DEF LockInv, ClaimMatches, Writing
  <2> QED
    BY <1>7, <2>1
<1>8. ASSUME NEW c \in Callers, FetchFails(c) PROVE TimeInv'
  BY <1>7, <1>8 DEF FetchFails, expiryAfter, Writing
<1>9. ASSUME NEW c \in Callers, FetchSucceeds(c) PROVE TimeInv'
  BY <1>9 DEF FetchSucceeds
<1>10. ASSUME NEW c \in Callers, NEW m \in Models, MergeModel(c, m) PROVE TimeInv'
  BY <1>10 DEF MergeModel
<1>11. ASSUME NEW c \in Callers, MergeEnds(c) PROVE TimeInv'
  BY <1>7, <1>11 DEF MergeEnds, expiryAfter, Writing
<1>12. CASE Tick
  BY <1>12 DEF Tick
<1>13. CASE UNCHANGED vars
  BY <1>13 DEF vars
<1> QED
  BY <1>1, <1>2, <1>3, <1>4, <1>5, <1>6, <1>8, <1>9, <1>10, <1>11, <1>12, <1>13
  DEF Next, Step, EndFetch, Finished

\* Only the caller that is copying has something left to copy, and callers
\* have a question from entry on and an answer from return on.
LEMMA DataStep == TypeOK /\ LockInv /\ DataInv /\ [Next]_vars => DataInv'
<1> SUFFICES ASSUME TypeOK, LockInv, DataInv, [Next]_vars PROVE DataInv'
  OBVIOUS
<1> USE CacheAssumption DEF TypeOK, DataInv, Goto, Places, cacheVars
<1>a. ASSUME NEW c \in Callers, pc[c] \in {"reading", "checking", "looking"}
      PROVE  protocolOf(protocols, asked[c]) # Nobody
  BY <1>a, LookupType
<1>b. ASSUME NEW c \in Callers, pc[c] \in {"checking", "looking"},
             TellProtocol(c), Unlock(c), UNCHANGED <<asked, discovered>>
      PROVE  DataInv'
  <2>1. \A d \in Callers : pc'[d] # "merging" /\ pc[d] # "merging"
    BY <1>b DEF Unlock, LockInv, ClaimMatches, Writing
  <2>2. \A d \in Callers : (pc'[d] = "idle" <=> pc[d] = "idle")
                           /\ (pc'[d] = "answered" <=> pc[d] = "answered" \/ d = c)
    BY <1>b DEF Unlock
  <2> QED
    BY <1>a, <1>b, <2>1, <2>2 DEF TellProtocol
<1>1. ASSUME NEW c \in Callers, NEW base \in Bases, Ask(c, base) PROVE DataInv'
  BY <1>1 DEF Ask
<1>2. ASSUME NEW c \in Callers, RLock(c) PROVE DataInv'
  BY <1>2 DEF RLock
<1>3. ASSUME NEW c \in Callers, FastPath(c) PROVE DataInv'
  BY <1>a, <1>3 DEF FastPath, TellProtocol
<1>4. ASSUME NEW c \in Callers, Lock(c) \/ Locked(c) PROVE DataInv'
  BY <1>4 DEF Lock, Locked
<1>5. ASSUME NEW c \in Callers, AlreadyRefreshed(c) \/ Look(c) PROVE DataInv'
  BY <1>b, <1>5 DEF AlreadyRefreshed, Look
<1>6. ASSUME NEW c \in Callers, StartFetch(c) \/ FetchFails(c) PROVE DataInv'
  BY <1>6 DEF StartFetch, FetchFails
<1>7. ASSUME NEW c \in Callers, FetchSucceeds(c) PROVE DataInv'
  BY <1>7 DEF FetchSucceeds
<1>8. ASSUME NEW c \in Callers, NEW m \in Models, MergeModel(c, m) PROVE DataInv'
  BY <1>8 DEF MergeModel
<1>9. ASSUME NEW c \in Callers, MergeEnds(c) PROVE DataInv'
  BY <1>9 DEF MergeEnds
<1>10. CASE Tick
  BY <1>10 DEF Tick
<1>11. CASE UNCHANGED vars
  BY <1>11 DEF vars
<1> QED
  BY <1>1, <1>2, <1>3, <1>4, <1>5, <1>6, <1>7, <1>8, <1>9, <1>10, <1>11
  DEF Next, Step, EndFetch, Finished

\* The strengthened invariant holds throughout.
LEMMA Invariance == Spec => []IInv
<1>1. Init => IInv
  BY CacheAssumption, NothingType
  DEF Init, IInv, TypeOK, LockInv, ClaimMatches, NoReaderInside, TimeInv, DataInv, Places, Writing
<1>2. IInv /\ [Next]_vars => IInv'
  BY TypeStep, LockStep, TimeStep, DataStep DEF IInv
<1> QED
  BY <1>1, <1>2, PTL DEF Spec

-----------------------------------------------------------------------------
\* ProtocolForModel always has a protocol to answer with, and the cache's
\* variables stay in their domains.
THEOREM CacheTypeCorrect == Spec => []TypeOK
<1>1. IInv => TypeOK
  BY DEF IInv
<1> QED
  BY <1>1, Invariance, PTL

\* protocolMu: whoever fetches or copies the catalog is alone.
THEOREM CacheExclusion == Spec => []WriterExcludesAll
<1>1. IInv => WriterExcludesAll
  BY CacheAssumption DEF IInv, LockInv, ClaimMatches, NoReaderInside, WriterExcludesAll, Writing
<1> QED
  BY <1>1, Invariance, PTL

\* No answer from a cache that had expired when its caller asked: FastPath and
\* AlreadyRefreshed check it, and Look comes right after a refresh.
THEOREM CacheFreshness == Spec => AnswersAreFresh
<1>1. ASSUME IInv, [Next]_vars, NEW c \in Callers, answer'[c] # answer[c]
      PROVE  now[c] < expires
  <2> USE DEF TellProtocol, IInv, TypeOK
  <2>1. ASSUME NEW d \in Callers, Step(d) PROVE now[c] < expires
    <3>1. CASE FastPath(d)
      BY <1>1, <3>1 DEF FastPath, StillFresh
    <3>2. CASE AlreadyRefreshed(d)
      BY <1>1, <3>2 DEF AlreadyRefreshed, StillFresh
    <3>3. CASE Look(d)
      BY <1>1, <3>3 DEF Look, TimeInv
    <3> QED
      BY <1>1, <2>1, <3>1, <3>2, <3>3
      DEF Step, RLock, Lock, Locked, StartFetch, EndFetch, FetchFails, FetchSucceeds,
          MergeModel, MergeEnds
  <2>2. CASE Tick \/ UNCHANGED vars \/ \E d \in Callers, base \in Bases : Ask(d, base)
    BY <1>1, <2>2 DEF Tick, vars, Ask
  <2> QED
    BY <1>1, <2>1, <2>2 DEF Next, Finished
<1>2. IInv /\ [Next]_vars
        => [\A c \in Callers : answer'[c] # answer[c] => now[c] < expires]_vars
  BY <1>1
<1> QED
  BY <1>2, Invariance, PTL DEF Spec, AnswersAreFresh

\* The herd is held back: a caller that still finds the cache expired holds a
\* reading of the clock past the last refresh's time to live, and the clock
\* has not run backwards since.
THEOREM RefreshesAreSpaced == Spec => RefreshSpacing
<1>1. ASSUME IInv, [Next]_vars, NEW c \in Callers, pc[c] # "fetching", pc'[c] = "fetching"
      PROVE  clock >= lastEnd + lastTTL
  <2> USE CacheAssumption DEF IInv, TypeOK, Goto
  <2>1. ASSUME NEW d \in Callers, StartFetch(d) PROVE clock >= lastEnd + lastTTL
    <3>1. c = d
      BY <1>1, <2>1 DEF StartFetch
    <3> QED
      BY <1>1, <2>1, <3>1 DEF StartFetch, StillFresh, TimeInv
  <2>2. ASSUME NEW d \in Callers, ~StartFetch(d), Step(d) PROVE FALSE
    BY <1>1, <2>2
    DEF Step, RLock, FastPath, Lock, Locked, AlreadyRefreshed, EndFetch, FetchFails,
        FetchSucceeds, MergeModel, MergeEnds, Look, Unlock
  <2>3. CASE Tick \/ UNCHANGED vars \/ \E d \in Callers, base \in Bases : Ask(d, base)
    BY <1>1, <2>3 DEF Tick, vars, Ask
  <2> QED
    BY <1>1, <2>1, <2>2, <2>3 DEF Next, Finished
<1>2. IInv /\ [Next]_vars
        => [\A c \in Callers : pc[c] # "fetching" /\ pc'[c] = "fetching"
                                  => clock >= lastEnd + lastTTL]_vars
  BY <1>1
<1> QED
  BY <1>2, Invariance, PTL DEF Spec, RefreshSpacing

-----------------------------------------------------------------------------
(* The refinement.  A refresh takes effect when the catalog has been read,  *)
(* before it is copied: what the directory knows is the map with the rest   *)
(* of the catalog laid over it, and copying one model does not change that. *)

\* Copying one model of the catalog leaves catalog-over-map as it was.
LEMMA CopyingKeepsOverlay ==
    ASSUME TypeOK, NEW c \in Callers, NEW m \in Models, MergeModel(c, m)
    PROVE  overlay(discovered, protocols)' = overlay(discovered, protocols)
<1>1. \A k \in Models :
         (IF discovered'[k] = Unlisted THEN protocols'[k] ELSE discovered'[k])
           = (IF discovered[k] = Unlisted THEN protocols[k] ELSE discovered[k])
  BY DEF MergeModel, TypeOK, ProtocolMap
<1> QED
  BY <1>1 DEF overlay

\* Whoever looks into the map looks into the directory.
LEMMA NothingLeftToCopy ==
    ASSUME IInv, NEW c \in Callers, pc[c] \in {"reading", "checking", "looking"}
    PROVE  overlay(discovered, protocols) = protocols
<1>1. \A d \in Callers : pc[d] # "merging"
  BY DEF IInv, LockInv, ClaimMatches, NoReaderInside, Writing
<1> QED
  BY <1>1, OverlayNothing DEF IInv, DataInv, TypeOK

\* To its callers the cache is a directory that is refreshed whole.
THEOREM CacheImplementsDirectory == Spec => ImplementsDirectory
<1> USE DEF Directory!protocolOf, Directory!lookupProtocol, Directory!modelLookupKeys,
            Directory!Models, Directory!overlay
<1>1. Init => Directory!Init
  BY OverlayNothing, NothingType DEF Init, Directory!Init, Nothing, Models
<1>2. ASSUME IInv, IInv', [Next]_vars PROVE [Directory!Next]_(Directory!vars)
  <2> USE DEF Directory!vars, cacheVars
  <2>1. ASSUME NEW c \in Callers, TellProtocol(c),
               pc[c] \in {"reading", "checking", "looking"},
               UNCHANGED <<discovered, protocols, asked>>
        PROVE  Directory!Answer(c)
    <3>1. asked[c] # Nobody /\ answer[c] = Nobody
      BY <1>2, <2>1 DEF IInv, DataInv
    <3>2. overlay(discovered, protocols) = protocols
      BY <1>2, <2>1, NothingLeftToCopy
    <3>3. overlay(discovered, protocols)' = overlay(discovered, protocols)
      BY <2>1 DEF overlay
    <3> QED
      BY <2>1, <3>1, <3>2, <3>3
      DEF Directory!Answer, TellProtocol, protocolOf, lookupProtocol, modelLookupKeys
  <2>2. ASSUME NEW c \in Callers, FetchSucceeds(c)
        PROVE  \E catalog \in Catalogs : Directory!Refresh(catalog)
    <3>1. \A d \in Callers : pc[d] # "merging"
      BY <1>2, <2>2 DEF FetchSucceeds, IInv, LockInv, ClaimMatches, Writing
    <3>2. overlay(discovered, protocols) = protocols
      BY <1>2, <3>1, OverlayNothing DEF IInv, DataInv, TypeOK
    <3>3. overlay(discovered, protocols)' = overlay(discovered', overlay(discovered, protocols))
      BY <2>2, <3>2 DEF FetchSucceeds, overlay
    <3> QED
      BY <2>2, <3>3 DEF FetchSucceeds, Directory!Refresh, overlay, Models
  <2>3. ASSUME NEW c \in Callers, Step(c) PROVE [Directory!Next]_(Directory!vars)
    <3>1. CASE FastPath(c) \/ AlreadyRefreshed(c) \/ Look(c)
      BY <2>1, <3>1 DEF FastPath, AlreadyRefreshed, Look, Directory!Next, overlay
    <3>2. CASE FetchSucceeds(c)
      BY <2>2, <3>2 DEF Directory!Next
    <3>3. CASE \E m \in Models : MergeModel(c, m)
      BY <1>2, <3>3, CopyingKeepsOverlay DEF MergeModel, IInv
    <3>4. CASE RLock(c) \/ Lock(c) \/ Locked(c) \/ StartFetch(c) \/ FetchFails(c) \/ MergeEnds(c)
      BY <3>4 DEF RLock, Lock, Locked, StartFetch, FetchFails, MergeEnds, overlay
    <3> QED
      BY <2>3, <3>1, <3>2, <3>3, <3>4 DEF Step, EndFetch
  <2>4. ASSUME NEW c \in Callers, NEW base \in Bases, Ask(c, base)
        PROVE  Directory!Ask(c, base)
    BY <1>2, <2>4 DEF Ask, Directory!Ask, IInv, DataInv, overlay
  <2>5. CASE Tick \/ UNCHANGED vars
    BY <2>5 DEF Tick, vars, overlay
  <2> QED
    BY <1>2, <2>3, <2>4, <2>5 DEF Next, Finished, Directory!Next
<1>3. Init /\ [][Next]_vars => Directory!Spec
  BY <1>1, <1>2, Invariance, PTL DEF Spec, Directory!Spec
<1> QED
  BY <1>3 DEF Spec, ImplementsDirectory
=============================================================================
