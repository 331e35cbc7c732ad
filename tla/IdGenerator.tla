----------------------------- MODULE IdGenerator -----------------------------
(* openCodeID (internal/provider/client.go): the time part of the ids sent   *)
(* upstream.  A call reads the clock, then takes the lock of openCodeIDState *)
(* to draw a number, so calls may overtake each other in between.            *)
(* The random suffix of an id is left out: what is checked is what the time  *)
(* part does for itself.                                                     *)
EXTENDS Naturals, Sequences, FiniteSets

CONSTANTS Callers,  \* requests being served
          PerMs,    \* numbers kept apart for each millisecond: 0x1000 in the code
          Span,     \* milliseconds that fit the six bytes: 2^48 \div PerMs
          MaxTime,  \* bound on the readings of the clock
          MaxIds    \* bound on the ids issued

ASSUME IdAssumption == /\ PerMs \in Nat \ {0} /\ Span \in Nat \ {0}
                       /\ MaxTime \in Nat /\ MaxIds \in Nat

VARIABLES pc,         \* where each caller is
          now,        \* the time each caller has read
          timestamp,  \* openCodeIDState.timestamp
          counter,    \* openCodeIDState.counter
          issued      \* history: the ids, in the order their numbers were drawn

vars == <<pc, now, timestamp, counter, issued>>

\* Session ids descend, message ids ascend.
Kinds == {"ses", "msg"}

Capacity == Span * PerMs

-----------------------------------------------------------------------------

Init == /\ pc = [c \in Callers |-> "idle"]
        /\ now = [c \in Callers |-> 0]
        /\ timestamp = 0 /\ counter = 0
        /\ issued = <<>>

\* The low 48 bits of the value, or of its complement.
timePart(kind, value) ==
    IF kind = "ses" THEN Capacity - 1 - (value % Capacity) ELSE value % Capacity

\* The wall clock shows any time: it goes on, and it may be set back.
ReadClock(c) == /\ pc[c] = "idle"
                /\ \E time \in 0..MaxTime : now' = [now EXCEPT ![c] = time]
                /\ pc' = [pc EXCEPT ![c] = "timed"]
                /\ UNCHANGED <<timestamp, counter, issued>>

\* The count belongs to the millisecond read by the caller that drew last ...
timestampAfter(time) == time

\* Fault: a full millisecond starts its numbers again.
countAfterMasked(time) == IF timestamp = time THEN (counter + 1) % PerMs ELSE 1

\* ... and starts again with every change of it, even to an earlier one.
countAfter(time) == IF timestamp = time THEN counter + 1 ELSE 1

\* The whole critical section, and the id made of its value.
DrawNumber(c, kind) ==
    /\ pc[c] = "timed"
    /\ Len(issued) < MaxIds
    /\ timestamp' = timestampAfter(now[c])
    /\ counter' = countAfter(now[c])
    /\ issued' = Append(issued, [kind |-> kind, time |-> now[c],
                                 part |-> timePart(kind, now[c] * PerMs + counter')])
    /\ pc' = [pc EXCEPT ![c] = "idle"]
    /\ UNCHANGED now

\* The bound of the model is reached.
Enough == Len(issued) = MaxIds /\ UNCHANGED vars

Next == \/ \E c \in Callers : ReadClock(c) \/ \E kind \in Kinds : DrawNumber(c, kind)
        \/ Enough

Spec == Init /\ [][Next]_vars

-----------------------------------------------------------------------------

\* Every variable stays in its domain; a time part fits its six bytes.
TypeOK == /\ pc \in [Callers -> {"idle", "timed"}]
          /\ now \in [Callers -> 0..MaxTime]
          /\ timestamp \in 0..MaxTime /\ counter \in 0..MaxIds
          /\ issued \in Seq([kind : Kinds, time : 0..MaxTime, part : 0..Capacity - 1])

\* Between the i-th and the j-th id, somebody with an earlier reading drew
\* its number after somebody with a later one.
Overtaken(i, j) == \E k, l \in i..j : k < l /\ issued[k].time > issued[l].time

\* More ids than a millisecond has numbers for.
Crowded(time) == Cardinality({k \in DOMAIN issued : issued[k].time = time}) > PerMs

\* Readings further apart than the six bytes reach.
Apart(i, j) == issued[j].time - issued[i].time >= Span

Ordinary(i, j) == /\ ~Overtaken(i, j) /\ ~Apart(i, j)
                  /\ ~Crowded(issued[i].time) /\ ~Crowded(issued[j].time)

\* Two ids of a kind share their time part only when calls overtook each other
\* on the way to the lock, when more than PerMs ids fell into a millisecond, or
\* when the six bytes have wrapped round.
\* Within a turn of the six bytes they sort by age: a newer session id is
\* smaller, a newer message id larger.
TimePartsSorted ==
    \A i, j \in DOMAIN issued :
        i < j /\ Ordinary(i, j) /\ issued[i].kind = issued[j].kind =>
            /\ issued[i].part # issued[j].part
            /\ issued[i].time \div Span = (issued[j].time + 1) \div Span =>
                  (issued[i].kind = "ses" <=> issued[i].part > issued[j].part)
=============================================================================
