-------------------------- MODULE SessionIdsProofs --------------------------
(* The ids of IdGenerator and the sessions of SessionIds, for any number of  *)
(* callers and of ids, any width of the time part, any clock and any headers. *)
EXTENDS SessionIds, FiniteSetTheorems, SequenceTheorems, TLAPS

-----------------------------------------------------------------------------
(* Arithmetic.  The provers' own arithmetic is linear; what the model does   *)
(* with products, quotients and remainders is stated here once.              *)

\* A product is as large as its factors allow.
LEMMA ProductMonotone ==
    ASSUME NEW a \in Nat, NEW b \in Nat, NEW c \in Nat, a <= b
    PROVE  a * c <= b * c /\ a * c \in Nat
  <1>1. PICK d \in Nat : b = a + d
    <2>1. b - a \in Nat /\ b = a + (b - a)
      OBVIOUS
    <2> QED
      BY <2>1
  <1>2. b * c = a * c + d * c /\ d * c \in Nat /\ a * c \in Nat
    BY <1>1, Z3
  <1> QED
    BY <1>2

\* Quotient and remainder.
LEMMA Division ==
    ASSUME NEW a \in Nat, NEW b \in Nat \ {0}
    PROVE  /\ a \div b \in Nat /\ a % b \in 0..b - 1
           /\ a = (a \div b) * b + (a % b)
  <1>1. a \div b \in Nat /\ a % b \in 0..b - 1 /\ a = b * (a \div b) + (a % b)
    OBVIOUS
  <1>2. b * (a \div b) = (a \div b) * b
    BY <1>1
  <1> QED
    BY <1>1, <1>2

\* The quotient and the remainder are the only ones.
LEMMA DivisionUnique ==
    ASSUME NEW b \in Nat \ {0}, NEW q \in Nat, NEW r \in 0..b - 1
    PROVE  (q * b + r) % b = r /\ (q * b + r) \div b = q
  OBVIOUS

\* Values less than a turn apart do not meet.
LEMMA RemaindersDiffer ==
    ASSUME NEW c \in Nat \ {0}, NEW v \in Nat, NEW w \in Nat, v < w, w - v < c
    PROVE  v % c # w % c
  <1> SUFFICES ASSUME v % c = w % c PROVE FALSE
    OBVIOUS
  <1> DEFINE p == v \div c
             q == w \div c
  <1>1. /\ p \in Nat /\ q \in Nat /\ v % c \in 0..c - 1
        /\ v = p * c + (v % c) /\ w = q * c + (w % c)
    BY Division
  <1> HIDE DEF p, q
  <1>2. p * c \in Nat /\ q * c \in Nat /\ q * c > p * c /\ q * c < p * c + c
    BY <1>1, Z3
  <1>3. CASE q <= p
    BY <1>1, <1>2, <1>3, ProductMonotone
  <1>4. CASE p + 1 <= q
    <2>1. (p + 1) * c <= q * c
      BY <1>1, <1>4, ProductMonotone
    <2>2. (p + 1) * c = p * c + c
      BY <1>1, Z3
    <2> QED
      BY <1>1, <1>2, <2>1, <2>2
  <1> QED
    BY <1>1, <1>3, <1>4

\* Values in the same turn keep their order.
LEMMA RemaindersSort ==
    ASSUME NEW c \in Nat \ {0}, NEW q \in Nat, NEW v \in Nat, NEW w \in Nat,
           q * c <= v, v < w, w < q * c + c
    PROVE  v % c < w % c
  <1>1. q * c \in Nat
    BY Z3
  <1>2. PICK a \in 0..c - 1, b \in 0..c - 1 : v = q * c + a /\ w = q * c + b /\ a < b
    <2>1. v - q * c \in 0..c - 1 /\ w - q * c \in 0..c - 1 /\ v - q * c < w - q * c
      BY <1>1
    <2>2. v = q * c + (v - q * c) /\ w = q * c + (w - q * c)
      BY <1>1
    <2> QED
      BY <2>1, <2>2
  <1>3. v % c = a /\ w % c = b
    BY <1>2, DivisionUnique
  <1> QED
    BY <1>2, <1>3

-----------------------------------------------------------------------------
(* The generator.                                                            *)

\* The k-th id is the n-th in a row of its millisecond.
nthOf(k, n) == /\ n \in 1..k
               /\ \A l \in (k - n + 1)..k : issued[l].time = issued[k].time
               /\ n = k \/ issued[k - n].time # issued[k].time

valueOf(k, n) == issued[k].time * PerMs + n

\* The count an id is made of is its place in the row, and the generator has
\* kept the time and the count of the last one.
CountInv ==
    /\ Len(issued) <= MaxIds
    /\ \A k \in DOMAIN issued : \E n \in 1..k :
          nthOf(k, n) /\ issued[k].part = timePart(issued[k].kind, valueOf(k, n))
    /\ issued = <<>> => timestamp = 0 /\ counter = 0
    /\ issued # <<>> => timestamp = issued[Len(issued)].time /\ nthOf(Len(issued), counter)

IdInv == TypeOK /\ CountInv

\* The numbers kept apart fit the six bytes.
LEMMA CapacityPositive == Capacity \in Nat \ {0} /\ PerMs <= Capacity
  <1>1. 1 * PerMs <= Span * PerMs /\ Span * PerMs \in Nat
    <2>1. 1 \in Nat /\ PerMs \in Nat /\ Span \in Nat /\ 1 <= Span
      BY IdAssumption
    <2>2. 1 * PerMs <= Span * PerMs
      BY <2>1, ProductMonotone
    <2>3. Span * PerMs \in Nat
      BY <2>1, ProductMonotone
    <2> QED
      BY <2>2, <2>3
  <1> QED
    BY <1>1, IdAssumption DEF Capacity

\* A time part fits them too.
LEMMA TimePartFits ==
    ASSUME NEW kind \in Kinds, NEW value \in Nat
    PROVE  timePart(kind, value) \in 0..Capacity - 1
  <1>1. value % Capacity \in 0..Capacity - 1
    BY CapacityPositive, Division
  <1> QED
    BY <1>1, CapacityPositive DEF timePart

\* What a draw appends.
LEMMA DrawAppends ==
    ASSUME IdInv, NEW c \in Callers, NEW kind \in Kinds, DrawNumber(c, kind)
    PROVE  /\ Len(issued) \in Nat /\ Len(issued) < MaxIds /\ Len(issued') = Len(issued) + 1
           /\ DOMAIN issued = 1..Len(issued) /\ DOMAIN issued' = 1..Len(issued) + 1
           /\ \A k \in 1..Len(issued) : issued'[k] = issued[k]
           /\ issued'[Len(issued) + 1] =
                [kind |-> kind, time |-> now[c],
                 part |-> timePart(kind, now[c] * PerMs + counter')]
           /\ issued' # <<>> /\ now[c] \in 0..MaxTime
           /\ counter' = IF timestamp = now[c] THEN counter + 1 ELSE 1
           /\ timestamp' = now[c] /\ timestamp' \in 0..MaxTime
  <1> DEFINE rec == [kind |-> kind, time |-> now[c],
                     part |-> timePart(kind, now[c] * PerMs + counter')]
             Rec == [kind : Kinds, time : 0..MaxTime, part : 0..Capacity - 1]
  <1>1. issued \in Seq(Rec) /\ issued' = Append(issued, rec) /\ now[c] \in 0..MaxTime
    BY DEF IdInv, TypeOK, DrawNumber
  <1>2. /\ counter' = IF timestamp = now[c] THEN counter + 1 ELSE 1
        /\ timestamp' = now[c] /\ Len(issued) < MaxIds
    BY DEF DrawNumber, countAfter, timestampAfter
  <1> HIDE DEF rec, Rec
  <1>3. /\ Len(issued) \in Nat /\ Len(issued') = Len(issued) + 1
        /\ DOMAIN issued = 1..Len(issued) /\ DOMAIN issued' = 1..Len(issued) + 1
        /\ \A k \in 1..Len(issued) : issued'[k] = issued[k]
        /\ issued'[Len(issued) + 1] = rec /\ issued' # <<>>
    BY <1>1
  <1> QED
    BY <1>1, <1>2, <1>3 DEF rec

\* The count after a draw is the place of its id in the row of its millisecond.
LEMMA DrawCounts ==
    ASSUME IdInv, NEW c \in Callers, NEW kind \in Kinds, DrawNumber(c, kind)
    PROVE  /\ counter' \in 1..Len(issued) + 1
           /\ \A l \in (Len(issued) + 1 - counter' + 1)..Len(issued) + 1 :
                 issued'[l].time = now[c]
           /\ \/ counter' = Len(issued) + 1
              \/ issued'[Len(issued) + 1 - counter'].time # now[c]
  <1> DEFINE m == Len(issued)
  <1>1. /\ m \in Nat /\ DOMAIN issued = 1..m
        /\ \A k \in 1..m : issued'[k] = issued[k]
        /\ issued'[m + 1].time = now[c]
        /\ counter' = IF timestamp = now[c] THEN counter + 1 ELSE 1
    <2>1. issued'[m + 1] = [kind |-> kind, time |-> now[c],
                            part |-> timePart(kind, now[c] * PerMs + counter')]
      BY DrawAppends
    <2>2. issued'[m + 1].time = now[c]
      BY <2>1
    <2> QED
      BY <2>2, DrawAppends
  <1>2. issued = <<>> => m = 0 /\ timestamp = 0 /\ counter = 0
    BY DEF IdInv, CountInv
  <1>3. issued # <<>> =>
          /\ m \in Nat \ {0} /\ timestamp = issued[m].time
          /\ counter \in 1..m
          /\ \A l \in (m - counter + 1)..m : issued[l].time = timestamp
          /\ counter = m \/ issued[m - counter].time # timestamp
    <2> SUFFICES ASSUME issued # <<>>
                 PROVE  /\ m \in Nat \ {0} /\ timestamp = issued[m].time
                        /\ counter \in 1..m
                        /\ \A l \in (m - counter + 1)..m : issued[l].time = timestamp
                        /\ counter = m \/ issued[m - counter].time # timestamp
      OBVIOUS
    <2>1. timestamp = issued[m].time /\ nthOf(m, counter)
      BY DEF IdInv, CountInv
    <2>2. /\ counter \in 1..m
          /\ \A l \in (m - counter + 1)..m : issued[l].time = issued[m].time
          /\ counter = m \/ issued[m - counter].time # issued[m].time
      BY <2>1 DEF nthOf
    <2>3. m # 0
      <3>1. counter \in 1..m /\ m \in Nat
        BY <2>2, <1>1
      <3> HIDE DEF m
      <3> QED
        BY <3>1
    <2> QED
      BY <2>1, <2>2, <2>3, <1>1
  <1> HIDE DEF m
  <1>4. CASE issued = <<>>
    BY <1>1, <1>2, <1>4 DEF m
  <1>5. CASE issued # <<>> /\ timestamp = now[c]
    <2>1. counter' = counter + 1 /\ counter \in 1..m /\ m \in Nat
      BY <1>1, <1>3, <1>5
    <2>2. m + 1 - counter' + 1 = m - counter + 1 /\ m + 1 - counter' = m - counter
      BY <2>1
    <2>3. \A l \in (m - counter + 1)..m + 1 : issued'[l].time = now[c]
      <3> TAKE l \in (m - counter + 1)..m + 1
      <3>1. l = m + 1 \/ (l \in (m - counter + 1)..m /\ l \in 1..m)
        BY <2>1
      <3> QED
        BY <3>1, <1>1, <1>3, <1>5
    <2>4. counter = m \/ issued'[m - counter].time # now[c]
      <3>1. counter = m \/ m - counter \in 1..m
        BY <2>1
      <3> QED
        BY <3>1, <1>1, <1>3, <1>5
    <2> QED
      BY <2>1, <2>2, <2>3, <2>4 DEF m
  <1>6. CASE issued # <<>> /\ timestamp # now[c]
    <2>1. counter' = 1 /\ m \in 1..m /\ m \in Nat
      BY <1>1, <1>3, <1>6
    <2>2. issued'[m].time = timestamp
      BY <2>1, <1>1, <1>3, <1>6
    <2>3. m + 1 - counter' = m /\ m + 1 - counter' + 1 = m + 1
      BY <2>1
    <2> QED
      BY <2>1, <2>2, <2>3, <1>1, <1>6 DEF m
  <1> QED
    BY <1>4, <1>5, <1>6

\* A draw keeps the invariant of the generator.
LEMMA DrawKeepsIds ==
    ASSUME IdInv, NEW c \in Callers, NEW kind \in Kinds, DrawNumber(c, kind)
    PROVE  IdInv'
  <1> DEFINE m == Len(issued)
             value == now[c] * PerMs + counter'
             rec == [kind |-> kind, time |-> now[c], part |-> timePart(kind, value)]
  <1>1. /\ m \in Nat /\ m < MaxIds /\ Len(issued') = m + 1
        /\ DOMAIN issued = 1..m /\ DOMAIN issued' = 1..m + 1
        /\ \A k \in 1..m : issued'[k] = issued[k]
        /\ issued'[m + 1] = rec /\ issued' # <<>> /\ now[c] \in 0..MaxTime
        /\ timestamp' = now[c]
    BY DrawAppends
  <1>2. /\ counter' \in 1..m + 1
        /\ \A l \in (m + 1 - counter' + 1)..m + 1 : issued'[l].time = now[c]
        /\ counter' = m + 1 \/ issued'[m + 1 - counter'].time # now[c]
    BY DrawCounts
  <1>3. value \in Nat
    <2>1. now[c] \in Nat /\ PerMs \in Nat /\ counter' \in Nat
      BY <1>1, <1>2, IdAssumption
    <2>2. now[c] * PerMs \in Nat
      BY <2>1, ProductMonotone
    <2> QED
      BY <2>1, <2>2
  <1> HIDE DEF value
  <1>4. TypeOK'
    <2>1. rec \in [kind : Kinds, time : 0..MaxTime, part : 0..Capacity - 1]
      BY <1>1, <1>3, TimePartFits
    <2>2. issued' = Append(issued, rec)
      BY DEF DrawNumber, value
    <2>3. counter' \in 0..MaxIds /\ timestamp' \in 0..MaxTime
      BY <1>1, <1>2, IdAssumption
    <2>4. /\ pc' \in [Callers -> {"idle", "timed"}] /\ now' = now
      BY DEF DrawNumber, IdInv, TypeOK
    <2> HIDE DEF rec
    <2>5. issued' \in Seq([kind : Kinds, time : 0..MaxTime, part : 0..Capacity - 1])
      BY <2>1, <2>2 DEF IdInv, TypeOK
    <2> QED
      BY <2>3, <2>4, <2>5 DEF IdInv, TypeOK
  <1>5. ASSUME NEW k \in 1..m + 1
        PROVE  \E n \in 1..k :
                  /\ n \in 1..k
                  /\ \A l \in (k - n + 1)..k : issued'[l].time = issued'[k].time
                  /\ n = k \/ issued'[k - n].time # issued'[k].time
                  /\ issued'[k].part = timePart(issued'[k].kind, issued'[k].time * PerMs + n)
    <2>1. CASE k = m + 1
      <3>1. /\ issued'[k].time = now[c] /\ issued'[k].kind = kind
            /\ issued'[k].part = timePart(kind, value)
        BY <2>1, <1>1
      <3>2. issued'[k].part = timePart(issued'[k].kind, issued'[k].time * PerMs + counter')
        BY <3>1 DEF value
      <3> QED
        BY <3>1, <3>2, <2>1, <1>2
    <2>2. CASE k \in 1..m
      <3>1. PICK n \in 1..k : /\ \A l \in (k - n + 1)..k : issued[l].time = issued[k].time
                              /\ n = k \/ issued[k - n].time # issued[k].time
                              /\ issued[k].part
                                   = timePart(issued[k].kind, issued[k].time * PerMs + n)
        BY <2>2, <1>1 DEF IdInv, CountInv, nthOf, valueOf
      <3>2. \A l \in (k - n + 1)..k : l \in 1..m
        BY <2>2, <1>1
      <3>3. n = k \/ k - n \in 1..m
        BY <2>2, <1>1
      <3>4. \A l \in (k - n + 1)..k : issued'[l].time = issued'[k].time
        BY <3>1, <3>2, <2>2, <1>1
      <3>5. n = k \/ issued'[k - n].time # issued'[k].time
        BY <3>1, <3>3, <2>2, <1>1
      <3> QED
        BY <3>1, <3>4, <3>5, <2>2, <1>1
    <2>3. k = m + 1 \/ k \in 1..m
      BY <1>1
    <2> QED
      BY <2>1, <2>2, <2>3
  <1>6. CountInv'
    <2>1. Len(issued') <= MaxIds
      BY <1>1, IdAssumption
    <2>2. \A k \in DOMAIN issued' : \E n \in 1..k :
             /\ n \in 1..k
             /\ \A l \in (k - n + 1)..k : issued'[l].time = issued'[k].time
             /\ n = k \/ issued'[k - n].time # issued'[k].time
             /\ issued'[k].part = timePart(issued'[k].kind, issued'[k].time * PerMs + n)
      BY <1>1, <1>5
    <2>3. /\ timestamp' = issued'[Len(issued')].time
          /\ counter' \in 1..Len(issued')
          /\ \A l \in (Len(issued') - counter' + 1)..Len(issued') :
                issued'[l].time = issued'[Len(issued')].time
          /\ \/ counter' = Len(issued')
             \/ issued'[Len(issued') - counter'].time # issued'[Len(issued')].time
      BY <1>1, <1>2
    <2> QED
      BY <2>1, <2>2, <2>3, <1>1 DEF CountInv, nthOf, valueOf
  <1> QED
    BY <1>4, <1>6 DEF IdInv

\* So does every step of the generator.
LEMMA IdStep ==
    ASSUME IdInv, [Next]_vars
    PROVE  IdInv'
  <1>1. CASE UNCHANGED vars
    BY <1>1 DEF vars, IdInv, TypeOK, CountInv, nthOf, valueOf, Capacity, timePart
  <1>2. ASSUME NEW c \in Callers, ReadClock(c)
        PROVE  IdInv'
    <2>1. UNCHANGED <<timestamp, counter, issued>>
      BY <1>2 DEF ReadClock
    <2>2. pc' \in [Callers -> {"idle", "timed"}] /\ now' \in [Callers -> 0..MaxTime]
      BY <1>2 DEF ReadClock, IdInv, TypeOK
    <2> QED
      BY <2>1, <2>2 DEF IdInv, TypeOK, CountInv, nthOf, valueOf, Capacity, timePart
  <1>3. CASE Enough
    BY <1>3, <1>1 DEF Enough
  <1> QED
    BY <1>1, <1>2, <1>3, DrawKeepsIds DEF Next

\* What the types say of a single id.
LEMMA IssuedTypes ==
    ASSUME IdInv
    PROVE  /\ DOMAIN issued = 1..Len(issued) /\ Len(issued) \in Nat
           /\ \A l \in DOMAIN issued : issued[l].time \in Nat /\ issued[l].kind \in Kinds
  <1> DEFINE Rec == [kind : Kinds, time : 0..MaxTime, part : 0..Capacity - 1]
  <1>1. issued \in Seq(Rec)
    BY DEF IdInv, TypeOK
  <1>2. \A r \in Rec : r.time \in Nat /\ r.kind \in Kinds
    BY IdAssumption
  <1> HIDE DEF Rec
  <1>3. \A l \in DOMAIN issued : issued[l] \in Rec
    BY <1>1
  <1> QED
    BY <1>1, <1>2, <1>3

\* A millisecond that is not crowded has not counted beyond its numbers.
LEMMA CountIsLow ==
    ASSUME IdInv, NEW k \in DOMAIN issued, NEW n \in 1..k, nthOf(k, n),
           ~Crowded(issued[k].time)
    PROVE  n <= PerMs
  <1> DEFINE row == (k - n + 1)..k
             all == {l \in DOMAIN issued : issued[l].time = issued[k].time}
  <1>1. DOMAIN issued = 1..Len(issued) /\ Len(issued) \in Nat
    BY DEF IdInv, TypeOK
  <1>2. k \in Nat /\ n \in Nat /\ k - n + 1 \in Int /\ k - n + 1 <= k
    BY <1>1
  <1>3. Cardinality(row) = n
    BY <1>2, FS_Interval
  <1>4. row \subseteq all
    BY <1>1 DEF nthOf
  <1>5. IsFiniteSet(all)
    <2>1. all \subseteq 1..Len(issued) /\ IsFiniteSet(1..Len(issued))
      BY <1>1, FS_Interval
    <2> QED
      BY <2>1, FS_Subset
  <1>6. Cardinality(row) <= Cardinality(all) /\ Cardinality(all) \in Nat
    BY <1>4, <1>5, FS_Subset, FS_CardinalityType
  <1>7. Cardinality(all) <= PerMs
    BY <1>6, IdAssumption DEF Crowded
  <1> QED
    BY <1>2, <1>3, <1>6, <1>7, IdAssumption

\* Of two ids read in order, the later is of a later millisecond or counted
\* later in the same.
LEMMA LaterIsLarger ==
    ASSUME IdInv, NEW i \in DOMAIN issued, NEW j \in DOMAIN issued, i < j, ~Overtaken(i, j),
           NEW n \in 1..i, nthOf(i, n), NEW m \in 1..j, nthOf(j, m)
    PROVE  \/ issued[i].time < issued[j].time
           \/ issued[i].time = issued[j].time /\ n < m
  <1>1. /\ DOMAIN issued = 1..Len(issued) /\ Len(issued) \in Nat
        /\ \A l \in DOMAIN issued : issued[l].time \in Nat
    BY IssuedTypes
  <1>2. i \in Nat /\ j \in Nat /\ n \in Nat /\ m \in Nat
    BY <1>1
  <1>3. \A k \in i..j, l \in i..j : k < l => issued[k].time <= issued[l].time
    <2> TAKE k \in i..j, l \in i..j
    <2>1. k \in DOMAIN issued /\ l \in DOMAIN issued
      BY <1>1, <1>2
    <2> QED
      BY <1>1, <2>1 DEF Overtaken
  <1>4. issued[i].time <= issued[j].time /\ issued[i].time \in Nat /\ issued[j].time \in Nat
    BY <1>1, <1>2, <1>3
  <1>5. ASSUME issued[i].time = issued[j].time
        PROVE  n < m
    <2>1. j - m < i
      <3> SUFFICES ASSUME i <= j - m PROVE FALSE
        BY <1>2
      <3>1. j - m \in i..j /\ m # j
        BY <1>2
      <3>2. issued[j - m].time # issued[j].time
        BY <3>1 DEF nthOf
      <3>3. j - m = i \/ issued[i].time <= issued[j - m].time
        BY <3>1, <1>2, <1>3
      <3>4. issued[j - m].time <= issued[j].time
        BY <3>1, <1>2, <1>3
      <3>5. issued[j - m].time \in Nat
        BY <3>1, <1>1, <1>2
      <3> QED
        BY <3>2, <3>3, <3>4, <3>5, <1>4, <1>5
    <2>2. j - m <= i - n
      <3> SUFFICES ASSUME i - n < j - m PROVE FALSE
        BY <1>2
      <3>1. m # j /\ j - m \in (i - n + 1)..i
        BY <1>2, <2>1
      <3>2. issued[j - m].time # issued[j].time
        BY <3>1 DEF nthOf
      <3>3. issued[j - m].time = issued[i].time
        BY <3>1 DEF nthOf
      <3> QED
        BY <3>2, <3>3, <1>5
    <2> QED
      BY <2>2, <1>2
  <1> QED
    BY <1>4, <1>5

\* The values of two ordinary ids are in order and within a turn of the six
\* bytes; none has left the range of its millisecond.
LEMMA ValuesInOrder ==
    ASSUME IdInv, NEW i \in DOMAIN issued, NEW j \in DOMAIN issued, i < j, Ordinary(i, j),
           NEW n \in 1..i, nthOf(i, n), NEW m \in 1..j, nthOf(j, m)
    PROVE  /\ valueOf(i, n) \in Nat /\ valueOf(j, m) \in Nat
           /\ valueOf(i, n) < valueOf(j, m) /\ valueOf(j, m) - valueOf(i, n) < Capacity
           /\ issued[i].time * PerMs < valueOf(i, n)
           /\ valueOf(j, m) <= (issued[j].time + 1) * PerMs
  <1> DEFINE s == issued[i].time
             t == issued[j].time
  <1>1. /\ s \in Nat /\ t \in Nat /\ n \in Nat /\ m \in Nat /\ 1 <= n /\ 1 <= m
        /\ PerMs \in Nat \ {0} /\ Span \in Nat \ {0}
    <2> QED
      BY IssuedTypes, IdAssumption
  <1>2. n <= PerMs /\ m <= PerMs
    BY CountIsLow DEF Ordinary
  <1>3. s < t \/ (s = t /\ n < m)
    BY LaterIsLarger DEF Ordinary
  <1>4. t - s < Span
    BY <1>1 DEF Ordinary, Apart
  <1> DEFINE sp == s * PerMs
             tp == t * PerMs
  <1>5. valueOf(i, n) = sp + n /\ valueOf(j, m) = tp + m
    BY DEF valueOf
  <1> HIDE DEF s, t
  <1>6. sp \in Nat /\ tp \in Nat /\ (t + 1) * PerMs = tp + PerMs
    <2>1. sp \in Nat /\ tp \in Nat
      BY <1>1, ProductMonotone
    <2>2. (t + 1) * PerMs = tp + PerMs
      BY <1>1, Z3
    <2> QED
      BY <2>1, <2>2
  <1>7. sp <= tp /\ (s < t => sp + PerMs <= tp)
    <2>1. (s + 1) * PerMs = sp + PerMs
      BY <1>1, Z3
    <2>2. s <= t /\ (s < t => s + 1 <= t) /\ s + 1 \in Nat
      BY <1>1, <1>3
    <2> QED
      BY <1>1, <2>1, <2>2, ProductMonotone
  <1>8. tp + PerMs <= sp + Capacity
    <2>1. t + 1 <= s + Span /\ t + 1 \in Nat /\ s + Span \in Nat
      BY <1>1, <1>4
    <2>2. (t + 1) * PerMs <= (s + Span) * PerMs
      BY <1>1, <2>1, ProductMonotone
    <2>3. (s + Span) * PerMs = sp + Span * PerMs
      BY <1>1, Z3
    <2> QED
      BY <1>6, <2>2, <2>3 DEF Capacity
  <1> HIDE DEF sp, tp
  <1>9. sp + n < tp + m
    BY <1>1, <1>2, <1>3, <1>6, <1>7
  <1>10. (tp + m) - (sp + n) < Capacity
    BY <1>1, <1>2, <1>6, <1>8, CapacityPositive
  <1> QED
    BY <1>1, <1>2, <1>5, <1>6, <1>9, <1>10 DEF sp, s, t

\* Within a turn of the six bytes so are their remainders.
LEMMA RemaindersInOrder ==
    ASSUME IdInv, NEW i \in DOMAIN issued, NEW j \in DOMAIN issued,
           NEW v \in Nat, NEW w \in Nat, v < w, issued[i].time * PerMs < v,
           w <= (issued[j].time + 1) * PerMs,
           issued[i].time \div Span = (issued[j].time + 1) \div Span
    PROVE  v % Capacity < w % Capacity
  <1> DEFINE s == issued[i].time
             t == issued[j].time
             q == s \div Span
  <1>1. s \in Nat /\ t \in Nat /\ t + 1 \in Nat /\ Span \in Nat \ {0} /\ PerMs \in Nat \ {0}
    BY IssuedTypes, IdAssumption, SMTT(30)
  <1>2. s * PerMs < v /\ w <= (t + 1) * PerMs /\ q = (t + 1) \div Span
    OBVIOUS
  <1> HIDE DEF s, t
  <1>3. /\ q \in Nat /\ s = q * Span + (s % Span) /\ s % Span \in Nat
        /\ t + 1 = q * Span + ((t + 1) % Span) /\ (t + 1) % Span \in 0..Span - 1
    <2>1. q \in Nat /\ s = q * Span + (s % Span) /\ s % Span \in 0..Span - 1
      BY <1>1, Division
    <2>2. /\ (t + 1) % Span \in 0..Span - 1
          /\ t + 1 = ((t + 1) \div Span) * Span + ((t + 1) % Span)
      BY <1>1, Division
    <2> QED
      BY <2>1, <2>2, <1>1, <1>2
  <1> HIDE DEF q
  <1> DEFINE turn == q * Span
             below == q * Capacity
  <1>4. turn \in Nat /\ turn <= s /\ t + 1 + 1 <= turn + Span
    <2>1. turn \in Nat
      BY <1>1, <1>3, ProductMonotone
    <2> QED
      BY <2>1, <1>1, <1>3
  <1>5. turn * PerMs = below
    BY <1>1, <1>3, Z3 DEF Capacity
  <1>6. (turn + Span) * PerMs = below + Capacity
    BY <1>1, <1>3, <1>4, <1>5, Z3 DEF Capacity
  <1>7. (t + 1 + 1) * PerMs = (t + 1) * PerMs + PerMs
    BY <1>1, Z3
  <1> HIDE DEF turn
  <1>8. below <= s * PerMs /\ below \in Nat /\ s * PerMs \in Nat
    BY <1>1, <1>4, <1>5, ProductMonotone
  <1>9. (t + 1 + 1) * PerMs <= below + Capacity /\ (t + 1) * PerMs \in Nat
    <2>1. t + 1 + 1 \in Nat /\ turn + Span \in Nat /\ PerMs \in Nat
      BY <1>1, <1>4
    <2> QED
      BY <2>1, <1>1, <1>4, <1>6, ProductMonotone
  <1> HIDE DEF below
  <1>10. below <= v
    BY <1>2, <1>8
  <1>11. w < below + Capacity
    BY <1>1, <1>2, <1>7, <1>8, <1>9, CapacityPositive
  <1> QED
    BY <1>3, <1>10, <1>11, CapacityPositive, RemaindersSort DEF below

\* What the invariant says about two ids of a kind.
LEMMA CountsSort ==
    ASSUME IdInv
    PROVE  TimePartsSorted
  <1> SUFFICES ASSUME NEW i \in DOMAIN issued, NEW j \in DOMAIN issued,
                      i < j, Ordinary(i, j), issued[i].kind = issued[j].kind
               PROVE  /\ issued[i].part # issued[j].part
                      /\ issued[i].time \div Span = (issued[j].time + 1) \div Span =>
                            (issued[i].kind = "ses" <=> issued[i].part > issued[j].part)
    BY DEF TimePartsSorted
  <1>1. PICK n \in 1..i : nthOf(i, n) /\ issued[i].part = timePart(issued[i].kind, valueOf(i, n))
    BY DEF IdInv, CountInv
  <1>2. PICK m \in 1..j : nthOf(j, m) /\ issued[j].part = timePart(issued[j].kind, valueOf(j, m))
    BY DEF IdInv, CountInv
  <1> DEFINE v == valueOf(i, n)
             w == valueOf(j, m)
             x == v % Capacity
             y == w % Capacity
  <1>3. /\ v \in Nat /\ w \in Nat /\ v < w /\ w - v < Capacity
        /\ issued[i].time * PerMs < v /\ w <= (issued[j].time + 1) * PerMs
    BY <1>1, <1>2, ValuesInOrder
  <1>4. /\ issued[i].kind \in Kinds
        /\ issued[i].part = IF issued[i].kind = "ses" THEN Capacity - 1 - x ELSE x
        /\ issued[j].part = IF issued[i].kind = "ses" THEN Capacity - 1 - y ELSE y
    BY <1>1, <1>2, IssuedTypes DEF timePart
  <1> HIDE DEF v, w
  <1>5. x \in 0..Capacity - 1 /\ y \in 0..Capacity - 1 /\ x # y
    BY <1>3, CapacityPositive, Division, RemaindersDiffer
  <1>6. issued[i].time \div Span = (issued[j].time + 1) \div Span => x < y
    BY <1>3, RemaindersInOrder
  <1> HIDE DEF x, y
  <1> QED
    BY <1>4, <1>5, <1>6, CapacityPositive

-----------------------------------------------------------------------------
(* Sessions.                                                                 *)

\* What the headers looked at can say.
Sayings == UNION {{inbound[signalHeaders[k]] : k \in DOMAIN signalHeaders} : inbound \in Inbounds}

DrawnIds == [part : 0..Capacity - 1, rest : 1..MaxIds]

\* The drawn ids, as they are recorded.
DrawnValues == {headerValue(FALSE, id, NoText) : id \in DrawnIds}

Asked == [signalled : BOOLEAN, signal : Sayings \cup DrawnValues,
          session : {value.head : value \in Sayings} \cup OwnIds]

\* The three ways to a session.
digested(s) == s.signalled /\ s.signal.head \in Signals /\ s.session = digestOf(s.signal.head)
forwarded(s) == /\ s.signalled /\ s.signal.head \notin Signals
                /\ isCanonical(s.signal.head) /\ s.session = s.signal.head
madeUp(s, drawn) == /\ ~s.signalled /\ s.signal.head \in DrawnIds /\ s.signal.head.rest <= drawn
                    /\ s.session \in DrawnIds /\ s.session.rest = s.signal.head.rest
                    /\ isCanonical(s.session)
                    /\ isCanonical(s.signal.head) => s.session = s.signal.head

\* Every session has come one of these ways, and none of the made up ones has
\* the characters of another.
SessionInv ==
    /\ sessions \in Seq(Asked)
    /\ \A k \in DOMAIN sessions :
          \/ digested(sessions[k]) \/ forwarded(sessions[k])
          \/ madeUp(sessions[k], Len(issued))
    /\ \A j, k \in DOMAIN sessions :
          j # k /\ ~sessions[j].signalled /\ ~sessions[k].signalled
             => sessions[j].signal.head.rest # sessions[k].signal.head.rest

\* The last request was sent with the headers of its session.
HeadersInv ==
    sessions # <<>> => \E inbound \in Inbounds :
                          headers = headersWith(inbound, sessions[Len(sessions)].session)

SessionsInv == IdInv /\ SessionInv /\ HeadersInv

\* The time part of a digest is canonical, whatever the digest.
LEMMA DigestsAreCanonical ==
    ASSUME NEW bits \in 0..Span - 1
    PROVE  /\ descendingTimePart(bits) \in 0..Capacity - 1
           /\ descendingTimePart(bits) % PerMs >= PerMs - Window
  <1> DEFINE q == Span - 1 - bits
             r == PerMs - 2
  <1>1. /\ PerMs \in Nat \ {0} /\ Span \in Nat \ {0} /\ PerMs >= 2
        /\ r \in 0..PerMs - 1 /\ q \in Nat /\ bits \in Nat /\ Window \in 2..PerMs
    BY IdAssumption, SessionAssumption
  <1>2. descendingTimePart(bits) = q * PerMs + r
    <2>1. q + bits + 1 = Span
      BY <1>1
    <2> HIDE DEF q
    <2>2. (q + bits + 1) * PerMs = q * PerMs + bits * PerMs + PerMs
      BY <1>1, Z3
    <2>3. q * PerMs \in Nat /\ bits * PerMs \in Nat
      BY <1>1, ProductMonotone
    <2> QED
      BY <1>1, <2>1, <2>2, <2>3 DEF descendingTimePart, Capacity
  <1>3. (q * PerMs + r) % PerMs = r
    BY <1>1, DivisionUnique
  <1>4. q * PerMs + r \in 0..Capacity - 1
    <2>1. q + 1 <= Span /\ q + 1 \in Nat /\ q * PerMs \in Nat
      BY <1>1, ProductMonotone
    <2>2. (q + 1) * PerMs <= Capacity
      BY <1>1, <2>1, ProductMonotone DEF Capacity
    <2> HIDE DEF q
    <2>3. (q + 1) * PerMs = q * PerMs + PerMs
      BY <1>1, Z3
    <2> QED
      BY <1>1, <2>1, <2>2, <2>3, CapacityPositive
  <1> QED
    BY <1>1, <1>2, <1>3, <1>4

\* The digest of a signal is a canonical id.
LEMMA DigestOfSignal ==
    ASSUME NEW signal \in Signals
    PROVE  /\ digestOf(signal) \in OwnIds /\ isCanonical(digestOf(signal))
           /\ digestOf(signal).rest = signal
  <1>1. digest[signal] \in 0..Span - 1
    BY SessionAssumption
  <1>2. /\ descendingTimePart(digest[signal]) \in 0..Capacity - 1
        /\ descendingTimePart(digest[signal]) % PerMs >= PerMs - Window
    BY <1>1, DigestsAreCanonical
  <1> QED
    BY <1>2 DEF digestOf, OwnIds, isCanonical

\* The session made of a drawn id.
LEMMA CanonicalDraw ==
    ASSUME NEW id \in DrawnIds, NEW bits \in 0..Span - 1
    PROVE  /\ canonicalId(id, bits) \in DrawnIds /\ canonicalId(id, bits).rest = id.rest
           /\ isCanonical(canonicalId(id, bits))
           /\ isCanonical(id) => canonicalId(id, bits) = id
  <1>1. CASE isCanonical(id)
    BY <1>1 DEF canonicalId
  <1>2. CASE ~isCanonical(id)
    <2>1. canonicalId(id, bits) = [id EXCEPT !.part = descendingTimePart(bits)]
      BY <1>2 DEF canonicalId
    <2>2. /\ descendingTimePart(bits) \in 0..Capacity - 1
          /\ descendingTimePart(bits) % PerMs >= PerMs - Window
      BY DigestsAreCanonical
    <2>3. /\ [id EXCEPT !.part = descendingTimePart(bits)] \in DrawnIds
          /\ [id EXCEPT !.part = descendingTimePart(bits)].rest = id.rest
          /\ [id EXCEPT !.part = descendingTimePart(bits)].part = descendingTimePart(bits)
      BY <2>2 DEF DrawnIds
    <2> QED
      BY <1>2, <2>1, <2>2, <2>3 DEF isCanonical
  <1> QED
    BY <1>1, <1>2

\* A request with a signal has one in the headers looked at.
LEMMA SignalIsSaid ==
    ASSUME NEW inbound \in Inbounds, signalled(inbound)
    PROVE  /\ signalOf(inbound) \in Sayings
           /\ signalOf(inbound).head \in Signals \/ isCanonical(signalOf(inbound).head)
  <1> DEFINE set(k) == says(inbound, k)
             first(k) == set(k) /\ \A l \in 1..k - 1 : ~set(l)
  <1>1. DOMAIN signalHeaders = 1..5
    BY DEF signalHeaders
  <1>2. PICK k \in 1..5 : set(k)
    BY <1>1 DEF signalled
  <1>3. \E h \in 1..5 : first(h)
    <2> HIDE DEF set
    <2>1. set(1) \/ set(2) \/ set(3) \/ set(4) \/ set(5)
      <3>1. k = 1 \/ k = 2 \/ k = 3 \/ k = 4 \/ k = 5
        OBVIOUS
      <3> QED
        BY <3>1, <1>2
    <2>2. /\ \A l \in 1..1 - 1 : ~set(l)
          /\ \A l \in 1..2 - 1 : l = 1
          /\ \A l \in 1..3 - 1 : l = 1 \/ l = 2
          /\ \A l \in 1..4 - 1 : l = 1 \/ l = 2 \/ l = 3
          /\ \A l \in 1..5 - 1 : l = 1 \/ l = 2 \/ l = 3 \/ l = 4
      OBVIOUS
    <2>3. first(1) \/ first(2) \/ first(3) \/ first(4) \/ first(5)
      BY <2>1, <2>2
    <2> QED
      BY <2>3
  <1> DEFINE h == CHOOSE n \in DOMAIN signalHeaders :
                     says(inbound, n) /\ \A l \in 1..n - 1 : ~says(inbound, l)
  <1>4. h \in DOMAIN signalHeaders /\ says(inbound, h)
    BY <1>1, <1>3
  <1>5. signalOf(inbound) = inbound[signalHeaders[h]]
    BY DEF signalOf
  <1> HIDE DEF h
  <1>6. /\ signalHeaders[h] \in DOMAIN inbound
        /\ signalOf(inbound).head # NoText
    BY <1>4, <1>5 DEF says, cleanHeaderValue
  <1> QED
    BY <1>4, <1>5, <1>6, InboundAssumption DEF Sayings

\* One more session of one of the three ways; a made up one has the characters
\* of a new draw.
LEMMA SessionAppended ==
    ASSUME SessionInv, NEW rec \in Asked, sessions' = Append(sessions, rec),
           digested(rec) \/ forwarded(rec) \/ madeUp(rec, Len(issued')),
           Len(issued) \in Nat, Len(issued') \in Nat, Len(issued) <= Len(issued'),
           rec.signalled \/ rec.signal.head.rest > Len(issued)
    PROVE  SessionInv'
  <1> DEFINE m == Len(sessions)
  <1>1. sessions \in Seq(Asked)
    BY DEF SessionInv
  <1>2. /\ m \in Nat /\ DOMAIN sessions = 1..m /\ DOMAIN sessions' = 1..m + 1
        /\ \A k \in 1..m : sessions'[k] = sessions[k]
        /\ sessions'[m + 1] = rec /\ sessions' \in Seq(Asked)
    BY <1>1
  <1>3. \A k \in 1..m : \/ digested(sessions[k]) \/ forwarded(sessions[k])
                        \/ madeUp(sessions[k], Len(issued))
    BY <1>2 DEF SessionInv
  <1>4. ASSUME NEW s, madeUp(s, Len(issued))
        PROVE  madeUp(s, Len(issued'))
    <2>1. s.signal.head.rest \in Nat
      BY <1>4, IdAssumption DEF madeUp, DrawnIds
    <2> QED
      BY <1>4, <2>1 DEF madeUp
  <1>5. \A k \in DOMAIN sessions' : \/ digested(sessions'[k]) \/ forwarded(sessions'[k])
                                    \/ madeUp(sessions'[k], Len(issued'))
    <2> TAKE k \in DOMAIN sessions'
    <2>1. k = m + 1 \/ k \in 1..m
      BY <1>2
    <2> QED
      BY <2>1, <1>2, <1>3, <1>4
  <1>6. \A j \in 1..m : ~sessions[j].signalled =>
           sessions[j].signal.head.rest \in Nat /\ sessions[j].signal.head.rest <= Len(issued)
    BY <1>3, IdAssumption DEF madeUp, digested, forwarded, DrawnIds
  <1>7. rec.signalled \/ rec.signal.head.rest \in Nat
    BY IdAssumption DEF madeUp, digested, forwarded, DrawnIds
  <1>8. \A j, k \in DOMAIN sessions' :
           j # k /\ ~sessions'[j].signalled /\ ~sessions'[k].signalled
              => sessions'[j].signal.head.rest # sessions'[k].signal.head.rest
    <2> TAKE j, k \in DOMAIN sessions'
    <2> HAVE j # k /\ ~sessions'[j].signalled /\ ~sessions'[k].signalled
    <2>1. CASE j \in 1..m /\ k \in 1..m
      BY <2>1, <1>2 DEF SessionInv
    <2>2. CASE j = m + 1 /\ k \in 1..m
      BY <2>2, <1>2, <1>6, <1>7
    <2>3. CASE j \in 1..m /\ k = m + 1
      BY <2>3, <1>2, <1>6, <1>7
    <2> QED
      BY <2>1, <2>2, <2>3, <1>2
  <1> QED
    BY <1>2, <1>5, <1>8 DEF SessionInv

\* A request with a signal keeps the invariant.
LEMMA SignalledStep ==
    ASSUME SessionsInv, NEW inbound \in Inbounds, SignalledRequest(inbound)
    PROVE  SessionsInv'
  <1> DEFINE signal == signalOf(inbound)
             session == canonicalSignal(signal.head)
             rec == [signalled |-> TRUE, signal |-> signal, session |-> session]
  <1>1. /\ signalled(inbound) /\ sessions' = Append(sessions, rec)
        /\ headers' = headersWith(inbound, session) /\ UNCHANGED vars
    BY DEF SignalledRequest, cleanHeaderValue
  <1>2. signal \in Sayings /\ (signal.head \in Signals \/ isCanonical(signal.head))
    BY <1>1, SignalIsSaid
  <1> HIDE DEF signal
  <1>3. /\ signal.head \in Signals => session = digestOf(signal.head) /\ session \in OwnIds
        /\ signal.head \notin Signals => session = signal.head
    BY DigestOfSignal DEF canonicalSignal
  <1> HIDE DEF session
  <1>4. rec \in Asked /\ (digested(rec) \/ forwarded(rec)) /\ rec.signalled
    BY <1>2, <1>3 DEF Asked, digested, forwarded
  <1>5. IdInv'
    BY <1>1, IdStep DEF SessionsInv
  <1>6. SessionInv'
    <2>1. Len(issued) \in Nat /\ issued' = issued
      BY <1>1, IssuedTypes DEF SessionsInv, vars
    <2>2. Len(issued') = Len(issued) /\ Len(issued) <= Len(issued)
      BY <2>1
    <2> HIDE DEF rec
    <2> QED
      BY <1>1, <1>4, <2>1, <2>2, SessionAppended DEF SessionsInv
  <1>7. HeadersInv'
    <2>1. sessions'[Len(sessions')] = rec
      <3>1. sessions \in Seq(Asked)
        BY DEF SessionsInv, SessionInv
      <3> HIDE DEF rec
      <3> QED
        BY <1>1, <3>1
    <2>2. sessions'[Len(sessions')].session = session
      BY <2>1
    <2> QED
      BY <1>1, <2>2 DEF HeadersInv, headersWith
  <1> QED
    BY <1>5, <1>6, <1>7 DEF SessionsInv

\* So does one without, whatever is drawn for it and whatever its digest.
LEMMA UnsignalledStep ==
    ASSUME SessionsInv, NEW c \in Callers, NEW inbound \in Inbounds,
           UnsignalledRequest(c, inbound)
    PROVE  SessionsInv'
  <1> DEFINE n == Len(issued')
             drawn == [part |-> issued'[n].part, rest |-> n]
  <1>1. DrawNumber(c, "ses")
    BY DEF UnsignalledRequest
  <1>2. PICK bits \in 0..Span - 1 :
          /\ sessions' = Append(sessions, [signalled |-> FALSE,
                                           session |-> canonicalId(drawn, bits),
                                           signal |-> headerValue(FALSE, drawn, NoText)])
          /\ headers' = headersWith(inbound, canonicalId(drawn, bits))
    BY DEF UnsignalledRequest
  <1>3. "ses" \in Kinds /\ IdInv
    BY DEF Kinds, SessionsInv
  <1>4. IdInv'
    BY <1>1, <1>3, DrawKeepsIds
  <1>5. /\ Len(issued) \in Nat /\ Len(issued) < MaxIds /\ n = Len(issued) + 1
        /\ DOMAIN issued' = 1..n
    BY <1>1, <1>3, DrawAppends
  <1>6. drawn \in DrawnIds
    <2> DEFINE Rec == [kind : Kinds, time : 0..MaxTime, part : 0..Capacity - 1]
    <2>1. issued' \in Seq(Rec)
      BY <1>4 DEF IdInv, TypeOK, Capacity
    <2> HIDE DEF Rec, n
    <2>2. n \in DOMAIN issued' /\ n \in 1..MaxIds
      BY <1>5, IdAssumption
    <2>3. issued'[n] \in Rec
      BY <2>1, <2>2
    <2>4. issued'[n].part \in 0..Capacity - 1
      BY <2>3 DEF Rec
    <2> QED
      BY <2>2, <2>4 DEF DrawnIds
  <1>7. drawn.rest = n
    OBVIOUS
  <1> HIDE DEF n, drawn
  <1> DEFINE session == canonicalId(drawn, bits)
             rec == [signalled |-> FALSE, session |-> session,
                     signal |-> headerValue(FALSE, drawn, NoText)]
  <1>8. /\ session \in DrawnIds /\ session.rest = drawn.rest /\ isCanonical(session)
        /\ isCanonical(drawn) => session = drawn
    BY <1>6, CanonicalDraw
  <1>9. sessions' = Append(sessions, rec) /\ headers' = headersWith(inbound, session)
    BY <1>2
  <1> HIDE DEF session
  <1>10. DrawnIds \subseteq OwnIds
    BY DEF DrawnIds, OwnIds
  <1>11. rec \in Asked /\ madeUp(rec, n) /\ rec.signal.head.rest > Len(issued)
    <2>1. /\ headerValue(FALSE, drawn, NoText) \in DrawnValues
          /\ rec.signal.head = drawn /\ ~rec.signalled /\ rec.session = session
      BY <1>6 DEF DrawnValues, headerValue
    <2>2. rec \in Asked
      BY <1>8, <1>10, <2>1 DEF Asked
    <2> HIDE DEF rec
    <2>3. drawn.rest <= n /\ drawn.rest > Len(issued)
      BY <1>5, <1>7
    <2> QED
      BY <1>6, <1>8, <2>1, <2>2, <2>3 DEF madeUp
  <1>12. SessionInv'
    <2>1. Len(issued') \in Nat /\ Len(issued) <= Len(issued') /\ madeUp(rec, Len(issued'))
      BY <1>5, <1>11 DEF n
    <2> HIDE DEF rec
    <2> QED
      BY <1>5, <1>9, <1>11, <2>1, SessionAppended DEF SessionsInv
  <1>13. HeadersInv'
    <2>1. sessions'[Len(sessions')] = rec
      <3>1. sessions \in Seq(Asked)
        BY DEF SessionsInv, SessionInv
      <3> HIDE DEF rec
      <3> QED
        BY <1>9, <3>1
    <2>2. sessions'[Len(sessions')].session = session
      BY <2>1
    <2> QED
      BY <1>9, <2>2 DEF HeadersInv, headersWith
  <1> QED
    BY <1>4, <1>12, <1>13 DEF SessionsInv

\* A step of the generator that makes no session keeps what is known of them.
LEMMA GeneratorStep ==
    ASSUME SessionsInv, [Next]_vars, UNCHANGED sessionVars
    PROVE  SessionsInv'
  <1>1. IdInv' /\ IdInv
    BY IdStep DEF SessionsInv
  <1>2. Len(issued) \in Nat /\ Len(issued') \in Nat
    BY <1>1, IssuedTypes DEF IdInv, TypeOK
  <1>3. Len(issued) <= Len(issued')
    <2>1. CASE issued' = issued
      BY <2>1, <1>2
    <2>2. ASSUME NEW c \in Callers, NEW kind \in Kinds, DrawNumber(c, kind)
          PROVE  Len(issued) <= Len(issued')
      <3>1. Len(issued') = Len(issued) + 1
        BY <1>1, <2>2, DrawAppends
      <3> QED
        BY <1>2, <3>1
    <2> QED
      BY <2>1, <2>2 DEF Next, ReadClock, Enough, vars
  <1>4. ASSUME NEW s, madeUp(s, Len(issued))
        PROVE  madeUp(s, Len(issued'))
    <2>1. s.signal.head.rest \in Nat
      BY <1>4, IdAssumption DEF madeUp, DrawnIds
    <2> QED
      BY <1>2, <1>3, <1>4, <2>1 DEF madeUp
  <1>5. sessions' = sessions /\ headers' = headers
    BY DEF sessionVars
  <1>6. SessionInv'
    BY <1>4, <1>5 DEF SessionsInv, SessionInv
  <1>7. HeadersInv'
    BY <1>5 DEF SessionsInv, HeadersInv, headersWith
  <1> QED
    BY <1>1, <1>6, <1>7 DEF SessionsInv

\* The invariant of generator and sessions together: each id was made of its
\* place in the row of its millisecond, each session came one of three ways.
THEOREM SessionsInvariant == SessionSpec => []SessionsInv
  <1>1. SessionInit => SessionsInv
    <2> SUFFICES ASSUME SessionInit PROVE SessionsInv
      OBVIOUS
    <2>1. issued = <<>> /\ sessions = <<>> /\ timestamp = 0 /\ counter = 0
      BY DEF SessionInit, Init
    <2>2. TypeOK
      BY <2>1, IdAssumption DEF SessionInit, Init, TypeOK
    <2>3. CountInv
      BY <2>1, IdAssumption DEF CountInv
    <2>4. SessionInv /\ HeadersInv
      BY <2>1 DEF SessionInv, HeadersInv
    <2> QED
      BY <2>2, <2>3, <2>4 DEF SessionsInv, IdInv
  <1>2. SessionsInv /\ [SessionNext]_<<vars, sessionVars>> => SessionsInv'
    <2> SUFFICES ASSUME SessionsInv, [SessionNext]_<<vars, sessionVars>>
                 PROVE  SessionsInv'
      OBVIOUS
    <2>1. ASSUME NEW c \in Callers, ReadClock(c) /\ UNCHANGED sessionVars
          PROVE  SessionsInv'
      BY <2>1, GeneratorStep DEF Next
    <2>2. ASSUME NEW c \in Callers, DrawNumber(c, "msg") /\ UNCHANGED sessionVars
          PROVE  SessionsInv'
      BY <2>2, GeneratorStep DEF Next, Kinds
    <2>3. CASE UNCHANGED <<vars, sessionVars>>
      BY <2>3, GeneratorStep
    <2> QED
      BY <2>1, <2>2, <2>3, SignalledStep, UnsignalledStep DEF SessionNext
  <1> QED
    BY <1>1, <1>2, PTL DEF SessionSpec

\* Two ids of a kind collide, or sort the wrong way, only in the cases
\* TimePartsSorted names: for any number of callers between the clock and the
\* lock, any clock and any width of the time part.
THEOREM IdsSort == SessionSpec => []TimePartsSorted
  <1>1. SessionsInv => TimePartsSorted
    BY CountsSort DEF SessionsInv
  <1> QED
    BY <1>1, SessionsInvariant, PTL

\* Every session upstream sees has the form it knows, and every affinity
\* header the last session, for any headers and any digest.
THEOREM EverySessionCanonical == SessionSpec => []SessionsCanonical
  <1>1. SessionsInv => SessionsCanonical
    <2> SUFFICES ASSUME SessionsInv PROVE SessionsCanonical
      OBVIOUS
    <2>1. ASSUME NEW k \in DOMAIN sessions
          PROVE  isCanonical(sessions[k].session)
      BY DigestOfSignal DEF SessionsInv, SessionInv, digested, forwarded, madeUp
    <2>2. ASSUME sessions # <<>>
          PROVE  /\ \A name \in affinityHeaders :
                       /\ name \in DOMAIN headers
                       /\ headers[name] = sessions[Len(sessions)].session
                 /\ DOMAIN headers \cap correlationHeaders = {}
      <3>1. PICK inbound \in Inbounds :
               headers = headersWith(inbound, sessions[Len(sessions)].session)
        BY <2>2 DEF SessionsInv, HeadersInv
      <3>2. affinityHeaders \cap correlationHeaders = {}
        BY DEF affinityHeaders, correlationHeaders
      <3> QED
        BY <3>1, <3>2 DEF headersWith
    <2> QED
      BY <2>1, <2>2 DEF SessionsCanonical
  <1> QED
    BY <1>1, SessionsInvariant, PTL

\* Whichever ways two sessions came, they are the same exactly when their
\* signals agree, as far as they are read: without the white space around them
\* and up to 256 bytes.  Another gateway leaves them as they are.
THEOREM ConversationsKept == SessionSpec => []SessionKept
  <1>1. SessionsInv => SessionKept
    <2> SUFFICES ASSUME SessionsInv, NEW j \in DOMAIN sessions, NEW k \in DOMAIN sessions
                 PROVE  /\ sessions[j].session = sessions[k].session
                             <=> \/ sessions[j].signal.head = sessions[k].signal.head
                                 \/ sessions[j].signal.head = sessions[k].session
                                 \/ sessions[k].signal.head = sessions[j].session
                        /\ canonicalSignal(sessions[k].session) = sessions[k].session
      BY DEF SessionKept
    <2> DEFINE a == sessions[j]
               b == sessions[k]
    <2>1. /\ digested(a) \/ forwarded(a) \/ madeUp(a, Len(issued))
          /\ digested(b) \/ forwarded(b) \/ madeUp(b, Len(issued))
          /\ ~a.signalled /\ ~b.signalled /\ a # b => a.signal.head.rest # b.signal.head.rest
      BY DEF SessionsInv, SessionInv
    <2> HIDE DEF a, b
    <2>2. \A id \in DrawnIds : /\ id \in OwnIds /\ id \notin Signals
                               /\ id.rest \notin Signals
      BY SignalAssumption DEF DrawnIds, OwnIds
    <2>3. \A signal \in Signals : /\ digestOf(signal) \notin Signals
                                  /\ isCanonical(digestOf(signal))
                                  /\ digestOf(signal).rest = signal
      BY DigestOfSignal, SignalAssumption
    <2>4. b.session \notin Signals /\ a.session \notin Signals
      BY <2>1, <2>2, <2>3 DEF digested, forwarded, madeUp
    <2>5. canonicalSignal(b.session) = b.session
      BY <2>4 DEF canonicalSignal
    <2>6. a.session = b.session
             <=> \/ a.signal.head = b.signal.head
                 \/ a.signal.head = b.session \/ b.signal.head = a.session
      <3>1. CASE digested(a) /\ digested(b)
        BY <3>1, <2>3, <2>4 DEF digested
      <3>2. CASE digested(a) /\ forwarded(b)
        BY <3>2, <2>3, <2>4 DEF digested, forwarded
      <3>3. CASE forwarded(a) /\ digested(b)
        BY <3>3, <2>3, <2>4 DEF digested, forwarded
      <3>4. CASE forwarded(a) /\ forwarded(b)
        BY <3>4 DEF forwarded
      <3>5. CASE digested(a) /\ madeUp(b, Len(issued))
        BY <3>5, <2>2, <2>3, <2>4 DEF digested, madeUp
      <3>6. CASE madeUp(a, Len(issued)) /\ digested(b)
        BY <3>6, <2>2, <2>3, <2>4 DEF digested, madeUp
      <3>7. CASE forwarded(a) /\ madeUp(b, Len(issued))
        BY <3>7 DEF forwarded, madeUp
      <3>8. CASE madeUp(a, Len(issued)) /\ forwarded(b)
        BY <3>8 DEF forwarded, madeUp
      <3>9. CASE madeUp(a, Len(issued)) /\ madeUp(b, Len(issued))
        BY <3>9, <2>1 DEF madeUp
      <3> QED
        BY <2>1, <3>1, <3>2, <3>3, <3>4, <3>5, <3>6, <3>7, <3>8, <3>9
    <2> QED
      BY <2>5, <2>6 DEF a, b
  <1> QED
    BY <1>1, SessionsInvariant, PTL
=============================================================================
