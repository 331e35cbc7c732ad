------------------------ MODULE WholeResponseProofs ------------------------
(* What a client receives of a response that is played out from its object,  *)
(* for any response a conversion can return: it ends with the very items of  *)
(* that response, and no event is one the protocol forbids.                  *)
EXTENDS WholeResponse, SequenceTheorems, TLAPS

Early == {"created", "in_progress", "reading"}
ItemPlaces == {"part.added", "delta", "body.done", "part.done", "item.done"}
Playing == {"items"} \cup ItemPlaces
Answered == phase \in {"completed", "incomplete"}

\* How far the item under way has come when the handler is at a place.
stageAt(kind, place) ==
    IF kind = "message"
    THEN IF place = "part.added" THEN "added"
         ELSE IF place \in {"delta", "body.done"} THEN "part"
         ELSE IF place = "part.done" THEN "sealed" ELSE "closed"
    ELSE IF kind # "reasoning" /\ place = "item.done" THEN "sealed" ELSE "added"

\* The client's copy of it.
shown(full, place) ==
    [full EXCEPT !.stage = stageAt(full.kind, place),
                 !.body = IF place \in {"part.added", "delta"} THEN <<>> ELSE full.body]

PlaceInv ==
    /\ done => pc = "returned"
    /\ broken => pc \in {"fail", "returned"}
    /\ pc = "fail" => broken
    /\ pc \in Early => index = 0 /\ response.output = <<>>
    /\ pc \in ItemPlaces => index < Len(response.output)
    /\ \A k \in 1..Len(response.output) : Whole(response.output[k])
    /\ pc \in {"part.added", "part.done"} => item.kind = "message"
    /\ pc \in {"delta", "body.done"} => item.kind # "reasoning"

PhaseInv ==
    /\ live => /\ pc = "created" => phase = "none"
               /\ pc = "in_progress" => phase = "created"
               /\ pc \in {"reading", "fail"} \cup Playing => phase = "in_progress"
               /\ pc = "returned" => phase = IF broken THEN "failed" ELSE response.status
    /\ pc # "returned" => phase \notin Terminal
    /\ Answered => items = response.output /\ phase = response.status
    /\ ~Answered => output = <<>>

ViewInv ==
    /\ live /\ pc \in Early => items = <<>>
    /\ live /\ pc \in Playing =>
           /\ Len(items) = IF pc = "items" THEN index ELSE index + 1
           /\ \A k \in 1..index : items[k] = response.output[k]
           /\ pc # "items" => items[index + 1] = shown(item, pc)

IInv == TypeOK /\ PlaceInv /\ PhaseInv /\ ViewInv

-----------------------------------------------------------------------------

\* The copy of an item, field by field.
LEMMA ShownFields ==
    ASSUME NEW full \in ItemState, NEW place
    PROVE  shown(full, place) =
               [kind |-> full.kind, name |-> full.name, callID |-> full.callID,
                body |-> IF place \in {"part.added", "delta"} THEN <<>> ELSE full.body,
                stage |-> stageAt(full.kind, place)]
  <1> DEFINE body  == IF place \in {"part.added", "delta"} THEN <<>> ELSE full.body
             stage == stageAt(full.kind, place)
  <1>1. shown(full, place) = [full EXCEPT !.stage = stage, !.body = body]
    BY DEF shown
  <1> HIDE DEF body, stage
  <1> DEFINE staged == [full EXCEPT !.stage = stage]
  <1>2. [full EXCEPT !.stage = stage, !.body = body] = [staged EXCEPT !.body = body]
    BY DEF ItemState
  <1>3. staged = [kind |-> full.kind, name |-> full.name, callID |-> full.callID,
                  body |-> full.body, stage |-> stage]
    BY DEF ItemState
  <1> HIDE DEF staged
  <1>4. [staged EXCEPT !.body = body] =
            [kind |-> full.kind, name |-> full.name, callID |-> full.callID,
             body |-> body, stage |-> stage]
    BY <1>3
  <1> QED
    BY <1>1, <1>2, <1>4 DEF body, stage, staged

\* Replacing one element of a sequence of items.
LEMMA Replaced ==
    ASSUME NEW s \in Seq(ItemState), NEW n \in 1..Len(s), NEW e \in ItemState
    PROVE  /\ [s EXCEPT ![n] = e] \in Seq(ItemState)
           /\ Len([s EXCEPT ![n] = e]) = Len(s)
           /\ [s EXCEPT ![n] = e][n] = e
           /\ \A k \in 1..Len(s) : k # n => [s EXCEPT ![n] = e][k] = s[k]
  BY ExceptSeq

-----------------------------------------------------------------------------
(* The item under way                                                        *)

\* The item under way is one of the response, and what the client has of it
\* is its copy.
LEMMA UnderWay ==
    ASSUME IInv, pc \in ItemPlaces \/ (pc = "items" /\ index < Len(response.output))
    PROVE  /\ index \in Nat /\ index + 1 \in 1..Len(response.output)
           /\ item \in ItemState /\ Whole(item)
           /\ \A place \in ItemPlaces : shown(item, place) \in ItemState
           /\ items \in Seq(ItemState) /\ Len(items) \in Nat /\ DOMAIN items = 1..Len(items)
           /\ live => phase = "in_progress" /\ Len(items) \in {index, index + 1}
           /\ live /\ pc # "items" => Len(items) = index + 1 /\ items[index + 1] = shown(item, pc)
  <1>1. index \in Nat /\ Len(response.output) \in Nat /\ response.output \in Seq(ItemState)
    BY LenProperties DEF IInv, TypeOK
  <1>2. index + 1 \in 1..Len(response.output)
    BY <1>1 DEF IInv, PlaceInv, TypeOK
  <1>3. item \in ItemState /\ Whole(item)
    BY <1>1, <1>2, ElementOfSeq DEF IInv, PlaceInv, item
  <1>4. \A place \in ItemPlaces : shown(item, place) \in ItemState
    <2> TAKE place \in ItemPlaces
    <2>1. stageAt(item.kind, place) \in {"added", "part", "sealed", "closed", "done"}
      BY DEF stageAt
    <2>2. (IF place \in {"part.added", "delta"} THEN <<>> ELSE item.body) \in Seq(STRING)
      BY <1>3, EmptySeq DEF ItemState
    <2> HIDE DEF item
    <2> QED
      BY <1>3, <2>1, <2>2 DEF shown, ItemState
  <1>5. items \in Seq(ItemState) /\ Len(items) \in Nat /\ DOMAIN items = 1..Len(items)
    BY LenProperties DEF IInv, TypeOK, StreamTypeOK
  <1>6. live => phase = "in_progress" /\ Len(items) \in {index, index + 1}
    BY DEF IInv, PhaseInv, ViewInv, Playing
  <1>7. live /\ pc # "items" => Len(items) = index + 1 /\ items[index + 1] = shown(item, pc)
    BY DEF IInv, ViewInv, Playing, ItemPlaces
  <1> QED
    BY <1>1, <1>2, <1>3, <1>4, <1>5, <1>6, <1>7

\* What each event of the item leaves the client with.
LEMMA EventShows ==
    ASSUME IInv, live
    PROVE  /\ WriteItemAdded => items' = Append(items, shown(item, firstEvent(item.kind)))
           /\ WritePartAdded \/ WriteDelta \/ WriteBodyDone \/ WritePartDone
                  => items' = [items EXCEPT ![index + 1] = shown(item, pc')]
           /\ WriteItemDone => items' = [items EXCEPT ![index + 1] = item]
  <1> DEFINE n == index + 1
  <1>1. ASSUME WriteItemAdded
        PROVE  items' = Append(items, shown(item, firstEvent(item.kind)))
    <2>1. startedItem(item) = shown(item, firstEvent(item.kind))
      <3>1. item \in ItemState /\ Whole(item)
        BY <1>1, UnderWay DEF WriteItemAdded
      <3> HIDE DEF item
      <3> QED
        BY <3>1 DEF startedItem, shown, stageAt, firstEvent, ItemState
    <2>2. index = Len(items)
      BY <1>1 DEF WriteItemAdded, IInv, ViewInv, Playing
    <2> QED
      BY <1>1, <2>1, <2>2 DEF WriteItemAdded, ItemAdded, Show, ItemPlaces
  <1>2. ASSUME pc \in ItemPlaces
        PROVE  /\ n \in DOMAIN items /\ items[n] = shown(item, pc)
               /\ item \in ItemState /\ item.body \in Seq(STRING) /\ Whole(item)
    <2>1. item \in ItemState /\ Whole(item) /\ n \in DOMAIN items /\ items[n] = shown(item, pc)
      BY <1>2, UnderWay DEF ItemPlaces
    <2> HIDE DEF item
    <2> QED
      BY <2>1 DEF ItemState
  <1>3. ASSUME WritePartAdded
        PROVE  items' = [items EXCEPT ![n] = shown(item, pc')]
    <2>1. /\ items' = [items EXCEPT ![n] = [items[n] EXCEPT !.stage = "part"]]
          /\ pc = "part.added" /\ pc' = "delta" /\ item.kind = "message"
      BY <1>3 DEF WritePartAdded, PartAdded, Show, IInv, PlaceInv
    <2>2. [items[n] EXCEPT !.stage = "part"] = shown(item, pc')
      <3>1. items[n] = shown(item, "part.added") /\ item \in ItemState
        BY <1>2, <2>1 DEF ItemPlaces
      <3> HIDE DEF item
      <3> QED
        BY <2>1, <3>1 DEF shown, stageAt, ItemState
    <2> QED
      BY <1>3, <2>1, <2>2
  <1>4. ASSUME WriteDelta
        PROVE  items' = [items EXCEPT ![n] = shown(item, pc')]
    <2>1. /\ items' = [items EXCEPT ![n] = [items[n] EXCEPT !.body = items[n].body \o item.body]]
          /\ pc = "delta" /\ pc' = "body.done" /\ item.kind # "reasoning"
      BY <1>4 DEF WriteDelta, Delta, Show, IInv, PlaceInv
    <2>2. [items[n] EXCEPT !.body = items[n].body \o item.body] = shown(item, pc')
      <3>1. items[n] = shown(item, "delta") /\ item \in ItemState /\ item.body \in Seq(STRING)
        BY <1>2, <2>1 DEF ItemPlaces
      <3> HIDE DEF item
      <3>2. items[n].body = <<>>
        BY <3>1 DEF shown, ItemState
      <3>3. <<>> \o item.body = item.body
        BY <3>1, ConcatEmptySeq
      <3> QED
        BY <2>1, <3>1, <3>2, <3>3 DEF shown, stageAt, ItemState
    <2> QED
      BY <1>4, <2>1, <2>2
  <1>5. ASSUME NEW stage,
               items' = [items EXCEPT ![index + 1].body = item.body, ![index + 1].stage = stage],
               pc \in ItemPlaces
        PROVE  items' = [items EXCEPT ![n] = [items[n] EXCEPT !.body = item.body,
                                                              !.stage = stage]]
    BY <1>2, <1>5
  <1>6. ASSUME WriteBodyDone
        PROVE  items' = [items EXCEPT ![n] = shown(item, pc')]
    <2>1. /\ items' = [items EXCEPT ![n] = [items[n] EXCEPT !.body = item.body,
                                                           !.stage = "sealed"]]
          /\ pc = "body.done" /\ item.kind # "reasoning"
          /\ pc' = IF item.kind = "message" THEN "part.done" ELSE "item.done"
      BY <1>5, <1>6 DEF WriteBodyDone, BodyDone, Show, IInv, PlaceInv, ItemPlaces
    <2>2. [items[n] EXCEPT !.body = item.body, !.stage = "sealed"] = shown(item, pc')
      <3>1. items[n] = shown(item, "body.done") /\ item \in ItemState
        BY <1>2, <2>1 DEF ItemPlaces
      <3> HIDE DEF item
      <3> QED
        BY <2>1, <3>1 DEF shown, stageAt, ItemState
    <2> QED
      BY <1>6, <2>1, <2>2
  <1>7. ASSUME WritePartDone
        PROVE  items' = [items EXCEPT ![n] = shown(item, pc')]
    <2>1. /\ items' = [items EXCEPT ![n] = [items[n] EXCEPT !.body = item.body,
                                                           !.stage = "closed"]]
          /\ pc = "part.done" /\ pc' = "item.done" /\ item.kind = "message"
      BY <1>5, <1>7 DEF WritePartDone, PartDone, Show, IInv, PlaceInv, ItemPlaces
    <2>2. [items[n] EXCEPT !.body = item.body, !.stage = "closed"] = shown(item, pc')
      <3>1. items[n] = shown(item, "part.done") /\ item \in ItemState
        BY <1>2, <2>1 DEF ItemPlaces
      <3> HIDE DEF item
      <3> QED
        BY <2>1, <3>1 DEF shown, stageAt, ItemState
    <2> QED
      BY <1>7, <2>1, <2>2
  <1>8. ASSUME WriteItemDone
        PROVE  items' = [items EXCEPT ![n] = item]
    <2>1. items' = [items EXCEPT ![n] = Finished(item)]
      BY <1>8 DEF WriteItemDone, ItemDone, Show
    <2>2. Finished(item) = item
      <3>1. item \in ItemState /\ Whole(item)
        BY <1>2, <1>8 DEF WriteItemDone, ItemPlaces
      <3> HIDE DEF item
      <3> QED
        BY <3>1 DEF Finished, Whole, WellFormed, ItemState
    <2> QED
      BY <1>8, <2>1, <2>2
  <1> QED
    BY <1>1, <1>3, <1>4, <1>6, <1>7, <1>8

-----------------------------------------------------------------------------
(* The invariant                                                             *)

\* The initial state has shown nothing and converted nothing.
LEMMA InitIInv == Init => IInv
  <1> SUFFICES ASSUME Init PROVE IInv
    OBVIOUS
  <1>1. TypeOK
    <2>1. response.status = "completed" /\ response.output = <<>> /\ index = 0
      BY DEF Init
    <2>2. Len(response.output) = 0 /\ response.output \in Seq(ItemState)
      BY <2>1, EmptySeq
    <2>3. StreamTypeOK
      BY EmptySeq DEF Init, StreamInit, StreamTypeOK
    <2>4. index \in 0..Len(response.output)
      BY <2>1, <2>2
    <2> QED
      BY <2>1, <2>2, <2>3, <2>4 DEF Init, TypeOK
  <1>2. PlaceInv
    BY EmptySeq DEF Init, StreamInit, PlaceInv, Early, ItemPlaces
  <1>3. PhaseInv /\ ViewInv
    BY DEF Init, StreamInit, PhaseInv, ViewInv, Early, Playing, ItemPlaces, Answered, Terminal
  <1> QED
    BY <1>1, <1>2, <1>3 DEF IInv

\* Nothing of the invariant is about what a client that has left would see.
LEMMA SilentSteps ==
    ASSUME IInv, LoseClient \/ WriteError \/ UpstreamFails \/ UNCHANGED vars
    PROVE  IInv'
  <1>1. TypeOK'
    BY DEF IInv, TypeOK, StreamTypeOK, LoseClient, ClientGone, WriteError, UpstreamFails,
       vars, streamVars, clientVars
  <1>2. PlaceInv'
    BY DEF IInv, PlaceInv, LoseClient, ClientGone, WriteError, UpstreamFails, Early,
       ItemPlaces, Whole, WellFormed, item, vars, streamVars, clientVars
  <1>3. PhaseInv'
    BY DEF IInv, PhaseInv, LoseClient, ClientGone, WriteError, UpstreamFails, Early, Playing,
       ItemPlaces, Answered, Terminal, vars, streamVars, clientVars
  <1>4. ViewInv'
    <2>1. CASE LoseClient \/ WriteError \/ UpstreamFails
      BY <2>1 DEF ViewInv, LoseClient, ClientGone, WriteError, UpstreamFails, Early, Playing,
         ItemPlaces, clientVars
    <2>2. CASE UNCHANGED vars
      <3>1. shown(item, pc)' = shown(item, pc)
        BY <2>2 DEF vars, shown, item
      <3> QED
        BY <2>2, <3>1 DEF IInv, ViewInv, vars, streamVars, clientVars
    <2> QED
      BY <2>1, <2>2
  <1> QED
    BY <1>1, <1>2, <1>3, <1>4 DEF IInv

\* The opening events come before any item.
LEMMA OpeningSteps ==
    ASSUME IInv, WriteCreated \/ WriteInProgress
    PROVE  IInv'
  <1>1. TypeOK'
    BY DEF IInv, TypeOK, StreamTypeOK, WriteCreated, WriteInProgress, PhaseEvent
  <1>2. PlaceInv'
    BY DEF IInv, PlaceInv, WriteCreated, WriteInProgress, Early, ItemPlaces, Whole, WellFormed
  <1>3. PhaseInv'
    BY DEF IInv, PhaseInv, WriteCreated, WriteInProgress, PhaseEvent, Playing, ItemPlaces,
       Answered, Terminal
  <1>4. ViewInv'
    BY DEF IInv, ViewInv, WriteCreated, WriteInProgress, PhaseEvent, Early, Playing, ItemPlaces
  <1> QED
    BY <1>1, <1>2, <1>3, <1>4 DEF IInv

\* The conversion returns one of its answers; the events start at its first item.
LEMMA ConvertStep ==
    ASSUME IInv, ConvertAnswer
    PROVE  IInv'
  <1>1. /\ pc = "reading" /\ pc' = "items" /\ response' \in Answers
        /\ index = 0 /\ UNCHANGED <<done, live, phase, items, output, index, broken>>
    BY DEF IInv, PlaceInv, Early, ConvertAnswer, streamVars, clientVars
  <1>2. /\ response'.status \in {"completed", "incomplete"}
        /\ response'.output \in Seq(ItemState) /\ Len(response'.output) \in Nat
        /\ \A k \in 1..Len(response'.output) : Whole(response'.output[k])
    BY <1>1, WholeResponseAssumption, LenProperties
  <1>3. TypeOK'
    BY <1>1, <1>2 DEF IInv, TypeOK, StreamTypeOK
  <1>4. PlaceInv'
    BY <1>1, <1>2 DEF IInv, PlaceInv, Early, ItemPlaces, Whole, WellFormed
  <1>5. PhaseInv'
    BY <1>1 DEF IInv, PhaseInv, Playing, Answered, Terminal
  <1>6. ViewInv'
    BY <1>1, EmptySeq DEF IInv, ViewInv, Early, Playing
  <1> QED
    BY <1>3, <1>4, <1>5, <1>6 DEF IInv

\* A new item is shown as far as the place of its first event demands.
LEMMA AddStep ==
    ASSUME IInv, WriteItemAdded
    PROVE  IInv'
  <1>1. /\ pc = "items" /\ index < Len(response.output) /\ pc' = firstEvent(item.kind)
        /\ UNCHANGED <<done, live, phase, output, response, index, broken>>
    BY DEF WriteItemAdded, ItemAdded, Show
  <1>2. pc' \in ItemPlaces
    BY <1>1 DEF firstEvent, ItemPlaces
  <1>3. /\ index \in Nat /\ item \in ItemState /\ shown(item, pc') \in ItemState
        /\ items \in Seq(ItemState)
    BY <1>1, <1>2, UnderWay
  <1>4. items' = IF live THEN Append(items, shown(item, pc')) ELSE items
    BY <1>1, EventShows DEF WriteItemAdded, ItemAdded, Show
  <1>5. items' \in Seq(ItemState)
    BY <1>3, <1>4, AppendProperties
  <1>6. TypeOK'
    BY <1>1, <1>2, <1>5 DEF IInv, TypeOK, StreamTypeOK, ItemPlaces
  <1>7. PlaceInv'
    <2>1. /\ pc' \in {"part.added", "part.done"} => item.kind = "message"
          /\ pc' \in {"delta", "body.done"} => item.kind # "reasoning"
      BY <1>1 DEF firstEvent
    <2>2. item' = item
      BY <1>1 DEF item
    <2> QED
      BY <1>1, <1>2, <2>1, <2>2 DEF IInv, PlaceInv, Early, ItemPlaces, Whole, WellFormed
  <1>8. PhaseInv'
    BY <1>1, <1>2 DEF IInv, PhaseInv, Playing, ItemPlaces, Answered, Terminal
  <1>9. ViewInv'
    <2> SUFFICES ASSUME live'
                 PROVE  /\ Len(items') = index + 1
                        /\ \A k \in 1..index : items'[k] = response.output[k]
                        /\ items'[index + 1] = shown(item, pc')
      <3>1. shown(item, pc)' = shown(item, pc')
        BY <1>1 DEF shown, item
      <3> QED
        BY <1>1, <1>2, <3>1 DEF ViewInv, Playing, Early, ItemPlaces
    <2>1. Len(items) = index /\ \A k \in 1..index : items[k] = response.output[k]
      BY <1>1 DEF IInv, ViewInv, Playing
    <2> QED
      BY <1>1, <1>3, <1>4, <2>1, AppendProperties
  <1> QED
    BY <1>6, <1>7, <1>8, <1>9 DEF IInv

\* The item's other events move its copy on to the next place.
LEMMA ItemStep ==
    ASSUME IInv, WritePartAdded \/ WriteDelta \/ WriteBodyDone \/ WritePartDone
    PROVE  IInv'
  <1>1. /\ pc \in ItemPlaces /\ pc' \in ItemPlaces
        /\ pc' \in {"delta", "body.done"} => item.kind # "reasoning"
        /\ pc' = "part.done" => item.kind = "message"
        /\ pc' # "part.added"
        /\ UNCHANGED <<done, live, phase, output, response, index, broken>>
    BY DEF WritePartAdded, WriteDelta, WriteBodyDone, WritePartDone, PartAdded, Delta,
       BodyDone, PartDone, Show, ItemPlaces, IInv, PlaceInv
  <1>2. items' = IF live THEN [items EXCEPT ![index + 1] = shown(item, pc')] ELSE items
    BY <1>1, EventShows DEF WritePartAdded, WriteDelta, WriteBodyDone, WritePartDone,
       PartAdded, Delta, BodyDone, PartDone, Show
  <1>3. /\ index \in Nat /\ item \in ItemState /\ shown(item, pc') \in ItemState
        /\ items \in Seq(ItemState) /\ Len(items) \in Nat /\ DOMAIN items = 1..Len(items)
        /\ live => Len(items) = index + 1
    BY <1>1, UnderWay DEF ItemPlaces
  <1>4. /\ items' \in Seq(ItemState)
        /\ live => /\ Len(items') = index + 1 /\ items'[index + 1] = shown(item, pc')
                   /\ \A k \in 1..index : items'[k] = items[k]
    <2>1. CASE live
      <3> DEFINE n == index + 1
                 new == shown(item, pc')
      <3>1. n \in 1..Len(items) /\ new \in ItemState
        BY <1>3, <2>1
      <3>2. \A k \in 1..index : k \in 1..Len(items) /\ k # n
        BY <1>3, <2>1
      <3> HIDE DEF n, new
      <3>3. items' = [items EXCEPT ![n] = new]
        BY <1>2, <2>1 DEF n, new
      <3>4. /\ items' \in Seq(ItemState) /\ Len(items') = Len(items) /\ items'[n] = new
            /\ \A k \in 1..index : items'[k] = items[k]
        BY <1>3, <3>1, <3>2, <3>3, Replaced
      <3> QED
        BY <1>3, <2>1, <3>4 DEF n, new
    <2> QED
      BY <1>2, <1>3, <2>1
  <1>5. TypeOK'
    BY <1>1, <1>4 DEF IInv, TypeOK, StreamTypeOK, ItemPlaces
  <1>6. PlaceInv'
    <2>1. item' = item
      BY <1>1 DEF item
    <2> QED
      BY <1>1, <2>1 DEF IInv, PlaceInv, Early, ItemPlaces, Whole, WellFormed
  <1>7. PhaseInv'
    BY <1>1 DEF IInv, PhaseInv, Playing, ItemPlaces, Answered, Terminal
  <1>8. ViewInv'
    <2> SUFFICES ASSUME live'
                 PROVE  /\ Len(items') = index + 1
                        /\ \A k \in 1..index : items'[k] = response.output[k]
                        /\ items'[index + 1] = shown(item, pc')
      <3>1. shown(item, pc)' = shown(item, pc')
        BY <1>1 DEF shown, item
      <3> QED
        BY <1>1, <3>1 DEF ViewInv, Playing, Early, ItemPlaces
    <2>1. \A k \in 1..index : items[k] = response.output[k]
      BY <1>1 DEF IInv, ViewInv, Playing
    <2> QED
      BY <1>1, <1>4, <2>1
  <1> QED
    BY <1>5, <1>6, <1>7, <1>8 DEF IInv

\* Its last event makes the copy the item itself.
LEMMA DoneStep ==
    ASSUME IInv, WriteItemDone
    PROVE  IInv'
  <1>1. /\ pc = "item.done" /\ pc' = "items" /\ index' = index + 1
        /\ UNCHANGED <<done, live, phase, output, response, broken>>
    BY DEF WriteItemDone, ItemDone, Show
  <1>2. items' = IF live THEN [items EXCEPT ![index + 1] = item] ELSE items
    BY <1>1, EventShows DEF WriteItemDone, ItemDone, Show
  <1>3. /\ index \in Nat /\ item \in ItemState /\ index + 1 \in 1..Len(response.output)
        /\ items \in Seq(ItemState) /\ Len(items) \in Nat /\ DOMAIN items = 1..Len(items)
        /\ live => Len(items) = index + 1
    BY <1>1, UnderWay DEF ItemPlaces
  <1>4. /\ items' \in Seq(ItemState)
        /\ live => /\ Len(items') = index + 1 /\ items'[index + 1] = item
                   /\ \A k \in 1..index : items'[k] = items[k]
    <2>1. CASE live
      <3> DEFINE n == index + 1
                 new == item
      <3>1. n \in 1..Len(items) /\ new \in ItemState
        BY <1>3, <2>1
      <3>2. \A k \in 1..index : k \in 1..Len(items) /\ k # n
        BY <1>3, <2>1
      <3> HIDE DEF n, new
      <3>3. items' = [items EXCEPT ![n] = new]
        BY <1>2, <2>1 DEF n, new
      <3>4. /\ items' \in Seq(ItemState) /\ Len(items') = Len(items) /\ items'[n] = new
            /\ \A k \in 1..index : items'[k] = items[k]
        BY <1>3, <3>1, <3>2, <3>3, Replaced
      <3> QED
        BY <1>3, <2>1, <3>4 DEF n, new
    <2> QED
      BY <1>2, <1>3, <2>1
  <1>5. TypeOK'
    <2>1. Len(response.output) \in Nat
      BY LenProperties DEF IInv, TypeOK
    <2>2. index \in Nat /\ index + 1 \in 1..Len(response.output)
      BY <1>1, UnderWay DEF ItemPlaces
    <2>3. index + 1 \in 0..Len(response.output)
      BY <2>1, <2>2
    <2>4. index' \in 0..Len(response'.output)
      BY <1>1, <2>3
    <2> QED
      BY <1>1, <1>4, <2>4 DEF IInv, TypeOK, StreamTypeOK
  <1>6. PlaceInv'
    BY <1>1 DEF IInv, PlaceInv, Early, ItemPlaces, Whole, WellFormed
  <1>7. PhaseInv'
    BY <1>1 DEF IInv, PhaseInv, Playing, ItemPlaces, Answered, Terminal
  <1>8. ViewInv'
    <2> SUFFICES ASSUME live'
                 PROVE  /\ Len(items') = index + 1
                        /\ \A k \in 1..index + 1 : items'[k] = response.output[k]
      BY <1>1 DEF ViewInv, Playing, Early, ItemPlaces
    <2>1. \A k \in 1..index : items[k] = response.output[k]
      BY <1>1 DEF IInv, ViewInv, Playing, ItemPlaces
    <2>2. item = response.output[index + 1]
      BY DEF item
    <2> HIDE DEF item
    <2>3. \A k \in 1..index + 1 : k \in 1..index \/ k = index + 1
      <3>1. index \in Nat
        BY <1>3
      <3> QED
        BY <3>1
    <2> QED
      BY <1>1, <1>4, <2>1, <2>2, <2>3
  <1> QED
    BY <1>5, <1>6, <1>7, <1>8 DEF IInv

\* When the last item is finished a client that is still there has them all.
LEMMA AllShown ==
    ASSUME IInv, live, WriteCompleted
    PROVE  items = response.output /\ \A k \in DOMAIN items : items[k].stage = "done"
  <1>1. pc = "items" /\ index >= Len(response.output)
    BY DEF WriteCompleted
  <1>2. /\ items \in Seq(ItemState) /\ response.output \in Seq(ItemState)
        /\ index \in 0..Len(response.output) /\ Len(response.output) \in Nat
        /\ DOMAIN items = 1..Len(items)
    BY LenProperties DEF IInv, TypeOK, StreamTypeOK
  <1>3. index = Len(response.output)
    BY <1>1, <1>2
  <1>4. Len(items) = index /\ \A k \in 1..index : items[k] = response.output[k]
    BY <1>1 DEF IInv, ViewInv, Playing
  <1>5. items = response.output
    BY <1>2, <1>3, <1>4, SeqEqual
  <1>6. \A k \in 1..Len(response.output) : response.output[k].stage = "done"
    BY DEF IInv, PlaceInv, Whole, WellFormed
  <1> QED
    BY <1>2, <1>5, <1>6

\* The terminal event is the first to set done, and the only one to set phase
\* to an answer.
LEMMA TerminalSteps ==
    ASSUME IInv, WriteCompleted \/ WriteFailed
    PROVE  IInv'
  <1>1. /\ pc \in {"items", "fail"} /\ pc' = "returned" /\ ~done /\ done' = TRUE
        /\ UNCHANGED <<live, items, response, index, broken>>
    BY DEF IInv, PlaceInv, WriteCompleted, WriteFailed, TerminalEvent
  <1>2. response.status \in {"completed", "incomplete"} /\ response.output \in Seq(ItemState)
    BY DEF IInv, TypeOK
  <1>3. /\ phase' \in {phase, "failed", response.status}
        /\ output' \in {output, <<>>, response.output}
    BY DEF WriteCompleted, WriteFailed, TerminalEvent
  <1>4. TypeOK'
    BY <1>1, <1>2, <1>3, EmptySeq DEF IInv, TypeOK, StreamTypeOK, Terminal
  <1>5. PlaceInv'
    BY <1>1 DEF IInv, PlaceInv, Early, ItemPlaces, Whole, WellFormed
  <1>6. PhaseInv'
    <2>1. CASE live /\ WriteCompleted
      <3>1. items = response.output
        BY <2>1, AllShown
      <3>2. phase' = response.status /\ output' = response.output /\ pc = "items"
        BY <1>1, <2>1 DEF WriteCompleted, TerminalEvent
      <3>3. ~broken
        BY <3>2 DEF IInv, PlaceInv
      <3> QED
        BY <1>1, <1>2, <3>1, <3>2, <3>3 DEF PhaseInv, Playing, ItemPlaces, Answered
    <2>2. CASE live /\ WriteFailed
      <3>1. phase' = "failed" /\ output' = <<>> /\ broken
        BY <1>1, <2>2 DEF WriteFailed, TerminalEvent, IInv, PlaceInv
      <3> QED
        BY <1>1, <3>1 DEF PhaseInv, Playing, ItemPlaces, Answered
    <2>3. CASE ~live
      <3>1. UNCHANGED <<phase, output>>
        BY <2>3 DEF WriteCompleted, WriteFailed, TerminalEvent
      <3> QED
        BY <1>1, <2>3, <3>1 DEF IInv, PhaseInv, Answered
    <2> QED
      BY <2>1, <2>2, <2>3
  <1>7. ViewInv'
    BY <1>1 DEF ViewInv, Early, Playing, ItemPlaces
  <1> QED
    BY <1>4, <1>5, <1>6, <1>7 DEF IInv

\* Every step keeps the invariant.
LEMMA NextIInv == IInv /\ [Next]_vars => IInv'
  <1> SUFFICES ASSUME IInv, [Next]_vars PROVE IInv'
    OBVIOUS
  <1>1. CASE LoseClient \/ WriteError \/ UpstreamFails \/ UNCHANGED vars
    BY <1>1, SilentSteps
  <1>2. CASE WriteCreated \/ WriteInProgress
    BY <1>2, OpeningSteps
  <1>3. CASE ConvertAnswer
    BY <1>3, ConvertStep
  <1>4. CASE WriteItemAdded
    BY <1>4, AddStep
  <1>5. CASE WritePartAdded \/ WriteDelta \/ WriteBodyDone \/ WritePartDone
    BY <1>5, ItemStep
  <1>6. CASE WriteItemDone
    BY <1>6, DoneStep
  <1>7. CASE WriteCompleted \/ WriteFailed
    BY <1>7, TerminalSteps
  <1> QED
    BY <1>1, <1>2, <1>3, <1>4, <1>5, <1>6, <1>7 DEF Next, Read, Write, Returned

\* The invariant: the types, where the handler is, which phase the client has
\* seen, and its copy of every item, the one under way included.
THEOREM WholeResponseInvariant == Spec => []IInv
  BY InitIInv, NextIInv, PTL DEF Spec

\* Whatever response a conversion returns, a client that follows the events of
\* ResponsesStream.Complete and receives its terminal event has exactly the
\* items of that response, and one that stays is told how it ended
\* (stream.go Complete, startedItem, itemEvents).
THEOREM ClientsHaveTheAnswer == Spec => []EventsCarryTheAnswer
  <1>1. IInv => EventsCarryTheAnswer
    BY DEF IInv, PhaseInv, Answered, EventsCarryTheAnswer
  <1> QED
    BY <1>1, WholeResponseInvariant, PTL

-----------------------------------------------------------------------------
(* The protocol                                                              *)

\* An event that moves the stage of one item on, and nothing else, is one the
\* protocol allows.
LEMMA StageAdvances ==
    ASSUME items \in Seq(ItemState), phase = "in_progress", NEW n \in 1..Len(items),
           NEW to \in {"part", "sealed", "closed", "done"},
           <<items[n].stage, to>> \in Protocol!StageSteps(items[n].kind),
           items' = [items EXCEPT ![n] = [items[n] EXCEPT !.stage = to]],
           UNCHANGED <<phase, output>>
    PROVE  Protocol!Next
  <1>1. n \in DOMAIN items
    BY LenProperties
  <1>2. items' = [items EXCEPT ![n].stage = to]
    OBVIOUS
  <1>3. Protocol!Advance(n)
    BY <1>2 DEF Protocol!Advance
  <1> QED
    BY <1>1, <1>3 DEF Protocol!Next

\* The event that opens an item shows one of the items the protocol knows.
LEMMA AddFollows ==
    ASSUME IInv, live, WriteItemAdded
    PROVE  Protocol!Next
  <1> DEFINE new == shown(item, firstEvent(item.kind))
  <1>1. pc = "items" /\ index < Len(response.output) /\ UNCHANGED <<phase, output>>
    BY DEF WriteItemAdded, ItemAdded, Show
  <1>2. item \in ItemState /\ Whole(item) /\ phase = "in_progress"
    BY <1>1, UnderWay
  <1>3. items' = Append(items, new)
    BY EventShows
  <1>4. new \in Protocol!FreshItems
    <2> DEFINE place == firstEvent(item.kind)
    <2>0. new = [kind |-> item.kind, name |-> item.name, callID |-> item.callID,
                 body |-> IF place \in {"part.added", "delta"} THEN <<>> ELSE item.body,
                 stage |-> stageAt(item.kind, place)]
      BY <1>2, ShownFields
    <2> HIDE DEF item, new
    <2>1. CASE item.kind = "message"
      <3>1. new = Protocol!Message
        BY <1>2, <2>0, <2>1 DEF Whole, WellFormed, stageAt, firstEvent, Protocol!Message
      <3> QED
        BY <3>1 DEF Protocol!FreshItems
    <2>2. CASE item.kind = "reasoning"
      <3>1. item.name = <<>> /\ item.callID = NoCall /\ item.body \in Reasonings
        BY <1>2, <2>2 DEF Whole, WellFormed
      <3>2. place = "item.done" /\ stageAt(item.kind, place) = "added"
        BY <2>2 DEF firstEvent, stageAt
      <3>3. new = [kind |-> "reasoning", name |-> <<>>, callID |-> NoCall,
                   body |-> item.body, stage |-> "added"]
        BY <2>0, <2>2, <3>1, <3>2
      <3> DEFINE renamed == [Protocol!Message EXCEPT !.kind = "reasoning"]
      <3>4. renamed = [kind |-> "reasoning", name |-> <<>>, callID |-> NoCall,
                       body |-> <<>>, stage |-> "added"]
        BY DEF Protocol!Message
      <3>5. Protocol!Reasoning(item.body) = [renamed EXCEPT !.body = item.body]
        BY DEF Protocol!Reasoning
      <3> HIDE DEF renamed
      <3>6. new = Protocol!Reasoning(item.body)
        BY <3>3, <3>4, <3>5
      <3> QED
        BY <3>1, <3>6 DEF Protocol!FreshItems
    <2>3. CASE item.kind \in {"function_call", "custom_tool_call"}
      <3>1. /\ new = Protocol!ToolItem(item.kind, item.name, item.callID)
            /\ item.name \in Names /\ item.callID \in CallIDs
        BY <1>2, <2>0, <2>3 DEF Whole, WellFormed, stageAt, firstEvent, Protocol!ToolItem
      <3> QED
        BY <2>3, <3>1 DEF Protocol!FreshItems
    <2> QED
      BY <1>2, <2>1, <2>2, <2>3 DEF ItemState
  <1>5. Protocol!AddItem
    BY <1>1, <1>2, <1>3, <1>4 DEF Protocol!AddItem
  <1> QED
    BY <1>5 DEF Protocol!Next

\* The one delta carries the whole content and finds the copy empty.
LEMMA DeltaFollows ==
    ASSUME IInv, live, WriteDelta
    PROVE  Protocol!Next
  <1> DEFINE n == index + 1
  <1>1. /\ pc = "delta" /\ pc' = "body.done" /\ item.kind # "reasoning"
        /\ UNCHANGED <<phase, output>>
    BY DEF WriteDelta, Delta, Show, IInv, PlaceInv
  <1>2. /\ item \in ItemState /\ phase = "in_progress" /\ index \in Nat
        /\ items \in Seq(ItemState) /\ n \in DOMAIN items /\ items[n] = shown(item, "delta")
    BY <1>1, UnderWay DEF ItemPlaces
  <1>3. items' = [items EXCEPT ![n] = shown(item, "body.done")]
    BY <1>1, EventShows
  <1> HIDE DEF item
  <1>4. /\ items[n].body = <<>> /\ Protocol!Growing(items[n])
        /\ shown(item, "body.done") = [items[n] EXCEPT !.body = item.body]
        /\ item.body \in Seq(STRING)
    BY <1>1, <1>2 DEF shown, stageAt, ItemState, Protocol!Growing
  <1>5. items'[n].body = item.body /\ items' = [items EXCEPT ![n].body = items'[n].body]
    <2>1. items'[n] = shown(item, "body.done")
      BY <1>2, <1>3
    <2>2. items'[n].body = item.body
      BY <1>2, <2>1 DEF shown, ItemState
    <2> QED
      BY <1>3, <1>4, <2>2
  <1>6. Protocol!Extends(item.body, <<>>)
    <2>1. /\ SubSeq(item.body, 1, 0) \in Seq(STRING) /\ Len(SubSeq(item.body, 1, 0)) = 0
          /\ Len(item.body) \in Nat
      BY <1>4, SubSeqProperties, LenProperties
    <2>2. SubSeq(item.body, 1, 0) = <<>>
      BY <2>1, EmptySeq
    <2> QED
      BY <2>1, <2>2, EmptySeq DEF Protocol!Extends
  <1>7. Protocol!Grow(n)
    BY <1>1, <1>2, <1>4, <1>5, <1>6 DEF Protocol!Grow
  <1> QED
    BY <1>2, <1>7 DEF Protocol!Next

\* The closing events move the copy one stage on, in the order of its kind.
LEMMA ClosingFollows ==
    ASSUME IInv, live, WritePartAdded \/ WriteBodyDone \/ WritePartDone \/ WriteItemDone
    PROVE  Protocol!Next
  <1> DEFINE n == index + 1
  <1>1. /\ pc \in {"part.added", "body.done", "part.done", "item.done"}
        /\ UNCHANGED <<phase, output>>
        /\ pc = "part.added" => pc' = "delta"
        /\ pc = "body.done" => pc' = IF item.kind = "message" THEN "part.done" ELSE "item.done"
        /\ pc = "part.done" => pc' = "item.done"
        /\ pc \in {"part.added", "part.done"} => item.kind = "message"
        /\ pc = "body.done" => item.kind # "reasoning"
    BY DEF WritePartAdded, WriteBodyDone, WritePartDone, WriteItemDone, PartAdded, BodyDone,
       PartDone, ItemDone, Show, IInv, PlaceInv
  <1>2. /\ item \in ItemState /\ Whole(item) /\ phase = "in_progress" /\ index \in Nat
        /\ items \in Seq(ItemState) /\ n \in 1..Len(items) /\ items[n] = shown(item, pc)
    BY <1>1, UnderWay DEF ItemPlaces
  <1> DEFINE new == IF pc = "item.done" THEN item ELSE shown(item, pc')
             to  == IF pc = "item.done" THEN "done" ELSE stageAt(item.kind, pc')
  <1>3. items' = [items EXCEPT ![n] = new]
    BY <1>1, EventShows DEF WritePartAdded, WriteBodyDone, WritePartDone, WriteItemDone
  <1>4. /\ new = [items[n] EXCEPT !.stage = to]
        /\ to \in {"part", "sealed", "closed", "done"}
        /\ <<items[n].stage, to>> \in Protocol!StageSteps(items[n].kind)
    <2> HIDE DEF item
    <2>1. items[n].kind = item.kind /\ items[n].stage = stageAt(item.kind, pc)
      BY <1>2 DEF shown, ItemState
    <2>2. new = [items[n] EXCEPT !.stage = to]
      BY <1>1, <1>2 DEF shown, ItemState, Whole, WellFormed
    <2>3. CASE item.kind = "message"
      BY <1>1, <2>1, <2>2, <2>3 DEF stageAt, Protocol!StageSteps
    <2>4. CASE item.kind = "reasoning"
      BY <1>1, <2>1, <2>2, <2>4 DEF stageAt, Protocol!StageSteps
    <2>5. CASE item.kind \notin {"message", "reasoning"}
      BY <1>1, <2>1, <2>2, <2>5 DEF stageAt, Protocol!StageSteps
    <2> QED
      BY <2>3, <2>4, <2>5
  <1> HIDE DEF new, to
  <1> QED
    BY <1>1, <1>2, <1>3, <1>4, StageAdvances

\* Every step is a step of the protocol or not seen by the client.
LEMMA StepFollows ==
    ASSUME IInv, [Next]_vars
    PROVE  Protocol!Next \/ UNCHANGED <<phase, items, output>>
  <1>1. CASE Read \/ WriteError \/ LoseClient \/ UNCHANGED vars
    BY <1>1 DEF Read, ConvertAnswer, UpstreamFails, WriteError, LoseClient, ClientGone,
       vars, streamVars, clientVars
  <1>2. CASE ~live /\ Write /\ ~WriteError
    BY <1>2 DEF Write, WriteCreated, WriteInProgress, WriteItemAdded, WritePartAdded,
       WriteDelta, WriteBodyDone, WritePartDone, WriteItemDone, WriteCompleted, WriteFailed,
       PhaseEvent, ItemAdded, PartAdded, Delta, BodyDone, PartDone, ItemDone, Show,
       TerminalEvent
  <1>3. CASE live /\ WriteCreated
    <2>1. Protocol!Create
      BY <1>3 DEF IInv, PhaseInv, WriteCreated, PhaseEvent, Protocol!Create
    <2> QED
      BY <2>1 DEF Protocol!Next
  <1>4. CASE live /\ WriteInProgress
    <2>1. Protocol!Start
      BY <1>4 DEF IInv, PhaseInv, WriteInProgress, PhaseEvent, Protocol!Start
    <2> QED
      BY <2>1 DEF Protocol!Next
  <1>5. CASE live /\ WriteItemAdded
    BY <1>5, AddFollows
  <1>6. CASE live /\ WriteDelta
    BY <1>6, DeltaFollows
  <1>7. CASE live /\ (WritePartAdded \/ WriteBodyDone \/ WritePartDone \/ WriteItemDone)
    BY <1>7, ClosingFollows
  <1>8. CASE live /\ WriteCompleted
    <2>1. pc = "items" /\ ~done /\ phase = "in_progress"
      BY <1>8 DEF WriteCompleted, IInv, PlaceInv, PhaseInv, Playing
    <2>2. phase' = response.status /\ output' = response.output /\ UNCHANGED items
      BY <1>8, <2>1 DEF WriteCompleted, TerminalEvent
    <2>3. items = response.output /\ \A k \in DOMAIN items : items[k].stage = "done"
      BY <1>8, AllShown
    <2>4. Protocol!Complete
      BY <2>1, <2>2, <2>3 DEF IInv, TypeOK, Protocol!Complete
    <2> QED
      BY <2>4 DEF Protocol!Next
  <1>9. CASE live /\ WriteFailed
    <2>1. pc = "fail" /\ ~done /\ phase = "in_progress" /\ output = <<>>
      BY <1>9 DEF WriteFailed, IInv, PlaceInv, PhaseInv, Answered
    <2>2. Protocol!Fail
      BY <1>9, <2>1 DEF WriteFailed, TerminalEvent, Protocol!Fail
    <2> QED
      BY <2>2 DEF Protocol!Next
  <1> QED
    BY <1>1, <1>2, <1>3, <1>4, <1>5, <1>6, <1>7, <1>8, <1>9 DEF Next, Write, Returned

\* Played out from a whole response, the stream is one the Responses protocol
\* allows (stream.go event, Complete, Fail): this writer implements
\* ResponsesProtocol, as the incremental one does.
THEOREM ImplementsProtocol == Spec => FollowsProtocol
  <1>1. Init => Protocol!Init
    BY DEF Init, StreamInit, Protocol!Init
  <1>2. IInv /\ [Next]_vars => [Protocol!Next]_(Protocol!vars)
    BY StepFollows DEF Protocol!vars
  <1> QED
    BY <1>1, <1>2, WholeResponseInvariant, PTL DEF Spec, FollowsProtocol, Protocol!Spec
=============================================================================
