---------------------- MODULE DispatchWorkerSlotProofs ----------------------
(***************************************************************************)
(* A destination's slots are exactly its queued and in-flight transactions  *)
(* and never more than its share; and a parked backlog is never left behind *)
(* an empty queue.  The queue stays within its depth and one transaction    *)
(* per thread.                                                              *)
(*                                                                          *)
(* With every transaction in one place (Placement) each move adds one id to *)
(* the slot holders of one destination, removes one, or keeps them, and the *)
(* code's count follows.  An empty queue then leaves at most one holder per *)
(* destination, the one in flight, so the head of the parked rows is below  *)
(* its share of at least two and is promoted.                               *)
(***************************************************************************)
EXTENDS DispatchWorkerPlacementProofs, FiniteSetTheorems

\* The ids of destination d among some transactions.
Of(E, d) == Ids({e \in E : e.dst = d})

Holders == Range(queue) \cup Held

LEMMA SlotHoldersAre == ASSUME NEW d PROVE SlotHolders(d) = Of(Holders, d)
BY DEF SlotHolders, Of, Holders

\* One transaction more, or one less.
LEMMA OfMore ==
    ASSUME NEW E, NEW x
    PROVE  Of(E \cup {x}, x.dst) = Of(E, x.dst) \cup {x.id}
BY DEF Of, Ids

LEMMA OfOther ==
    ASSUME NEW E, NEW x, NEW d, d # x.dst
    PROVE  Of(E \cup {x}, d) = Of(E, d)
BY DEF Of, Ids

LEMMA OfLess ==
    ASSUME NEW E, NEW x \in E, \A e \in E \ {x} : e.id # x.id
    PROVE  /\ Of(E \ {x}, x.dst) = Of(E, x.dst) \ {x.id}
           /\ \A d : d # x.dst => Of(E \ {x}, d) = Of(E, d)
           /\ x.id \in Of(E, x.dst)
<1>1. Of(E \ {x}, x.dst) = Of(E, x.dst) \ {x.id}
  BY DEF Of, Ids
<1>2. \A d : d # x.dst => Of(E \ {x}, d) = Of(E, d)
  BY DEF Of, Ids
<1>3. x.id \in Of(E, x.dst)
  BY DEF Of, Ids
<1>4. QED
  BY <1>1, <1>2, <1>3

LEMMA OfIds == ASSUME NEW E, NEW d PROVE Of(E, d) \subseteq Ids(E)
BY DEF Of, Ids

\* The inductive invariant: the counts are the sizes of finite sets, those of
\* the batch being admitted included.
Slots ==
    \A d \in Destinations :
        /\ IsFiniteSet(SlotHolders(d)) /\ slots[d] = Cardinality(SlotHolders(d))
        /\ IsFiniteSet(Of(Range(taken), d)) /\ takenPer[d] = Cardinality(Of(Range(taken), d))
        /\ slots[d] + takenPer[d] <= MaxPending

\* A slot counted for one more holder.
LEMMA SlotsGain ==
    ASSUME Shapes, Slots, Lock, ~(life = "running" /\ mutex = Caller),
           NEW x \in Transactions, x.dst \in Destinations, x.id \notin Ids(Holders),
           Holders' = Holders \cup {x},
           ~destination_at_share_locked(x.dst), slots' = [slots EXCEPT ![x.dst] = @ + 1],
           UNCHANGED <<taken, takenPer>>
    PROVE  Slots'
<1> SUFFICES ASSUME NEW d \in Destinations
             PROVE  /\ IsFiniteSet(SlotHolders(d))' /\ slots'[d] = Cardinality(SlotHolders(d))'
                    /\ IsFiniteSet(Of(Range(taken), d))' /\ takenPer'[d] = Cardinality(Of(Range(taken), d))'
                    /\ slots'[d] + takenPer'[d] <= MaxPending
  BY DEF Slots
<1>1. /\ IsFiniteSet(Of(Holders, d)) /\ slots[d] = Cardinality(Of(Holders, d))
      /\ slots[d] + takenPer[d] <= MaxPending
  BY SlotHoldersAre DEF Slots
<1>2. SlotHolders(d)' = Of(Holders', d)
  BY DEF SlotHolders, Of, Holders, Ids
<1>3. takenPer[d] = 0 /\ slots[d] \in Nat /\ MaxPending \in Nat
  BY ConfigAssumption DEF Lock, NoneTaken, Shapes
<1>4. IsFiniteSet(Of(Range(taken), d))' /\ takenPer'[d] = Cardinality(Of(Range(taken), d))'
  BY DEF Slots
<1>5. CASE d = x.dst
  <2>0. Of(Holders \cup {x}, d) = Of(Holders, d) \cup {x.id} /\ Of(Holders, d) \subseteq Ids(Holders)
    BY ONLY <1>5, OfMore, OfIds, Zenon
  <2>1. Of(Holders', d) = Of(Holders, d) \cup {x.id} /\ x.id \notin Of(Holders, d)
    BY <2>0
  <2>2. IsFiniteSet(Of(Holders', d)) /\ Cardinality(Of(Holders', d)) = slots[d] + 1
    <3>1. /\ IsFiniteSet(Of(Holders, d) \cup {x.id})
          /\ Cardinality(Of(Holders, d) \cup {x.id}) = Cardinality(Of(Holders, d)) + 1
      BY <1>1, <2>1, FS_AddElement, Zenon
    <3>2. QED
      BY <1>1, <2>1, <3>1
  <2>3. slots'[d] = slots[d] + 1 /\ slots[d] < MaxPending
    BY <1>3, <1>5 DEF destination_at_share_locked, Shapes
  <2>4. QED
    BY <1>2, <1>3, <1>4, <2>2, <2>3
<1>6. CASE d # x.dst
  <2>1. Of(Holders', d) = Of(Holders, d)
    BY <1>6, OfOther
  <2>2. slots'[d] = slots[d]
    BY <1>6 DEF Shapes
  <2>3. QED
    BY <1>1, <1>2, <1>3, <1>4, <2>1, <2>2
<1>7. QED
  BY <1>5, <1>6

\* A slot given back by one holder.
LEMMA SlotsLose ==
    ASSUME Shapes, Slots, NEW x \in Holders, x.dst \in Destinations,
           \A e \in Holders \ {x} : e.id # x.id,
           Holders' = Holders \ {x},
           release_destination_slot_locked(x.dst), UNCHANGED <<taken, takenPer>>
    PROVE  Slots'
<1> SUFFICES ASSUME NEW d \in Destinations
             PROVE  /\ IsFiniteSet(SlotHolders(d))' /\ slots'[d] = Cardinality(SlotHolders(d))'
                    /\ IsFiniteSet(Of(Range(taken), d))' /\ takenPer'[d] = Cardinality(Of(Range(taken), d))'
                    /\ slots'[d] + takenPer'[d] <= MaxPending
  BY DEF Slots
<1>1. /\ IsFiniteSet(Of(Holders, d)) /\ slots[d] = Cardinality(Of(Holders, d))
      /\ slots[d] + takenPer[d] <= MaxPending
  BY SlotHoldersAre DEF Slots
<1>2. SlotHolders(d)' = Of(Holders', d)
  BY DEF SlotHolders, Of, Holders, Ids
<1>3. takenPer[d] \in Nat /\ slots[d] \in Nat /\ MaxPending \in Nat
  BY ConfigAssumption DEF Shapes
<1>4. IsFiniteSet(Of(Range(taken), d))' /\ takenPer'[d] = Cardinality(Of(Range(taken), d))'
  BY DEF Slots
<1>5. CASE d = x.dst
  <2>0. Of(Holders \ {x}, d) = Of(Holders, d) \ {x.id} /\ x.id \in Of(Holders, d)
    BY <1>5, OfLess, Zenon
  <2>1. Of(Holders', d) = Of(Holders, d) \ {x.id} /\ x.id \in Of(Holders, d)
    BY <2>0, Zenon
  <2>2. /\ IsFiniteSet(Of(Holders', d)) /\ Cardinality(Of(Holders', d)) = slots[d] - 1
        /\ slots[d] # 0
    <3>1. /\ IsFiniteSet(Of(Holders, d) \ {x.id})
          /\ Cardinality(Of(Holders, d) \ {x.id}) = Cardinality(Of(Holders, d)) - 1
      BY <1>1, <2>1, FS_RemoveElement, Zenon
    <3>2. Cardinality(Of(Holders, d)) # 0
      BY <1>1, <2>1, FS_EmptySet
    <3>3. QED
      BY <1>1, <2>1, <3>1, <3>2, Zenon
  <2>3. slots'[d] = slots[d] - 1
    BY <1>3, <1>5, <2>2 DEF release_destination_slot_locked, Shapes
  <2>4. QED
    BY <1>1, <1>2, <1>3, <1>4, <2>2, <2>3
<1>6. CASE d # x.dst
  <2>1. Of(Holders', d) = Of(Holders, d)
    BY <1>6, OfLess, ZenonT(60)
  <2>2. slots'[d] = slots[d]
    BY <1>6 DEF Shapes, release_destination_slot_locked
  <2>3. QED
    BY <1>1, <1>2, <1>4, <2>1, <2>2
<1>7. QED
  BY <1>5, <1>6

\* The holders of every destination stay the same.
LEMMA SlotsKeep ==
    ASSUME Slots, \A d \in Destinations : Of(Holders', d) = Of(Holders, d),
           UNCHANGED <<slots, taken, takenPer>>
    PROVE  Slots'
<1>1. ASSUME NEW d \in Destinations PROVE SlotHolders(d)' = SlotHolders(d)
  <2>1. SlotHolders(d)' = Of(Holders', d)
    BY DEF SlotHolders, Of, Holders, Ids
  <2>2. QED
    BY <2>1, SlotHoldersAre
<1>2. QED
  BY <1>1 DEF Slots

\* Every move keeps the counts.
LEMMA MoveSlots ==
    ASSUME Placed, Slots, NEW t \in Threads, Move(t), Apart, mutex = Caller => Keep
    PROVE  Slots'
<1>0. /\ Shapes /\ Placement /\ Lock
      /\ UNCHANGED <<taken, takenPer>>
  BY DEF Placed, Apart
<1>1. CASE Keep
  <2>1. Holders' = Holders
    BY <1>0, <1>1, KeepEffect DEF Holders
  <2>2. QED
    BY <1>0, <1>1, <2>1, SlotsKeep DEF Keep
<1>2. CASE Take(t)
  <2>1. PICK x \in Range(queue) : Range(queue)' = Range(queue) \ {x} /\ Held' = Held \cup {x}
    BY <1>0, <1>2, TakeEffect
  <2>2. Holders' = Holders
    BY <2>1 DEF Holders
  <2>3. QED
    BY <1>0, <1>2, <2>2, SlotsKeep DEF Take
<1>3. CASE Promote /\ mutex # Caller
  <2> DEFINE x == Head(parked)
  <2>1. /\ x \in Transactions /\ x.id \notin QueuedIds /\ x.id \in ParkedIds
        /\ Range(queue)' = Range(queue) \cup {x} /\ Held' = Held
    BY <1>0, <1>3, PromoteEffect
  <2>2. Holders' = Holders \cup {x}
    BY <2>1 DEF Holders
  <2>3. x.id \notin HeldIds
    BY <1>0, <2>1 DEF Placement
  <2>4. x.id \notin Ids(Holders)
    BY <2>1, <2>3 DEF Holders, QueuedIds, HeldIds, Ids
  <2>5. x.dst \in Destinations
    BY <2>1 DEF Transactions
  <2>6. ~destination_at_share_locked(x.dst) /\ slots' = [slots EXCEPT ![x.dst] = @ + 1]
    BY <1>3 DEF Promote, push_queue_locked
  <2> HIDE DEF x
  <2>7. QED
    BY <1>0, <1>3, <2>1, <2>2, <2>4, <2>5, <2>6, SlotsGain, Zenon
<1>4. CASE Rotate
  <2>1. Holders' = Holders
    BY <1>0, <1>4, RotateEffect DEF Holders
  <2>2. QED
    BY <1>0, <1>4, <2>1, SlotsKeep DEF Rotate
<1>5. CASE Return(t)
  <2>1. PICK row \in Transactions :
          /\ row.id = job[t].id /\ row.dst = job[t].dst
          /\ Range(queue)' = Range(queue) \cup {row}
          /\ Held' = Held \ {job[t]} /\ job[t] \in Held
    BY <1>0, <1>5, ReturnEffect, Zenon
  <2>2. Holders' = (Range(queue) \cup {row}) \cup (Held \ {job[t]}) /\ Holders = Range(queue) \cup Held
    BY <2>1 DEF Holders
  <2>3. ASSUME NEW d \in Destinations PROVE Of(Holders', d) = Of(Holders, d)
    <3>1. Of(Holders', d) \subseteq Of(Holders, d)
      BY <2>1, <2>2 DEF Of, Ids
    <3>2. Of(Holders, d) \subseteq Of(Holders', d)
      BY <2>1, <2>2 DEF Of, Ids
    <3>3. QED
      BY <3>1, <3>2
  <2>4. QED
    BY <1>0, <1>5, <2>3, SlotsKeep DEF Return
<1>6. CASE LetGo(t)
  <2> DEFINE x == job[t]
  <2>1. Held' = Held \ {x} /\ x \in Held /\ x.id \in HeldIds /\ queue' = queue
    BY <1>0, <1>6, LetGoEffect
  <2>2. x.id \notin QueuedIds
    BY <1>0, <2>1 DEF Placement
  <2>3. \A e \in Range(queue) : e.id # x.id
    BY <2>2 DEF QueuedIds, Ids
  <2>4. \A e \in Held \ {x} : e.id # x.id
    <3>1. \A u \in Threads : pc[u] \in Holding /\ u # t => job[u].id # job[t].id
      BY <1>0, <1>6 DEF Placement, OneJobEach, LetGo
    <3>2. QED
      BY ONLY <3>1, Zenon DEF Held
  <2>5. x \in Holders /\ Holders' = Holders \ {x} /\ \A e \in Holders \ {x} : e.id # x.id
    BY <2>1, <2>3, <2>4 DEF Holders
  <2>6. x.dst \in Destinations
    <3>1. x \in Transactions
      BY ONLY <1>0, <1>6, Zenon DEF LetGo, Shapes, Flying
    <3>2. QED
      BY ONLY <3>1, Zenon DEF Transactions
  <2>7. release_destination_slot_locked(x.dst)
    BY <1>6 DEF LetGo
  <2> HIDE DEF x
  <2>8. QED
    BY <1>0, <2>5, <2>6, <2>7, SlotsLose
<1>7. QED
  BY <1>1, <1>2, <1>3, <1>4, <1>5, <1>6 DEF Move

\* A member of a batch is admitted only below its destination's share.
LEMMA ConsiderSlots ==
    ASSUME Placed, Slots, EnqueueConsider
    PROVE  Slots'
<1> DEFINE h == Head(batch)
<1>0. Shapes /\ Fresh
  BY DEF Placed
<1>1. /\ batch \in Seq(Transactions) /\ batch # <<>> /\ taken \in Seq(Transactions)
      /\ UNCHANGED <<queue, slots, pc, job>>
  BY <1>0, Zenon DEF EnqueueConsider, Shapes, worker, threads
<1>2. Holders' = Holders
  BY <1>1 DEF Holders, Held
<1>3. \A d \in Destinations : SlotHolders(d)' = SlotHolders(d)
  BY <1>1 DEF SlotHolders, Held
<1>4. CASE UNCHANGED <<taken, takenPer>>
  BY <1>1, <1>2, <1>4, SlotsKeep, Zenon
<1>5. CASE /\ Admissible(h)
           /\ taken' = Append(taken, h)
           /\ takenPer' = [takenPer EXCEPT ![h.dst] = @ + 1]
  <2>1. /\ h \in Transactions /\ Range(batch) = Range(Tail(batch)) \cup {h}
    BY <1>1, HeadTailFacts
  <2>2. h.dst \in Destinations /\ h.id \in Nat
    BY <2>1 DEF Transactions
  <2>3. h.id \in BatchIds
    BY <2>1 DEF BatchIds, Ids
  <2>4. h.id \notin TakenIds
    <3>1. \A m \in TakenIds : m \in Nat /\ m < h.id
      BY <1>0, <2>3, IdsAreNumbers DEF Fresh
    <3>2. QED
      BY <2>2, <3>1
  <2>5. Range(taken)' = Range(taken) \cup {h}
    BY <1>1, <1>5, <2>1, AppendFacts
  <2>6. ASSUME NEW d \in Destinations
        PROVE  /\ IsFiniteSet(Of(Range(taken), d))'
               /\ takenPer'[d] = Cardinality(Of(Range(taken), d))'
               /\ slots'[d] + takenPer'[d] <= MaxPending
    <3>1. /\ IsFiniteSet(Of(Range(taken), d)) /\ takenPer[d] = Cardinality(Of(Range(taken), d))
          /\ slots[d] + takenPer[d] <= MaxPending
      BY DEF Slots
    <3>2. Of(Range(taken), d)' = Of(Range(taken) \cup {h}, d)
      BY <2>5 DEF Of, Ids
    <3>3. slots[d] \in Nat /\ takenPer[d] \in Nat /\ MaxPending \in Nat
      BY ONLY <1>0, ConfigAssumption, Zenon DEF Shapes
    <3>4. CASE d = h.dst
      <4>1. Of(Range(taken) \cup {h}, d) = Of(Range(taken), d) \cup {h.id}
        BY ONLY <3>4, OfMore
      <4>2. h.id \notin Of(Range(taken), d)
        BY ONLY <2>4, OfIds, Zenon DEF TakenIds
      <4>3. /\ IsFiniteSet(Of(Range(taken), d) \cup {h.id})
            /\ Cardinality(Of(Range(taken), d) \cup {h.id}) = Cardinality(Of(Range(taken), d)) + 1
        BY ONLY <3>1, <4>2, FS_AddElement, Zenon
      <4>4. takenPer'[d] = takenPer[d] + 1
        BY <1>0, <1>5, <3>4 DEF Shapes
      <4>5. slots[d] + takenPer[d] < MaxPending
        BY <1>5, <3>4 DEF Admissible
      <4>6. slots'[d] + takenPer'[d] <= MaxPending
        BY ONLY <1>1, <3>3, <4>4, <4>5, SMTT(20)
      <4>7. QED
        BY <3>1, <3>2, <4>1, <4>3, <4>4, <4>6
    <3>5. CASE d # h.dst
      <4>1. Of(Range(taken) \cup {h}, d) = Of(Range(taken), d)
        BY ONLY <3>5, OfOther
      <4>2. takenPer'[d] = takenPer[d]
        BY <1>0, <1>5, <3>5 DEF Shapes
      <4>3. QED
        BY <1>1, <3>1, <3>2, <4>1, <4>2
    <3>6. QED
      BY <3>4, <3>5
  <2>7. QED
    BY <1>1, <1>3, <2>6 DEF Slots
<1>6. QED
  BY <1>4, <1>5, Zenon DEF EnqueueConsider

\* A batch takes the slots it was admitted for, all of them or none.
LEMMA CommitSlots ==
    ASSUME Placed, Slots, EnqueueCommit
    PROVE  Slots'
<1>0. Shapes /\ Fresh /\ MaxPending \in Nat
  BY ConfigAssumption DEF Placed
<1>1. /\ taken' = <<>> /\ takenPer' = [d \in Destinations |-> 0]
      /\ UNCHANGED <<pc, job>>
  BY DEF EnqueueCommit, threads
<1>2. ASSUME NEW d \in Destinations
      PROVE  IsFiniteSet(Of(Range(taken), d))' /\ takenPer'[d] = Cardinality(Of(Range(taken), d))'
  <2>1. Of(Range(taken), d)' = {}
    <3>1. Range(taken') = {}
      BY <1>1, EmptyFacts
    <3>2. QED
      BY <3>1 DEF Of, Ids
  <2>2. QED
    BY <1>1, <2>1, FS_EmptySet
<1>3. CASE UNCHANGED <<queue, slots>>
  <2>1. \A d \in Destinations : SlotHolders(d)' = SlotHolders(d)
    BY <1>1, <1>3 DEF SlotHolders, Held
  <2>2. ASSUME NEW d \in Destinations PROVE slots'[d] + takenPer'[d] <= MaxPending
    <3>1. slots[d] \in Nat /\ takenPer[d] \in Nat /\ slots[d] + takenPer[d] <= MaxPending
      BY <1>0 DEF Shapes, Slots
    <3>2. slots'[d] = slots[d] /\ takenPer'[d] = 0
      BY ONLY <1>1, <1>3, Zenon
    <3>3. QED
      BY ONLY <1>0, <3>1, <3>2
  <2>3. QED
    BY <1>2, <1>3, <2>1, <2>2 DEF Slots
<1>4. CASE queue' = queue \o taken /\ slots' = [d \in Destinations |-> slots[d] + takenPer[d]]
  <2>1. queue \in Seq(Transactions) /\ taken \in Seq(Transactions)
    BY <1>0 DEF Shapes
  <2>2. Range(queue \o taken) = Range(queue) \cup Range(taken)
    BY <2>1, ConcatFacts
  <2>3. Holders' = Holders \cup Range(taken)
    BY <1>1, <1>4, <2>2 DEF Holders, Held
  <2>4. Ids(Holders) \cap TakenIds = {}
    <3>1. Ids(Holders) \subseteq Old
      BY DEF Holders, Old, QueuedIds, HeldIds, Ids
    <3>2. Old \subseteq Nat /\ TakenIds \subseteq Nat /\ \A m \in Old, n \in TakenIds : m < n
      BY <1>0, IdsAreNumbers DEF Fresh
    <3>3. ASSUME NEW m \in Ids(Holders), m \in TakenIds PROVE FALSE
      <4>1. m \in Nat /\ m < m
        BY ONLY <3>1, <3>2, <3>3, Zenon
      <4>2. QED
        BY ONLY <4>1
    <3>4. QED
      BY <3>3
  <2>5. ASSUME NEW d \in Destinations
        PROVE  /\ IsFiniteSet(SlotHolders(d))' /\ slots'[d] = Cardinality(SlotHolders(d))'
               /\ slots'[d] + takenPer'[d] <= MaxPending
    <3> DEFINE A == Of(Holders, d)
               B == Of(Range(taken), d)
    <3>1. /\ IsFiniteSet(A) /\ slots[d] = Cardinality(A)
          /\ IsFiniteSet(B) /\ takenPer[d] = Cardinality(B)
          /\ slots[d] + takenPer[d] <= MaxPending
      BY SlotHoldersAre DEF Slots
    <3>2. SlotHolders(d)' = A \cup B
      <4>1. SlotHolders(d)' = Of(Holders', d)
        BY DEF SlotHolders, Of, Holders, Ids
      <4>2. Of(Holders \cup Range(taken), d) = A \cup B
        BY DEF Of, Ids
      <4>3. QED
        BY <2>3, <4>1, <4>2, Zenon
    <3>3. A \cap B = {}
      BY ONLY <2>4, OfIds, Zenon DEF TakenIds
    <3>4. slots[d] \in Nat /\ takenPer[d] \in Nat
      BY ONLY <1>0, Zenon DEF Shapes
    <3> HIDE DEF A, B
    <3>5. IsFiniteSet(A \cup B) /\ Cardinality(A \cup B) = Cardinality(A) + Cardinality(B)
      <4>1. Cardinality(A \cap B) = 0
        BY ONLY <3>3, FS_EmptySet, Zenon
      <4>2. /\ IsFiniteSet(A \cup B)
            /\ Cardinality(A \cup B) = Cardinality(A) + Cardinality(B) - Cardinality(A \cap B)
        BY ONLY <3>1, FS_Union
      <4>3. QED
        BY ONLY <3>1, <3>4, <4>1, <4>2
    <3>6. slots'[d] = slots[d] + takenPer[d] /\ takenPer'[d] = 0
      BY <1>1, <1>4
    <3>7. QED
      BY <1>0, <3>1, <3>2, <3>4, <3>5, <3>6, SMTT(20)
  <2>6. QED
    BY ONLY <1>2, <2>5, Zenon DEF Slots
<1>5. QED
  BY <1>3, <1>4 DEF EnqueueCommit

LEMMA SlotsNext == Placed /\ Slots /\ [Next]_vars => Slots'
<1> SUFFICES ASSUME Placed, Slots, [Next]_vars PROVE Slots'
  OBVIOUS
<1> USE DEF worker, control, threads, calls
<1>0. Shapes /\ Attempts /\ Lock /\ Placement
  BY DEF Placed
<1>a. ASSUME UNCHANGED <<queue, pc, job, slots, taken, takenPer>> PROVE Slots'
  <2>1. Holders' = Holders
    BY <1>a DEF Holders, Held
  <2>2. QED
    BY <1>a, <2>1, SlotsKeep
<1>1. CASE EnqueueBegin \/ request_shutdown \/ Tick \/ Boot
  BY <1>1, <1>a, Zenon DEF EnqueueBegin, request_shutdown, Tick, Boot
<1>2. CASE EnqueueConsider
  BY <1>2, ConsiderSlots
<1>3. CASE EnqueueCommit
  BY <1>3, CommitSlots, Zenon
<1>4. CASE ReplayRow
  <2>1. UNCHANGED <<pc, job, taken, takenPer>> /\ life = "replaying"
    BY <1>4 DEF ReplayRow
  <2>2. CASE UNCHANGED <<queue, slots>>
    BY <2>1, <2>2, <1>a
  <2>3. ASSUME NEW row \in toReplay, push_queue_locked(row), ~destination_at_share_locked(row.dst)
        PROVE  Slots'
    <3>1. row \in Transactions /\ queue \in Seq(Transactions) /\ Distinct(queue)
      BY <1>0 DEF Shapes, Placement
    <3>2. row.dst \in Destinations
      BY <3>1 DEF Transactions
    <3>3. row.id \notin QueuedIds
      BY <1>0 DEF Placement, Waiting, Ids
    <3>4. Range(queue)' = Range(queue) \cup {row}
      BY <2>3, <3>1, <3>3, PushEffect
    <3>5. Held = {} /\ Held' = {}
      <4>1. \A t \in Threads : pc[t] = "done"
        BY <1>0, <2>1 DEF Attempts
      <4>2. QED
        BY ONLY <2>1, <4>1, Zenon DEF Held, Holding
    <3>6. Holders' = Holders \cup {row} /\ row.id \notin Ids(Holders)
      BY <3>3, <3>4, <3>5 DEF Holders, QueuedIds
    <3>7. slots' = [slots EXCEPT ![row.dst] = @ + 1]
      BY <2>3 DEF push_queue_locked
    <3>8. QED
      BY <1>0, <2>1, <2>3, <3>1, <3>2, <3>6, <3>7, SlotsGain, Zenon
  <2>4. QED
    BY ONLY <1>4, <2>2, <2>3, Zenon DEF ReplayRow
<1>5. CASE Start
  <2>1. /\ life = "replaying" /\ UNCHANGED <<queue, slots, taken, takenPer>>
        /\ \A t \in Threads : pc'[t] \in {"loop", "done"}
    BY ONLY <1>5, Zenon DEF Start, DeleteExcluded
  <2>2. Held = {} /\ Held' = {}
    <3>1. \A t \in Threads : pc[t] = "done"
      BY <1>0, <2>1 DEF Attempts
    <3>2. QED
      BY ONLY <2>1, <3>1, Zenon DEF Held, Holding
  <2>3. Holders' = Holders
    BY <2>1, <2>2 DEF Holders
  <2>4. QED
    BY <2>1, <2>3, SlotsKeep
<1>6. CASE Exit \/ Crash
  <2>1. /\ queue' = <<>> /\ pc' = [t \in Threads |-> "done"] /\ taken' = <<>>
        /\ slots' = [d \in Destinations |-> 0] /\ takenPer' = [d \in Destinations |-> 0]
    BY <1>6 DEF Exit, Crash, LoseMemory
  <2>2. Range(queue)' = {} /\ Range(taken)' = {}
    BY <2>1, EmptyFacts
  <2>3. Held' = {}
    BY <2>1 DEF Held, Holding
  <2>4. \A d \in Destinations : SlotHolders(d)' = {} /\ Of(Range(taken), d)' = {}
    BY ONLY <2>2, <2>3, Zenon DEF SlotHolders, Of, Ids
  <2>5. ASSUME NEW d \in Destinations
        PROVE  /\ IsFiniteSet(SlotHolders(d)') /\ slots'[d] = Cardinality(SlotHolders(d)')
               /\ IsFiniteSet(Of(Range(taken), d)')
               /\ takenPer'[d] = Cardinality(Of(Range(taken), d)')
               /\ slots'[d] + takenPer'[d] <= MaxPending
    <3>1. slots'[d] = 0 /\ takenPer'[d] = 0 /\ 0 + 0 <= MaxPending
      BY <2>1, ConfigAssumption
    <3>2. SlotHolders(d)' = {} /\ Of(Range(taken), d)' = {}
      BY <2>4
    <3>3. QED
      BY ONLY <3>1, <3>2, FS_EmptySet
  <2>6. QED
    BY ONLY <2>5, Zenon DEF Slots
<1>7. ASSUME NEW t \in Threads, ThreadStep(t) PROVE Slots'
  BY <1>0, <1>7, ThreadMoves, ThreadLock, MoveSlots, Zenon
<1>8. CASE UNCHANGED vars
  BY <1>8, <1>a DEF vars
<1>9. QED
  BY <1>1, <1>2, <1>3, <1>4, <1>5, <1>6, <1>7, <1>8 DEF Next, Enqueue

LEMMA SlotsAlways == Spec => [](Placed /\ Slots)
<1>1. Init => Slots
  <2> SUFFICES ASSUME Init PROVE Slots
    OBVIOUS
  <2>1. /\ queue = <<>> /\ taken = <<>>
        /\ slots = [d \in Destinations |-> 0] /\ takenPer = [d \in Destinations |-> 0]
    BY DEF Init
  <2>2. Range(queue) = {} /\ Range(taken) = {}
    BY <2>1, EmptyFacts
  <2>3. Held = {}
    BY DEF Init, Held, Holding
  <2>4. \A d \in Destinations : SlotHolders(d) = {} /\ Of(Range(taken), d) = {}
    BY <2>2, <2>3 DEF SlotHolders, Of, Ids
  <2>5. ASSUME NEW d \in Destinations
        PROVE  /\ IsFiniteSet(SlotHolders(d)) /\ slots[d] = Cardinality(SlotHolders(d))
               /\ IsFiniteSet(Of(Range(taken), d))
               /\ takenPer[d] = Cardinality(Of(Range(taken), d))
               /\ slots[d] + takenPer[d] <= MaxPending
    <3>1. slots[d] = 0 /\ takenPer[d] = 0 /\ 0 + 0 <= MaxPending
      BY <2>1, ConfigAssumption
    <3>2. SlotHolders(d) = {} /\ Of(Range(taken), d) = {}
      BY <2>4
    <3>3. QED
      BY ONLY <3>1, <3>2, FS_EmptySet, Zenon
  <2>6. QED
    BY <2>5, Zenon DEF Slots
<1>2. QED
  BY <1>1, PlacedAlways, SlotsNext, PTL DEF Spec

\* The slots a destination is charged for are its queued and in-flight
\* transactions, on every path, and never more than its share.
THEOREM SlotsAreExact == Spec => []SlotsAreHeld
<1>1. Placed /\ Slots => SlotsAreHeld
  <2> SUFFICES ASSUME Placed, Slots, NEW d \in Destinations
               PROVE  slots[d] = Cardinality(SlotHolders(d)) /\ slots[d] <= MaxPending
    BY Zenon DEF SlotsAreHeld
  <2>1. slots[d] \in Nat /\ takenPer[d] \in Nat /\ MaxPending \in Nat
    BY ConfigAssumption DEF Placed, Shapes
  <2>2. slots[d] + takenPer[d] <= MaxPending /\ slots[d] = Cardinality(SlotHolders(d))
    BY Zenon DEF Slots
  <2>3. QED
    BY ONLY <2>1, <2>2
<1>2. QED
  BY <1>1, SlotsAlways, PTL

(***************************************************************************)
(* The parked backlog.                                                      *)
(***************************************************************************)
\* With nothing queued a destination holds at most the slot of its attempt.
LEMMA EmptyQueueShare ==
    ASSUME Placed, Slots, queue = <<>>, NEW d \in Destinations
    PROVE  /\ ~destination_at_share_locked(d)
           /\ ~QueueFull
<1>0. Shapes /\ Attempts
  BY Zenon DEF Placed
<1>1. slots[d] = Cardinality(SlotHolders(d)) /\ slots[d] \in Nat
  BY <1>0 DEF Slots, Shapes
<1>2. Range(queue) = {}
  BY EmptyFacts
<1>3. CASE \E t \in Threads : pc[t] \in Holding /\ job[t].dst = d
  <2>1. PICK t \in Threads : pc[t] \in Holding /\ job[t].dst = d
    BY <1>3
  <2>2. \A u \in Threads : pc[u] \in Holding /\ job[u].dst = d => u = t
    BY ONLY <1>0, <2>1, Zenon DEF Attempts, Flying
  <2>3. {e \in Range(queue) \cup Held : e.dst = d} = {job[t]}
    BY ONLY <1>2, <2>1, <2>2, Zenon DEF Held
  <2>4. SlotHolders(d) = {job[t].id}
    BY <2>3 DEF SlotHolders, Ids
  <2>5. slots[d] = 1
    BY <1>1, <2>4, FS_Singleton, Zenon
  <2>6. QED
    BY <2>5, ConfigAssumption DEF destination_at_share_locked, QueueFull
<1>4. CASE ~ \E t \in Threads : pc[t] \in Holding /\ job[t].dst = d
  <2>1. {e \in Range(queue) \cup Held : e.dst = d} = {}
    BY <1>2, <1>4 DEF Held
  <2>2. SlotHolders(d) = {}
    BY <2>1 DEF SlotHolders, Ids
  <2>3. slots[d] = 0
    BY ONLY <1>1, <2>2, FS_EmptySet, Zenon
  <2>4. QED
    BY <2>3, ConfigAssumption DEF destination_at_share_locked, QueueFull
<1>5. QED
  BY <1>3, <1>4

\* The inductive invariant: a backlog behind an empty queue is about to be
\* looked at by a thread that is topping up.
Backlog == parked # <<>> /\ queue = <<>> => mutex \in Threads /\ toLook # 0

\* Outside top-ups and takes a thread leaves mutex_ and the top-up alone.
LEMMA ThreadTopUp ==
    ASSUME NEW t \in Threads, ThreadStep(t)
    PROVE  TopUp(t) \/ (\E dueBy : take_next(t, dueBy)) \/ UNCHANGED <<mutex, toLook>>
<1> USE DEF calls
<1>1. CASE LoopCheck(t) \/ PollIdle(t) \/ AttemptBegin(t) \/ Discover(t) \/ Perform(t)
  BY <1>1, Zenon DEF LoopCheck, PollIdle, AttemptBegin, Discover, Perform
<1>2. CASE AttemptFailed(t) \/ AttemptSucceeded(t) \/ ReleaseInFlight(t)
  BY <1>2, Zenon DEF AttemptFailed, AttemptSucceeded, ReleaseInFlight
<1>3. CASE wait_out_open_circuit(t) \/ re_enqueue_with_backoff(t)
  BY ONLY <1>3, Zenon DEF wait_out_open_circuit, re_enqueue_with_backoff, PersistAndRequeue, DropExhausted
<1>4. CASE DrainBegin(t) \/ DrainCheck(t) \/ DrainEnd(t)
  BY <1>4 DEF DrainBegin, DrainCheck, DrainEnd
<1>5. QED
  BY <1>1, <1>2, <1>3, <1>4 DEF ThreadStep, Poll, DrainTake

LEMMA BacklogNext == Placed /\ Slots /\ Backlog /\ [Next]_vars => Backlog'
<1> SUFFICES ASSUME Placed, Slots, Backlog, [Next]_vars PROVE Backlog'
  OBVIOUS
<1> USE DEF worker, control, threads, calls
<1>0. /\ Shapes /\ Attempts /\ Lock /\ Placement
      /\ queue \in Seq(Transactions) /\ parked \in Seq(Transactions) /\ taken \in Seq(Transactions)
      /\ Caller \notin Threads
  BY ConfigAssumption, Zenon DEF Placed, Shapes
<1>a. ASSUME mutex \notin Threads, UNCHANGED parked, UNCHANGED queue PROVE Backlog'
  BY <1>a DEF Backlog
<1>1. CASE EnqueueBegin \/ request_shutdown
  BY <1>1, <1>a, ConfigAssumption, Zenon DEF EnqueueBegin, request_shutdown
<1>2. CASE EnqueueConsider
  BY <1>0, <1>2, <1>a, Zenon DEF EnqueueConsider
<1>3. CASE EnqueueCommit
  <2>1. mutex = Caller /\ UNCHANGED parked
    BY ONLY <1>3, Zenon DEF EnqueueCommit
  <2>2. queue' = queue \/ queue' = queue \o taken
    BY <1>3 DEF EnqueueCommit
  <2>3. queue # <<>> => queue \o taken # <<>>
    BY ONLY <1>0
  <2>4. QED
    BY <1>0, <2>1, <2>2, <2>3, Zenon DEF Backlog
<1>4. CASE Boot
  BY <1>0, <1>4 DEF Boot, Lock, Backlog
<1>5. CASE ReplayRow
  <2>1. mutex = Caller /\ mutex' = mutex
    BY ONLY <1>0, <1>5, Zenon DEF ReplayRow, Lock
  <2>2. PICK row \in toReplay :
          \/ UNCHANGED <<queue, parked>>
          \/ /\ QueueFull \/ destination_at_share_locked(row.dst)
             /\ UNCHANGED queue
          \/ queue' = Append(queue, row) /\ UNCHANGED parked
    BY <1>5 DEF ReplayRow, push_queue_locked
  <2>3. row.dst \in Destinations /\ row \in Transactions
    <3>1. row \in Transactions
      BY <1>0 DEF Shapes
    <3>2. QED
      BY ONLY <3>1, Zenon DEF Transactions
  <2>4. CASE UNCHANGED <<queue, parked>>
    BY <1>0, <2>1, <2>4, <1>a
  <2>5. CASE (QueueFull \/ destination_at_share_locked(row.dst)) /\ UNCHANGED queue
    <3>1. queue # <<>>
      BY <2>3, <2>5, EmptyQueueShare
    <3>2. QED
      BY <2>5, <3>1 DEF Backlog
  <2>6. CASE queue' = Append(queue, row)
    <3>1. Append(queue, row) # <<>>
      BY ONLY <1>0, <2>3
    <3>2. QED
      BY <2>6, <3>1 DEF Backlog
  <2>7. QED
    BY <2>2, <2>4, <2>5, <2>6
<1>6. CASE Start
  <2>1. mutex = Caller /\ UNCHANGED <<queue, parked>>
    BY ONLY <1>0, <1>6, Zenon DEF Start, DeleteExcluded, Lock
  <2>2. QED
    BY <1>0, <2>1, <1>a, Zenon
<1>7. CASE Exit \/ Crash
  BY <1>7 DEF Exit, Crash, LoseMemory, Backlog
<1>8. CASE Tick
  BY <1>8 DEF Tick, Backlog
<1>9. ASSUME NEW t \in Threads, ThreadStep(t) PROVE Backlog'
  <2>1. ASSUME NEW dueBy, take_next(t, dueBy) PROVE Backlog'
    <3>1. mutex' = t /\ toLook' = Len(parked) /\ parked' = parked
      BY <2>1 DEF take_next
    <3>2. parked # <<>> => Len(parked) # 0
      BY ONLY <1>0
    <3>3. QED
      BY ONLY <3>1, <3>2, Zenon DEF Backlog
  <2>2. CASE TopUp(t)
    <3> SUFFICES ASSUME parked' # <<>>, queue' = <<>>
                 PROVE  mutex' \in Threads /\ toLook' # 0
      BY Zenon DEF Backlog
    <3>1. CASE UNCHANGED <<queue, slots, parked>> /\ (toLook = 0 \/ parked = <<>> \/ QueueFull)
      <4>1. queue = <<>> /\ parked # <<>> /\ toLook # 0
        BY <3>1 DEF Backlog
      <4>2. ~QueueFull
        <5>1. QueueFull => MaxQueueDepth # 0 /\ 0 >= MaxQueueDepth
          BY <4>1 DEF QueueFull
        <5>2. QED
          BY <5>1, ConfigAssumption
      <4>3. QED
        BY <3>1, <4>1, <4>2
    <3>2. CASE parked # <<>> /\ destination_at_share_locked(Head(parked).dst) /\ UNCHANGED queue
      <4>1. Head(parked).dst \in Destinations
        <5>1. Head(parked) \in Transactions
          BY ONLY <1>0, <3>2
        <5>2. QED
          BY <5>1 DEF Transactions
      <4>2. queue = <<>>
        BY <3>2
      <4>3. QED
        BY <3>2, <4>1, <4>2, EmptyQueueShare
    <3>3. CASE parked # <<>> /\ push_queue_locked(Head(parked))
      <4>1. Append(queue, Head(parked)) # <<>>
        <5>1. Head(parked) \in Transactions
          BY ONLY <1>0, <3>3
        <5>2. QED
          BY ONLY <1>0, <5>1
      <4>2. QED
        BY <3>3, <4>1 DEF push_queue_locked
    <3>4. QED
      BY <2>2, <3>1, <3>2, <3>3, Zenon DEF TopUp
  <2>3. CASE UNCHANGED <<mutex, toLook>> /\ ~TopUp(t)
    <3>1. Move(t)
      BY <1>0, <1>9, ThreadMoves
    <3>2. CASE Keep \/ LetGo(t)
      BY <2>3, <3>2, Zenon DEF Keep, LetGo, Backlog
    <3>3. CASE Take(t)
      <4>1. toLook' = Len(parked) /\ mutex' = t /\ parked' = parked
        BY ONLY <3>3, Zenon DEF Take
      <4>2. parked # <<>> => Len(parked) # 0
        BY ONLY <1>0
      <4>3. QED
        BY <4>1, <4>2 DEF Backlog
    <3>4. CASE Promote
      <4>1. Append(queue, Head(parked)) # <<>>
        <5>1. Head(parked) \in Transactions
          BY <1>0, <3>4 DEF Promote
        <5>2. QED
          BY ONLY <1>0, <5>1
      <4>2. QED
        BY <3>4, <4>1 DEF Promote, push_queue_locked, Backlog
    <3>5. CASE Rotate
      <4>1. Head(parked).dst \in Destinations
        <5>1. Head(parked) \in Transactions
          BY <1>0, <3>5 DEF Rotate
        <5>2. QED
          BY <5>1 DEF Transactions
      <4>2. queue # <<>>
        BY <3>5, <4>1, EmptyQueueShare DEF Rotate
      <4>3. QED
        BY <3>5, <4>2 DEF Rotate, Backlog
    <3>6. CASE Return(t)
      <4>1. PICK row \in Transactions : queue' = <<row>> \o queue
        BY <3>6 DEF Return, requeue_locked
      <4>2. <<row>> \o queue # <<>>
        BY ONLY <1>0, row \in Transactions
      <4>3. QED
        BY ONLY <4>1, <4>2, Zenon DEF Backlog
    <3>7. QED
      BY <3>1, <3>2, <3>3, <3>4, <3>5, <3>6 DEF Move
  <2>4. QED
    BY <1>9, <2>1, <2>2, <2>3, ThreadTopUp
<1>10. CASE UNCHANGED vars
  BY <1>10 DEF vars, Backlog
<1>11. QED
  BY <1>1, <1>2, <1>3, <1>4, <1>5, <1>6, <1>7, <1>8, <1>9, <1>10 DEF Next, Enqueue

\* A parked backlog always has a queued transaction before it, whose taking
\* tops the queue up again.
THEOREM BacklogMoves == Spec => []BacklogIsNotStranded
<1>1. Init => Backlog
  BY DEF Init, Backlog
<1>2. Backlog => BacklogIsNotStranded
  BY ConfigAssumption DEF Backlog, BacklogIsNotStranded
<1>3. QED
  BY <1>1, <1>2, SlotsAlways, BacklogNext, PTL DEF Spec

(***************************************************************************)
(* The depth of the queue.                                                  *)
(***************************************************************************)
HoldingThreads == {t \in Threads : pc[t] \in Holding}
Load == Len(queue) + Cardinality(HoldingThreads)

\* The inductive invariant: what is queued and held together passes the depth
\* by no more than the threads, and a batch being admitted still fits.
Depth ==
    MaxQueueDepth # 0 =>
        /\ Load <= MaxQueueDepth + Cardinality(Threads)
        /\ taken # <<>> => Len(queue) + Len(taken) <= MaxQueueDepth

LEMMA SomeThreads ==
    ASSUME NEW T \in SUBSET Threads
    PROVE  /\ IsFiniteSet(T) /\ Cardinality(T) \in Nat
           /\ Cardinality(Threads) \in Nat /\ Cardinality(T) <= Cardinality(Threads)
<1>1. IsFiniteSet(Threads)
  BY ConfigAssumption
<1>2. QED
  BY ONLY <1>1, T \in SUBSET Threads, FS_Subset, FS_CardinalityType

LEMMA HoldingThreadsFacts ==
    /\ IsFiniteSet(HoldingThreads) /\ Cardinality(HoldingThreads) \in Nat
    /\ Cardinality(HoldingThreads') \in Nat /\ Cardinality(HoldingThreads') <= Cardinality(Threads)
    /\ Cardinality(Threads) \in Nat
<1>1. HoldingThreads \subseteq Threads /\ HoldingThreads' \subseteq Threads
  BY Zenon DEF HoldingThreads
<1>2. QED
  BY ONLY <1>1, SomeThreads

\* A thread that begins or ends an attempt.
LEMMA HoldingThreadsMove ==
    ASSUME NEW t \in Threads, Others(t)
    PROVE  /\ pc[t] \notin Holding /\ pc'[t] \in Holding =>
                Cardinality(HoldingThreads') = Cardinality(HoldingThreads) + 1
           /\ pc[t] \in Holding /\ pc'[t] \notin Holding =>
                Cardinality(HoldingThreads') = Cardinality(HoldingThreads) - 1
<1>1. ASSUME pc[t] \notin Holding, pc'[t] \in Holding
      PROVE  t \notin HoldingThreads /\ HoldingThreads' = HoldingThreads \cup {t}
  BY <1>1 DEF HoldingThreads, Others
<1>2. ASSUME pc[t] \in Holding, pc'[t] \notin Holding
      PROVE  t \in HoldingThreads /\ HoldingThreads' = HoldingThreads \ {t}
  BY <1>2 DEF HoldingThreads, Others
<1>3. QED
  BY ONLY <1>1, <1>2, HoldingThreadsFacts, FS_AddElement, FS_RemoveElement

\* A step that adds to the queue below its depth, or lowers the load.
LEMMA DepthKeeps ==
    ASSUME Len(queue) \in Nat, Len(queue') \in Nat, Depth, taken' = <<>>,
           MaxQueueDepth # 0 => Load' <= Load \/ Len(queue') <= MaxQueueDepth
    PROVE  Depth'
<1>1. MaxQueueDepth \in Nat
  BY ONLY ConfigAssumption, Zenon
<1>2. MaxQueueDepth # 0 => Load' <= MaxQueueDepth + Cardinality(Threads)
  BY <1>1, HoldingThreadsFacts DEF Depth, Load
<1>3. QED
  BY <1>2 DEF Depth

\* What each move does to the load.
LEMMA MoveLoad ==
    ASSUME Shapes, NEW t \in Threads, Move(t)
    PROVE  Len(queue') \in Nat /\ (Load' <= Load \/ (Len(queue') = Len(queue) + 1 /\ ~QueueFull))
<1>0. queue \in Seq(Transactions) /\ parked \in Seq(Transactions) /\ Len(queue) \in Nat
  BY SMTT(20) DEF Shapes
<1>1. CASE Keep
  <2>1. queue' = queue /\ HoldingThreads' = HoldingThreads
    BY ONLY <1>1, Zenon DEF Keep, SameHolding, HoldingThreads
  <2>2. QED
    BY <1>0, <2>1, HoldingThreadsFacts DEF Load
<1>2. CASE Take(t)
  <2>1. PICK i \in 1..Len(queue) :
          /\ queue' = Erase(queue, i) /\ pc[t] \notin Holding /\ pc'[t] = "topup" /\ Others(t)
    BY ONLY <1>2, Zenon DEF Take
  <2>2. Len(Erase(queue, i)) = Len(queue) - 1 /\ Len(queue) > 0
    BY ONLY <1>0, EraseFacts, SMTT(20)
  <2>3. Cardinality(HoldingThreads') = Cardinality(HoldingThreads) + 1
    BY <2>1, HoldingThreadsMove DEF Holding
  <2>4. QED
    BY <1>0, <2>1, <2>2, <2>3, HoldingThreadsFacts DEF Load
<1>3. CASE Promote
  <2>1. ~QueueFull /\ queue' = Append(queue, Head(parked)) /\ parked # <<>>
    BY <1>3, Zenon DEF Promote, push_queue_locked
  <2>2. Len(Append(queue, Head(parked))) = Len(queue) + 1
    BY ONLY <1>0, <2>1
  <2>3. QED
    BY <1>0, <2>1, <2>2
<1>4. CASE Rotate
  <2>1. queue' = queue /\ HoldingThreads' = HoldingThreads
    BY ONLY <1>4, Zenon DEF Rotate, HoldingThreads
  <2>2. QED
    BY <1>0, <2>1, HoldingThreadsFacts DEF Load
<1>5. CASE Return(t)
  <2>1. PICK row \in Transactions :
          queue' = <<row>> \o queue /\ pc[t] \in Holding /\ pc'[t] = "release" /\ Others(t)
    BY <1>5, Zenon DEF Return, requeue_locked
  <2>2. Len(<<row>> \o queue) = Len(queue) + 1
    BY ONLY <1>0, row \in Transactions, SMTT(20)
  <2>3. Cardinality(HoldingThreads') = Cardinality(HoldingThreads) - 1
    BY ONLY <2>1, HoldingThreadsMove, Zenon DEF Holding
  <2>4. QED
    BY <1>0, <2>1, <2>2, <2>3, HoldingThreadsFacts DEF Load
<1>6. CASE LetGo(t)
  <2>1. queue' = queue /\ pc[t] \in Holding /\ pc'[t] = "release" /\ Others(t)
    BY <1>6, Zenon DEF LetGo
  <2>2. Cardinality(HoldingThreads') = Cardinality(HoldingThreads) - 1
    BY ONLY <2>1, HoldingThreadsMove, Zenon DEF Holding
  <2>3. QED
    BY <1>0, <2>1, <2>2, HoldingThreadsFacts DEF Load
<1>7. QED
  BY <1>1, <1>2, <1>3, <1>4, <1>5, <1>6, Zenon DEF Move

LEMMA DepthNext == Placed /\ Depth /\ [Next]_vars => Depth'
<1> SUFFICES ASSUME Placed, Depth, [Next]_vars PROVE Depth'
  OBVIOUS
<1> USE DEF worker, control, threads, calls, disk, ledger
<1>0. /\ Shapes /\ Attempts /\ Lock
      /\ queue \in Seq(Transactions) /\ taken \in Seq(Transactions) /\ batch \in Seq(Transactions)
      /\ MaxQueueDepth \in Nat /\ Caller # Free
  BY ConfigAssumption, Zenon DEF Placed, Shapes
<1>1. Len(queue) \in Nat /\ Len(taken) \in Nat
  BY ONLY <1>0
<1>a. ASSUME UNCHANGED <<queue, pc, taken>> PROVE Depth'
  BY <1>a, Zenon DEF Depth, Load, HoldingThreads
<1>2. CASE EnqueueBegin \/ request_shutdown \/ Tick \/ Boot \/ UNCHANGED vars
  BY <1>2, <1>a, Zenon DEF EnqueueBegin, request_shutdown, Tick, Boot, vars
<1>3. CASE EnqueueConsider
  <2>1. batch # <<>> /\ UNCHANGED <<queue, pc>>
    BY <1>3, Zenon DEF EnqueueConsider
  <2>2. Load' = Load
    BY <2>1, Zenon DEF Load, HoldingThreads
  <2>3. CASE taken' = taken
    BY <2>1, <2>3, <1>a
  <2>4. CASE Admissible(Head(batch)) /\ taken' = Append(taken, Head(batch))
    <3>1. Len(Append(taken, Head(batch))) = Len(taken) + 1
      BY ONLY <1>0, <2>1
    <3>2. MaxQueueDepth # 0 => ~(Len(queue) + Len(taken) >= MaxQueueDepth)
      BY <2>4 DEF Admissible
    <3>3. MaxQueueDepth # 0 => Len(queue') + Len(taken') <= MaxQueueDepth
      BY <1>0, <1>1, <2>1, <2>4, <3>1, <3>2
    <3>4. QED
      BY <2>2, <3>3 DEF Depth
  <2>5. QED
    BY <1>3, <2>3, <2>4, Zenon DEF EnqueueConsider
<1>4. CASE EnqueueCommit
  <2>1. taken' = <<>> /\ pc' = pc /\ (queue' = queue \/ queue' = queue \o taken)
    BY <1>4 DEF EnqueueCommit
  <2>2. Len(queue \o taken) = Len(queue) + Len(taken) /\ (taken = <<>> => queue \o taken = queue)
    BY ONLY <1>0
  <2>3. CASE queue' = queue
    <3>1. Load' = Load
      BY <2>1, <2>3, Zenon DEF Load, HoldingThreads
    <3>2. Load' <= Load
      BY <1>1, <3>1, HoldingThreadsFacts DEF Load
    <3>3. QED
      BY <1>1, <2>1, <2>3, <3>2, DepthKeeps
  <2>4. CASE queue' = queue \o taken /\ taken # <<>>
    <3>1. MaxQueueDepth # 0 => Len(queue') <= MaxQueueDepth
      BY <2>2, <2>4, Zenon DEF Depth
    <3>2. QED
      BY <1>1, <2>1, <2>2, <2>4, <3>1, DepthKeeps
  <2>5. QED
    BY <2>1, <2>2, <2>3, <2>4
<1>5. CASE ReplayRow
  <2>1. taken' = taken /\ pc' = pc /\ taken = <<>>
    BY <1>0, <1>5 DEF ReplayRow, Lock
  <2>2. CASE queue' = queue
    BY <2>1, <2>2, <1>a
  <2>3. ASSUME NEW row \in toReplay, queue' = Append(queue, row), ~QueueFull PROVE Depth'
    <3>1. row \in Transactions
      BY <1>0 DEF Shapes
    <3>2. Len(Append(queue, row)) = Len(queue) + 1
      BY ONLY <1>0, <3>1
    <3>3. MaxQueueDepth # 0 => Len(queue') <= MaxQueueDepth
      BY <1>0, <1>1, <2>3, <3>2 DEF QueueFull
    <3>4. QED
      BY <1>1, <2>1, <2>3, <3>2, <3>3, DepthKeeps
  <2>4. QED
    BY ONLY <1>5, <2>2, <2>3, Zenon DEF ReplayRow, push_queue_locked
<1>6. CASE Start
  <2>1. queue' = queue /\ taken' = taken /\ taken = <<>> /\ \A t \in Threads : pc'[t] \in {"loop", "done"}
    BY <1>0, <1>6 DEF Start, DeleteExcluded, Lock
  <2>2. HoldingThreads' = {}
    BY <2>1 DEF HoldingThreads, Holding
  <2>3. Cardinality(HoldingThreads') = 0
    BY <2>2, FS_EmptySet
  <2>4. Load' <= Load
    BY <1>1, <2>1, <2>3, HoldingThreadsFacts DEF Load
  <2>5. QED
    BY <1>1, <2>1, <2>4, DepthKeeps, Zenon
<1>7. CASE Exit \/ Crash
  <2>1. queue' = <<>> /\ taken' = <<>>
    BY <1>7, Zenon DEF Exit, Crash, LoseMemory
  <2>2. Len(queue') = 0
    BY <2>1
  <2>3. QED
    BY <1>0, <1>1, <2>1, <2>2, DepthKeeps
<1>8. ASSUME NEW t \in Threads, ThreadStep(t) PROVE Depth'
  <2>1. life = "running" /\ taken' = taken /\ Move(t) /\ (mutex = Caller => Keep)
    BY <1>0, <1>8, ThreadLock, ThreadMoves DEF Apart
  <2>2. CASE Keep
    <3>1. queue' = queue /\ HoldingThreads' = HoldingThreads
      BY <2>2 DEF Keep, SameHolding, HoldingThreads
    <3>2. QED
      BY <2>1, <3>1, Zenon DEF Depth, Load
  <2>3. CASE ~Keep
    <3>1. taken' = <<>>
      BY <1>0, <2>1, <2>3 DEF Lock
    <3>2. Len(queue') \in Nat /\ (Load' <= Load \/ (Len(queue') = Len(queue) + 1 /\ ~QueueFull))
      BY <1>0, <2>1, MoveLoad
    <3>3. MaxQueueDepth # 0 => Load' <= Load \/ Len(queue') <= MaxQueueDepth
      BY <1>0, <1>1, <3>2 DEF QueueFull
    <3>4. QED
      BY <1>1, <3>1, <3>2, <3>3, DepthKeeps
  <2>4. QED
    BY <2>2, <2>3
<1>9. QED
  BY <1>2, <1>3, <1>4, <1>5, <1>6, <1>7, <1>8 DEF Next, Enqueue

\* Retries pass the depth of the queue by no more than what the threads hold,
\* for any number of threads, batches, replays and top-ups.
THEOREM QueueStaysBounded == Spec => []QueueIsBounded
<1>1. Init => Depth
  <2> SUFFICES ASSUME Init PROVE Depth
    OBVIOUS
  <2>1. Len(queue) = 0 /\ taken = <<>>
    BY Zenon DEF Init
  <2>2. HoldingThreads = {}
    BY Zenon DEF Init, HoldingThreads, Holding
  <2>3. Cardinality(HoldingThreads) = 0 /\ Cardinality(Threads) \in Nat /\ MaxQueueDepth \in Nat
    BY <2>2, FS_EmptySet, HoldingThreadsFacts, ConfigAssumption
  <2>4. QED
    BY <2>1, <2>3 DEF Depth, Load
<1>2. Depth => QueueIsBounded
  BY DEF Depth, Load, HoldingThreads, QueueIsBounded
<1>3. QED
  BY <1>1, <1>2, PlacedAlways, DepthNext, PTL DEF Spec
=============================================================================
