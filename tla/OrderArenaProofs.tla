-------------------------- MODULE OrderArenaProofs --------------------------
(***************************************************************************)
(* Proofs about the order arena, for every value of its constants.         *)
(***************************************************************************)
EXTENDS OrderArena, FiniteSetTheorems, SequenceTheorems, TLAPS

\* Where an issued handle can stand against its slot: behind the slot's
\* generation; at it, naming the order the slot holds; or at the last
\* generation of an empty slot that insert will never find again.
IssuedBehind ==
  \A h \in issued :
    /\ h.slot \in DOMAIN slots
    /\ \/ h.generation < slots[h.slot].generation
       \/ /\ h.generation = slots[h.slot].generation
          /\ slots[h.slot].value # NoOrder
       \/ /\ h.generation = slots[h.slot].generation
          /\ h.generation = MaxGen
          /\ h.slot \notin Free

\* The inductive invariant.
IInv == TypeOK /\ FreeListSound /\ NoSlotLost /\ OccupiedIsIssued /\ IssuedBehind

\* The empty arena satisfies it.
LEMMA InitIInv == Init => IInv
  BY ArenaAssumption DEF Init, IInv, TypeOK, FreeListSound, NoSlotLost,
     OccupiedIsIssued, IssuedBehind, Occupied, Free

\* What one slot of the arena looks like, and its length.
LEMMA SlotFacts ==
  ASSUME TypeOK
  PROVE  /\ Len(slots) \in Nat
         /\ DOMAIN slots = 1..Len(slots)
         /\ \A s \in DOMAIN slots :
              /\ slots[s] = [generation |-> slots[s].generation,
                             value |-> slots[s].value]
              /\ slots[s].generation \in 0..MaxGen
              /\ slots[s].value \in Order \cup {NoOrder}
         /\ Len(free_slots) \in Nat
         /\ DOMAIN free_slots = 1..Len(free_slots)
<1>1. /\ Len(slots) \in Nat
      /\ DOMAIN slots = 1..Len(slots)
      /\ \A s \in DOMAIN slots : slots[s] \in Slot
  BY DEF TypeOK
<1>2. \A r \in Slot : /\ r = [generation |-> r.generation, value |-> r.value]
                     /\ r.generation \in 0..MaxGen
                     /\ r.value \in Order \cup {NoOrder}
  BY DEF Slot
<1>3. /\ Len(free_slots) \in Nat
      /\ DOMAIN free_slots = 1..Len(free_slots)
  BY DEF TypeOK
<1> QED BY <1>1, <1>2, <1>3

\* Recycling a slot keeps the invariant.
LEMMA RecycledIInv ==
  ASSUME IInv, NEW o \in Order, InsertRecycled(o)
  PROVE  IInv'
<1> DEFINE n == Len(free_slots)
           top == free_slots[n]
<1>1. TypeOK
  BY DEF IInv
<1>2. n \in Nat /\ n # 0 /\ n \in DOMAIN free_slots
  BY <1>1, SlotFacts DEF InsertRecycled, TypeOK
<1>3. /\ top \in DOMAIN slots
      /\ slots[top].value = NoOrder
      /\ slots' = [slots EXCEPT ![top].value = o]
      /\ issued' = issued \cup {[slot |-> top, generation |-> slots[top].generation]}
      /\ free_slots' = SubSeq(free_slots, 1, n - 1)
  BY <1>2 DEF InsertRecycled, IInv, FreeListSound
<1>4. /\ DOMAIN free_slots' = 1..(n - 1)
      /\ \A i \in 1..(n - 1) : i \in DOMAIN free_slots /\ free_slots'[i] = free_slots[i]
  BY <1>1, <1>2, <1>3, SlotFacts DEF TypeOK
<1>5. /\ DOMAIN slots' = DOMAIN slots
      /\ slots'[top] = [generation |-> slots[top].generation, value |-> o]
      /\ \A s \in DOMAIN slots : s # top => slots'[s] = slots[s]
  BY <1>1, <1>3, SlotFacts
<1>6. Free' = Free \ {top}
  <2>1. DOMAIN free_slots = (1..(n - 1)) \cup {n}
    BY <1>1, <1>2, SlotFacts
  <2>2. \A i \in 1..(n - 1) : free_slots[i] # top
    BY <1>2, <1>4 DEF IInv, FreeListSound
  <2>3. Free' = {free_slots[i] : i \in 1..(n - 1)}
    BY <1>4, Zenon DEF Free
  <2>4. Free = {free_slots[i] : i \in 1..(n - 1)} \cup {top}
    BY <2>1, Zenon DEF Free
  <2>5. top \notin {free_slots[i] : i \in 1..(n - 1)}
    BY <2>2, Zenon
  <2> QED BY <2>3, <2>4, <2>5, Zenon
<1>7. o # NoOrder
  BY ArenaAssumption
<1>8. TypeOK'
  <2>1. slots' \in Seq(Slot)
    <3>1. [generation |-> slots[top].generation, value |-> o] \in Slot
      BY <1>1, <1>3, SlotFacts DEF Slot
    <3>2. \A t \in DOMAIN slots : slots'[t] \in Slot
      BY <1>1, <1>5, <3>1 DEF TypeOK
    <3>3. slots' \in [1..Len(slots) -> Slot]
      BY <1>1, <1>3, <3>2, SlotFacts
    <3> QED BY <1>1, <3>3, SlotFacts, SeqDef
  <2>2. free_slots' \in Seq(Nat \ {0})
    BY <1>1, <1>2, <1>3 DEF TypeOK
  <2>3. issued' \subseteq Handle
    <3>1. top \in Nat \ {0} /\ slots[top].generation \in 0..MaxGen
      BY <1>1, <1>3, SlotFacts
    <3> QED BY <1>1, <1>3, <3>1, SMTT(20) DEF TypeOK, Handle
  <2> QED BY <1>1, <2>1, <2>2, <2>3, SMTT(20) DEF TypeOK, InsertRecycled, CountInsert, Max2
<1>9. FreeListSound'
  <2>1. \A i \in DOMAIN free_slots' : free_slots'[i] # top
    BY <1>2, <1>4, <1>1, SlotFacts DEF IInv, FreeListSound
  <2> QED BY <1>4, <1>5, <2>1, SMTT(20) DEF IInv, FreeListSound
<1>10. NoSlotLost'
  BY <1>5, <1>6, <1>7 DEF IInv, NoSlotLost
<1>11. OccupiedIsIssued'
  BY <1>3, <1>5, <1>1, SlotFacts DEF IInv, OccupiedIsIssued, Occupied
<1>12. IssuedBehind'
  BY <1>3, <1>5, <1>6, <1>7 DEF IInv, IssuedBehind
<1> QED BY <1>8, <1>9, <1>10, <1>11, <1>12 DEF IInv

\* Adding a slot keeps the invariant.
LEMMA FreshIInv ==
  ASSUME IInv, NEW o \in Order, InsertFresh(o)
  PROVE  IInv'
<1> DEFINE n == Len(slots)
<1>1. TypeOK
  BY DEF IInv
<1>2. /\ slots' = Append(slots, [generation |-> 0, value |-> o])
      /\ issued' = issued \cup {[slot |-> n + 1, generation |-> 0]}
      /\ free_slots' = free_slots
      /\ free_slots = << >>
  BY DEF InsertFresh
<1>3. /\ n \in Nat
      /\ DOMAIN slots = 1..n
      /\ DOMAIN slots' = 1..(n + 1)
      /\ slots'[n + 1] = [generation |-> 0, value |-> o]
      /\ \A s \in DOMAIN slots : slots'[s] = slots[s]
  BY <1>1, <1>2, SlotFacts DEF TypeOK
<1>4. Free' = Free /\ Free = {}
  BY <1>2 DEF Free
<1>5. o # NoOrder /\ 0 \in 0..MaxGen
  BY ArenaAssumption
<1>6. TypeOK'
  <2>1. slots' \in Seq(Slot)
    BY <1>1, <1>2, <1>5 DEF TypeOK, Slot
  <2>2. issued' \subseteq Handle
    BY <1>1, <1>2, <1>3, <1>5 DEF TypeOK, Handle
  <2> QED BY <1>1, <1>2, <2>1, <2>2 DEF TypeOK, InsertFresh, CountInsert, Max2
<1>7. FreeListSound'
  BY <1>2 DEF FreeListSound
<1>8. NoSlotLost'
  <2> SUFFICES ASSUME NEW s \in DOMAIN slots', slots'[s].value = NoOrder,
                      slots'[s].generation # MaxGen
               PROVE  s \in Free'
    BY DEF NoSlotLost
  <2>1. s # n + 1
    BY <1>3, <1>5
  <2>2. s \in DOMAIN slots /\ slots'[s] = slots[s]
    BY <1>3, <2>1
  <2> QED BY <1>4, <2>2 DEF IInv, NoSlotLost
<1>9. OccupiedIsIssued'
  BY <1>2, <1>3 DEF IInv, OccupiedIsIssued, Occupied
<1>10. IssuedBehind'
  <2> SUFFICES ASSUME NEW h \in issued'
               PROVE  /\ h.slot \in DOMAIN slots'
                      /\ \/ h.generation < slots'[h.slot].generation
                         \/ /\ h.generation = slots'[h.slot].generation
                            /\ slots'[h.slot].value # NoOrder
                         \/ /\ h.generation = slots'[h.slot].generation
                            /\ h.generation = MaxGen
                            /\ h.slot \notin Free'
    BY DEF IssuedBehind
  <2>1. CASE h \in issued
    BY <1>3, <1>4, <2>1 DEF IInv, IssuedBehind
  <2>2. CASE h = [slot |-> n + 1, generation |-> 0]
    BY <1>3, <1>5, <2>2
  <2> QED BY <1>2, <2>1, <2>2
<1> QED BY <1>6, <1>7, <1>8, <1>9, <1>10 DEF IInv

\* Removing an order keeps the invariant, at the last generation too.
LEMMA RemoveIInv ==
  ASSUME IInv, NEW h \in issued, Remove(h)
  PROVE  IInv'
<1> DEFINE s == h.slot
<1>1. TypeOK /\ h \in Handle
  BY DEF IInv, TypeOK
<1>2. /\ s \in DOMAIN slots
      /\ slots[s].generation = h.generation
      /\ slots[s].value # NoOrder
      /\ h.generation \in 0..MaxGen
  BY <1>1 DEF Remove, Contains, Handle
<1>3. s \notin Free
  BY <1>2 DEF IInv, FreeListSound, Free
<1>4. issued' = issued /\ live' \in Nat /\ total_created' = total_created
      /\ high_water_live' = high_water_live
  BY <1>1 DEF Remove, TypeOK
<1>5. CASE h.generation # MaxGen
  <2>1. /\ slots' = [slots EXCEPT ![s] = [generation |-> h.generation + 1,
                                          value |-> NoOrder]]
        /\ free_slots' = Append(free_slots, s)
        /\ retired_slots' = retired_slots
    BY <1>5 DEF Remove
  <2>2. /\ DOMAIN slots' = DOMAIN slots
        /\ slots'[s] = [generation |-> h.generation + 1, value |-> NoOrder]
        /\ \A t \in DOMAIN slots : t # s => slots'[t] = slots[t]
    BY <1>1, <1>2, <2>1, SlotFacts
  <2>3. /\ DOMAIN free_slots' = 1..(Len(free_slots) + 1)
        /\ free_slots'[Len(free_slots) + 1] = s
        /\ \A i \in DOMAIN free_slots : free_slots'[i] = free_slots[i]
        /\ Len(free_slots) \in Nat
        /\ DOMAIN free_slots = 1..Len(free_slots)
    BY <1>1, <2>1, SlotFacts DEF TypeOK
  <2>4. Free' = Free \cup {s}
    BY <2>3 DEF Free
  <2>5. h.generation + 1 \in 0..MaxGen
    BY <1>2, <1>5, ArenaAssumption
  <2>6. TypeOK'
    <3>1. s \in Nat \ {0}
      BY <1>1 DEF Handle
    <3>2. slots' \in Seq(Slot)
      BY <1>1, <1>2, <2>1, <2>2, <2>5, SlotFacts DEF TypeOK, Slot
    <3>3. free_slots' \in Seq(Nat \ {0})
      BY <1>1, <2>1, <3>1 DEF TypeOK
    <3> QED BY <1>1, <1>4, <2>1, <3>2, <3>3 DEF TypeOK
  <2>7. FreeListSound'
    <3>1. \A i \in DOMAIN free_slots : free_slots[i] # s
      BY <1>3 DEF Free
    <3>2. ASSUME NEW i \in DOMAIN free_slots'
          PROVE  /\ free_slots'[i] \in DOMAIN slots'
                 /\ slots'[free_slots'[i]].value = NoOrder
      <4>1. CASE i \in DOMAIN free_slots
        BY <2>2, <2>3, <3>1, <4>1 DEF IInv, FreeListSound
      <4>2. CASE i = Len(free_slots) + 1
        BY <1>2, <2>2, <2>3, <4>2
      <4> QED BY <2>3, <4>1, <4>2
    <3>3. ASSUME NEW i \in DOMAIN free_slots', NEW j \in DOMAIN free_slots',
                 free_slots'[i] = free_slots'[j]
          PROVE  i = j
      <4>1. i \in DOMAIN free_slots \/ i = Len(free_slots) + 1
        BY <2>3
      <4>2. j \in DOMAIN free_slots \/ j = Len(free_slots) + 1
        BY <2>3
      <4> QED BY <2>3, <3>1, <3>3, <4>1, <4>2 DEF IInv, FreeListSound
    <3> QED BY <3>2, <3>3 DEF FreeListSound
  <2>8. NoSlotLost'
    BY <2>2, <2>4 DEF IInv, NoSlotLost
  <2>9. OccupiedIsIssued'
    BY <1>4, <2>2 DEF IInv, OccupiedIsIssued, Occupied
  <2>10. IssuedBehind'
    <3> SUFFICES ASSUME NEW k \in issued
                 PROVE  /\ k.slot \in DOMAIN slots'
                        /\ \/ k.generation < slots'[k.slot].generation
                           \/ /\ k.generation = slots'[k.slot].generation
                              /\ slots'[k.slot].value # NoOrder
                           \/ /\ k.generation = slots'[k.slot].generation
                              /\ k.generation = MaxGen
                              /\ k.slot \notin Free'
      BY <1>4 DEF IssuedBehind
    <3>1. k \in Handle
      BY <1>1 DEF TypeOK
    <3>2. CASE k.slot = s
      <4>1. k.generation <= h.generation
        BY <1>2, <3>1, <3>2 DEF IInv, IssuedBehind, Handle
      <4> QED BY <1>2, <2>2, <3>1, <3>2, <4>1 DEF Handle
    <3>3. CASE k.slot # s
      BY <2>2, <2>4, <3>3 DEF IInv, IssuedBehind
    <3> QED BY <3>2, <3>3
  <2> QED BY <2>6, <2>7, <2>8, <2>9, <2>10 DEF IInv
<1>6. CASE h.generation = MaxGen
  <2>1. /\ slots' = [slots EXCEPT ![s].value = NoOrder]
        /\ free_slots' = free_slots
        /\ retired_slots' = retired_slots + 1
    BY <1>6 DEF Remove
  <2>2. /\ DOMAIN slots' = DOMAIN slots
        /\ slots'[s] = [generation |-> MaxGen, value |-> NoOrder]
        /\ \A t \in DOMAIN slots : t # s => slots'[t] = slots[t]
    BY <1>1, <1>2, <1>6, <2>1, SlotFacts
  <2>3. Free' = Free
    BY <2>1 DEF Free
  <2>4. TypeOK'
    <3>1. slots' \in Seq(Slot)
      BY <1>1, <1>2, <1>6, <2>1, <2>2, SlotFacts DEF TypeOK, Slot
    <3> QED BY <1>1, <1>4, <2>1, <3>1 DEF TypeOK
  <2>5. FreeListSound'
    BY <2>1, <2>2 DEF IInv, FreeListSound
  <2>6. NoSlotLost'
    BY <2>2, <2>3 DEF IInv, NoSlotLost
  <2>7. OccupiedIsIssued'
    BY <1>4, <2>2 DEF IInv, OccupiedIsIssued, Occupied
  <2>8. IssuedBehind'
    BY <1>2, <1>3, <1>4, <1>6, <2>2, <2>3 DEF IInv, IssuedBehind
  <2> QED BY <2>4, <2>5, <2>6, <2>7, <2>8 DEF IInv
<1> QED BY <1>5, <1>6

\* What clear leaves in one slot.
LEMMA EmptiedFacts ==
  ASSUME TypeOK, NEW s \in DOMAIN slots
  PROVE  /\ Emptied(slots[s]) \in Slot
         /\ Emptied(slots[s]).value = NoOrder
         /\ Emptied(slots[s]).generation >= slots[s].generation
         /\ slots[s].value # NoOrder /\ slots[s].generation # MaxGen
              => Emptied(slots[s]).generation > slots[s].generation
         /\ slots[s].value = NoOrder
              => Emptied(slots[s]).generation = slots[s].generation
         /\ slots[s].generation = MaxGen => Emptied(slots[s]).generation = MaxGen
  BY SlotFacts, ArenaAssumption DEF Emptied, Slot

\* Clearing an arena with live orders keeps the invariant.
LEMMA ClearIInv ==
  ASSUME IInv, ClearLive
  PROVE  IInv'
<1> DEFINE usable == {s \in DOMAIN slots : slots'[s].generation # MaxGen}
<1>1. TypeOK
  BY DEF IInv
<1>2. /\ slots' = [s \in DOMAIN slots |-> Emptied(slots[s])]
      /\ issued' = issued
      /\ live' = 0 /\ total_created' = 0 /\ high_water_live' = 0
  BY DEF ClearLive
<1>3. /\ DOMAIN slots' = DOMAIN slots
      /\ \A s \in DOMAIN slots : slots'[s] = Emptied(slots[s])
  BY <1>2
<1> HIDE DEF usable
<1>4. PICK f \in [1..Cardinality(usable) -> usable] :
        Lists(f, usable) /\ free_slots' = f
  BY DEF ClearLive, usable
<1>5. Cardinality(usable) \in Nat
  <2>1. IsFiniteSet(1..Len(slots))
    BY <1>1, SlotFacts, FS_Interval
  <2>2. usable \subseteq 1..Len(slots)
    BY <1>1, SlotFacts DEF usable
  <2>3. IsFiniteSet(usable)
    BY <2>1, <2>2, FS_Subset
  <2> QED BY <2>3, FS_CardinalityType
<1>6. DOMAIN free_slots' = 1..Cardinality(usable)
      /\ \A i \in DOMAIN free_slots' : free_slots'[i] \in usable
  BY <1>4
<1>7. Free' = usable
  BY <1>4 DEF Free, Lists
<1>8. TypeOK'
  <2>1. slots' \in Seq(Slot)
    <3>1. slots' \in [1..Len(slots) -> Slot]
      BY <1>1, <1>2, SlotFacts, EmptiedFacts
    <3> QED BY <1>1, <3>1, SlotFacts, SeqDef
  <2>2. free_slots' \in Seq(Nat \ {0})
    <3>1. usable \subseteq Nat \ {0}
      BY <1>1, SlotFacts DEF usable
    <3>2. free_slots' \in [1..Cardinality(usable) -> Nat \ {0}]
      BY <1>4, <3>1
    <3> QED BY <1>5, <3>2, SeqDef
  <2>3. retired_slots' \in Nat
    <3> DEFINE R == {s \in Occupied : slots[s].generation = MaxGen}
    <3>1. R \subseteq 1..Len(slots)
      BY <1>1, SlotFacts DEF Occupied
    <3>2. Cardinality(R) \in Nat
      <4>1. IsFiniteSet(1..Len(slots))
        BY <1>1, SlotFacts, FS_Interval
      <4>2. IsFiniteSet(R)
        BY <3>1, <4>1, FS_Subset
      <4> QED BY <4>2, FS_CardinalityType
    <3>3. retired_slots' = retired_slots + Cardinality(R)
      BY DEF ClearLive
    <3> HIDE DEF R
    <3> QED BY <1>1, <3>2, <3>3 DEF TypeOK
  <2> QED BY <1>1, <1>2, <2>1, <2>2, <2>3 DEF TypeOK
<1>9. FreeListSound'
  <2>1. \A i \in DOMAIN free_slots' :
          /\ free_slots'[i] \in DOMAIN slots'
          /\ slots'[free_slots'[i]].value = NoOrder
    BY <1>1, <1>3, <1>6, EmptiedFacts DEF usable
  <2>2. ASSUME NEW i \in DOMAIN free_slots', NEW j \in DOMAIN free_slots',
               free_slots'[i] = free_slots'[j]
        PROVE  i = j
    <3>1. i \in Nat /\ j \in Nat
      BY <1>5, <1>6
    <3>2. free_slots'[i] \in Nat
      BY <1>1, <1>6, SlotFacts DEF usable
    <3>3. \A k, l \in DOMAIN free_slots' : k < l => free_slots'[k] < free_slots'[l]
      BY <1>4 DEF Lists
    <3>4. ~(i < j) /\ ~(j < i)
      BY <2>2, <3>2, <3>3
    <3> QED BY <3>1, <3>4
  <2> QED BY <2>1, <2>2 DEF FreeListSound
<1>10. NoSlotLost'
  BY <1>3, <1>7 DEF NoSlotLost, usable
<1>11. OccupiedIsIssued'
  BY <1>1, <1>3, EmptiedFacts DEF OccupiedIsIssued, Occupied
<1>12. IssuedBehind'
  <2> SUFFICES ASSUME NEW h \in issued
               PROVE  /\ h.slot \in DOMAIN slots'
                      /\ \/ h.generation < slots'[h.slot].generation
                         \/ /\ h.generation = slots'[h.slot].generation
                            /\ slots'[h.slot].value # NoOrder
                         \/ /\ h.generation = slots'[h.slot].generation
                            /\ h.generation = MaxGen
                            /\ h.slot \notin Free'
    BY <1>2 DEF IssuedBehind
  <2> DEFINE s == h.slot
  <2>1. /\ h.generation \in 0..MaxGen
        /\ s \in DOMAIN slots
        /\ \/ h.generation < slots[s].generation
           \/ /\ h.generation = slots[s].generation
              /\ slots[s].value # NoOrder
           \/ /\ h.generation = slots[s].generation
              /\ h.generation = MaxGen
    BY <1>1 DEF IInv, IssuedBehind, TypeOK, Handle
  <2>2. /\ slots[s].generation \in 0..MaxGen
        /\ slots'[s] = Emptied(slots[s])
        /\ slots'[s].generation \in 0..MaxGen
    BY <1>1, <1>3, <2>1, SlotFacts, EmptiedFacts DEF Slot
  <2>3. slots'[s].generation = MaxGen => s \notin Free'
    BY <1>7 DEF usable
  <2> QED BY <1>1, <1>3, <2>1, <2>2, <2>3, EmptiedFacts, ArenaAssumption
<1> QED BY <1>8, <1>9, <1>10, <1>11, <1>12 DEF IInv

\* Every step of the arena keeps the invariant.
LEMMA NextIInv == IInv /\ [Next]_vars => IInv'
<1> SUFFICES ASSUME IInv, [Next]_vars
             PROVE  IInv'
  OBVIOUS
<1>1. CASE \E o \in Order : InsertRecycled(o) \/ InsertFresh(o)
  BY <1>1, RecycledIInv, FreshIInv
<1>2. CASE InsertOverflow
  BY <1>2 DEF InsertOverflow, CountInsert, Max2, IInv, TypeOK, FreeListSound,
     NoSlotLost, OccupiedIsIssued, IssuedBehind, Occupied, Free
<1>3. CASE \E h \in issued : Remove(h)
  BY <1>3, RemoveIInv
<1>4. CASE ClearIdle
  BY <1>4 DEF ClearIdle, IInv, TypeOK, FreeListSound, NoSlotLost,
     OccupiedIsIssued, IssuedBehind, Occupied, Free
<1>5. CASE ClearLive
  BY <1>5, ClearIInv
<1>6. CASE UNCHANGED vars
  BY <1>6 DEF vars, IInv, TypeOK, FreeListSound, NoSlotLost, OccupiedIsIssued,
     IssuedBehind, Occupied, Free
<1> QED BY <1>1, <1>2, <1>3, <1>4, <1>5, <1>6 DEF Next

\* The inductive invariant holds in every reachable state.
THEOREM ArenaInvariant == Spec => []IInv
<1>1. Init => IInv
  BY InitIInv
<1>2. IInv /\ [Next]_vars => IInv'
  BY NextIInv
<1> QED BY <1>1, <1>2, PTL DEF Spec

\* The arena's fields keep their types.
THEOREM ArenaTypeOK == Spec => []TypeOK
<1>1. IInv => TypeOK
  BY DEF IInv
<1> QED BY <1>1, ArenaInvariant, PTL

\* insert never overwrites an order and never hands out a slot twice, and no
\* usable slot drops out of the free list.
THEOREM ArenaFreeListExact == Spec => []FreeListExact
<1>1. IInv => FreeListExact
  BY DEF IInv, FreeListExact
<1> QED BY <1>1, ArenaInvariant, PTL

\* In one step no issued handle starts to resolve or changes its order.
LEMMA StepNoAlias ==
  ASSUME IInv, [Next]_vars, NEW h \in issued, Contains(h)'
  PROVE  Contains(h) /\ slots'[h.slot].value = slots[h.slot].value
<1> DEFINE s == h.slot
<1>1. TypeOK
  BY DEF IInv
<1>2. /\ s \in DOMAIN slots
      /\ \/ h.generation < slots[s].generation
         \/ /\ h.generation = slots[s].generation
            /\ slots[s].value # NoOrder
         \/ /\ h.generation = slots[s].generation
            /\ h.generation = MaxGen
            /\ s \notin Free
      /\ h.generation \in 0..MaxGen
      /\ slots[s].generation \in 0..MaxGen
  BY <1>1, SlotFacts DEF IInv, IssuedBehind, TypeOK, Handle
<1>3. /\ slots'[s].generation = h.generation
      /\ slots'[s].value # NoOrder
  BY DEF Contains
<1>4. SUFFICES slots'[s] = slots[s]
  BY <1>2, <1>3, <1>4 DEF Contains
<1>5. CASE \E o \in Order : InsertRecycled(o)
  <2>1. PICK o \in Order : InsertRecycled(o)
    BY <1>5
  <2> DEFINE top == free_slots[Len(free_slots)]
  <2>2. /\ slots' = [slots EXCEPT ![top].value = o]
        /\ Len(free_slots) \in DOMAIN free_slots
    BY <1>1, <2>1, SlotFacts DEF InsertRecycled, TypeOK
  <2>3. top \in Free /\ slots[top].value = NoOrder
    BY <2>2 DEF Free, IInv, FreeListSound
  <2>4. s # top
    BY <1>1, <1>2, <1>3, <2>2, <2>3, SlotFacts
  <2> QED BY <1>1, <1>2, <2>2, <2>4, SlotFacts
<1>6. CASE \E o \in Order : InsertFresh(o)
  BY <1>1, <1>2, <1>6, SlotFacts DEF InsertFresh, TypeOK
<1>7. CASE \E k \in issued : Remove(k)
  <2>1. PICK k \in issued : Remove(k)
    BY <1>7
  <2>2. s # k.slot
    <3>1. slots'[k.slot].value = NoOrder
      BY <1>1, <2>1, SlotFacts DEF Remove, Contains
    <3> QED BY <1>3, <3>1
  <2> QED BY <1>1, <1>2, <2>1, <2>2, SlotFacts DEF Remove
<1>8. CASE ClearLive
  BY <1>1, <1>2, <1>3, <1>8, EmptiedFacts DEF ClearLive
<1>9. CASE InsertOverflow \/ ClearIdle \/ UNCHANGED vars
  BY <1>9 DEF InsertOverflow, ClearIdle, vars
<1> QED BY <1>5, <1>6, <1>7, <1>8, <1>9 DEF Next

\* A stale handle never aliases a later order, whatever is inserted, removed,
\* recycled, retired or cleared.
THEOREM ArenaNoAlias == Spec => NoAlias
<1>1. IInv /\ [Next]_vars =>
        [\A h \in issued : Contains(h)' =>
           Contains(h) /\ slots'[h.slot].value = slots[h.slot].value]_vars
  BY StepNoAlias
<1> QED BY <1>1, ArenaInvariant, PTL DEF Spec, NoAlias
\* Every order in the arena can be reached through an issued handle.
THEOREM ArenaOccupiedIsIssued == Spec => []OccupiedIsIssued
<1>1. IInv => OccupiedIsIssued
  BY DEF IInv
<1> QED BY <1>1, ArenaInvariant, PTL

\* The occupied slots are finitely many.
LEMMA OccupiedFinite ==
  ASSUME TypeOK
  PROVE  IsFiniteSet(Occupied) /\ Cardinality(Occupied) \in Nat
<1>1. IsFiniteSet(1..Len(slots))
  BY SlotFacts, FS_Interval
<1>2. Occupied \subseteq 1..Len(slots)
  BY SlotFacts DEF Occupied
<1> QED BY <1>1, <1>2, FS_Subset, FS_CardinalityType

\* A step that occupies one more slot and counts it keeps the count.
LEMMA OneMoreCounts ==
  ASSUME TypeOK, TypeOK', LiveCountsOccupied,
         NEW s, s \notin Occupied, Occupied' = Occupied \cup {s},
         live' = live + 1, Len(slots) <= Len(slots')
  PROVE  LiveCountsOccupied'
<1>1. Cardinality(Occupied') = Cardinality(Occupied) + 1
  BY OccupiedFinite, FS_AddElement
<1>2. live \in Nat /\ Len(slots) \in Nat /\ Len(slots') \in Nat
  BY SlotFacts DEF TypeOK
<1> QED BY <1>1, <1>2, OccupiedFinite, ArenaAssumption DEF LiveCountsOccupied

\* One step keeps the count of the occupied slots.
LEMMA NextLiveCounts ==
  IInv /\ IInv' /\ LiveCountsOccupied /\ [Next]_vars => LiveCountsOccupied'
<1> SUFFICES ASSUME IInv, IInv', LiveCountsOccupied, [Next]_vars
             PROVE  LiveCountsOccupied'
  OBVIOUS
<1>1. TypeOK /\ TypeOK'
  BY DEF IInv
<1>2. live \in Nat /\ Cardinality(Occupied) \in Nat
  BY <1>1, OccupiedFinite DEF TypeOK
<1>3. CASE \E o \in Order : InsertRecycled(o)
  <2>1. PICK o \in Order : InsertRecycled(o)
    BY <1>3
  <2> DEFINE top == free_slots[Len(free_slots)]
  <2>2. /\ top \in DOMAIN slots
        /\ slots[top].value = NoOrder
        /\ slots' = [slots EXCEPT ![top].value = o]
        /\ live' = live + 1
    BY <1>1, <2>1, SlotFacts DEF InsertRecycled, CountInsert, IInv, FreeListSound, TypeOK
  <2>3. Occupied' = Occupied \cup {top} /\ top \notin Occupied
    BY <1>1, <2>2, SlotFacts, ArenaAssumption DEF Occupied
  <2>4. Len(slots') = Len(slots)
    BY <1>1, <2>2
  <2>5. Len(slots) <= Len(slots')
    BY <1>1, <2>4, SlotFacts
  <2> HIDE DEF top
  <2> QED BY <1>1, <2>2, <2>3, <2>5, OneMoreCounts
<1>4. CASE \E o \in Order : InsertFresh(o)
  <2>1. PICK o \in Order : InsertFresh(o)
    BY <1>4
  <2> DEFINE n == Len(slots)
  <2>2. /\ slots' = Append(slots, [generation |-> 0, value |-> o])
        /\ live' = live + 1
    BY <2>1 DEF InsertFresh, CountInsert
  <2>3. /\ n \in Nat
        /\ Len(slots') = n + 1
        /\ DOMAIN slots = 1..n
        /\ DOMAIN slots' = 1..(n + 1)
        /\ \A s \in 1..n : slots'[s] = slots[s]
        /\ slots'[n + 1].value = o
    BY <1>1, <2>2, SlotFacts DEF TypeOK
  <2>4. Occupied' = Occupied \cup {n + 1} /\ n + 1 \notin Occupied
    BY <2>3, ArenaAssumption DEF Occupied
  <2> QED BY <1>1, <2>2, <2>3, <2>4, OneMoreCounts
<1>5. CASE \E h \in issued : Remove(h)
  <2>1. PICK h \in issued : Remove(h)
    BY <1>5
  <2> DEFINE s == h.slot
  <2>2. /\ s \in Occupied
        /\ live' = IF live = 0 THEN 0 ELSE live - 1
        /\ Len(slots') = Len(slots)
    BY <1>1, <2>1, SlotFacts DEF Remove, Contains, Occupied
  <2>3. /\ DOMAIN slots' = DOMAIN slots
        /\ slots'[s].value = NoOrder
        /\ \A t \in DOMAIN slots : t # s => slots'[t] = slots[t]
    BY <1>1, <2>1, SlotFacts DEF Remove, Contains
  <2>4. Occupied' = Occupied \ {s}
    BY <2>2, <2>3 DEF Occupied
  <2>5. Cardinality(Occupied') = Cardinality(Occupied) - 1
    BY <1>1, <2>2, <2>4, OccupiedFinite, FS_RemoveElement
  <2>6. Cardinality(Occupied) <= live
    BY DEF LiveCountsOccupied
  <2>7. Cardinality(Occupied) # 0
    BY <1>1, <2>2, OccupiedFinite, FS_EmptySet
  <2>8. live' = live - 1
    BY <1>2, <2>2, <2>6, <2>7
  <2> QED BY <1>2, <2>2, <2>5, <2>8 DEF LiveCountsOccupied
<1>6. CASE ClearLive
  <2>1. Occupied' = {} /\ live' = 0
    BY <1>1, <1>6, EmptiedFacts DEF ClearLive, Occupied
  <2>2. Cardinality({}) = 0
    BY FS_EmptySet
  <2> QED BY <2>1, <2>2 DEF LiveCountsOccupied
<1>7. CASE InsertOverflow
  <2>1. slots' = slots /\ Occupied' = Occupied /\ live' = live + 1
        /\ Len(slots) >= MaxSlots
    BY <1>7 DEF InsertOverflow, CountInsert, Occupied
  <2> QED BY <1>1, <1>2, <2>1, SlotFacts, ArenaAssumption DEF LiveCountsOccupied
<1>8. CASE ClearIdle \/ UNCHANGED vars
  BY <1>8 DEF ClearIdle, vars, LiveCountsOccupied, Occupied
<1> QED BY <1>3, <1>4, <1>5, <1>6, <1>7, <1>8 DEF Next

\* live counts the occupied slots, for as long as slots can be numbered.
THEOREM ArenaLiveCountsOccupied == Spec => []LiveCountsOccupied
<1>1. Init => LiveCountsOccupied
  <2>1. Cardinality({}) = 0
    BY FS_EmptySet
  <2>2. Init => Occupied = {} /\ live = 0
    BY DEF Init, Occupied
  <2> QED BY <2>1, <2>2 DEF LiveCountsOccupied
<1>2. IInv /\ IInv' /\ LiveCountsOccupied /\ [Next]_vars => LiveCountsOccupied'
  BY NextLiveCounts
<1> QED BY <1>1, <1>2, ArenaInvariant, PTL DEF Spec

=============================================================================
