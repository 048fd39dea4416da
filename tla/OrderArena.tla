----------------------------- MODULE OrderArena -----------------------------
(***************************************************************************)
(* The generation-safe slot arena that owns every live order of a native   *)
(* session (orders/arena.rs).  A handle is a slot number and the           *)
(* generation the slot had when the order was put there; removing the      *)
(* order bumps the generation, so that a handle kept by somebody else      *)
(* stops resolving.  Slots are numbered from 1 here and from 0 in the      *)
(* code.                                                                   *)
(***************************************************************************)
EXTENDS Naturals, Sequences, FiniteSets

CONSTANTS
  Order,      \* what a slot can hold
  NoOrder,    \* the empty slot (Option::None)
  MaxGen,     \* the last generation (u32::MAX)
  MaxSlots,   \* slots a u32 can number (2^32)
  MaxLive,    \* max_live
  MaxTotal    \* max_total_created

ASSUME ArenaAssumption ==
  /\ NoOrder \notin Order
  /\ MaxGen \in Nat
  /\ MaxSlots \in Nat \ {0}
  /\ MaxLive \in Nat
  /\ MaxTotal \in Nat

VARIABLES
  slots,        \* Vec<Slot<T>>: the generation and the content of each slot
  free_slots,   \* Vec<u32> used as a stack: its last element is popped first
  live, total_created, high_water_live, retired_slots,
  issued        \* history: every handle insert has returned, across clears

vars == <<slots, free_slots, live, total_created, high_water_live,
          retired_slots, issued>>

Slot   == [generation : 0..MaxGen, value : Order \cup {NoOrder}]
Handle == [slot : Nat \ {0}, generation : 0..MaxGen]

Max2(a, b) == IF a > b THEN a ELSE b

\* get, get_mut and contains: the slot exists, holds an order and still has
\* the generation of the handle.
Contains(h) ==
  /\ h.slot \in DOMAIN slots
  /\ slots[h.slot].generation = h.generation
  /\ slots[h.slot].value # NoOrder

Occupied == {s \in DOMAIN slots : slots[s].value # NoOrder}
Free     == {free_slots[i] : i \in DOMAIN free_slots}

Init ==
  /\ slots = << >>
  /\ free_slots = << >>
  /\ live = 0
  /\ total_created = 0
  /\ high_water_live = 0
  /\ retired_slots = 0
  /\ issued = {}

\* The two limits insert checks before it changes anything.
HasRoom == live < MaxLive /\ total_created < MaxTotal

\* Fault: a new order is not counted as live.
CountInsertDead ==
  /\ total_created' = total_created + 1
  /\ high_water_live' = Max2(high_water_live, live + 1)
  /\ UNCHANGED <<live, retired_slots>>

\* The counters insert has already moved when it looks for a slot.
CountInsert ==
  /\ total_created' = total_created + 1
  /\ live' = live + 1
  /\ high_water_live' = Max2(high_water_live, live + 1)
  /\ UNCHANGED retired_slots

\* insert, recycling the slot released last.
InsertRecycled(o) ==
  /\ HasRoom
  /\ free_slots # << >>
  /\ LET s == free_slots[Len(free_slots)] IN
       /\ slots' = [slots EXCEPT ![s].value = o]
       /\ issued' = issued \cup {[slot |-> s, generation |-> slots[s].generation]}
  /\ free_slots' = SubSeq(free_slots, 1, Len(free_slots) - 1)
  /\ CountInsert

\* insert, in a new slot.
InsertFresh(o) ==
  /\ HasRoom
  /\ free_slots = << >>
  /\ Len(slots) < MaxSlots
  /\ slots' = Append(slots, [generation |-> 0, value |-> o])
  /\ issued' = issued \cup {[slot |-> Len(slots) + 1, generation |-> 0]}
  /\ CountInsert
  /\ UNCHANGED free_slots

\* insert, when the next slot number no longer fits: the call fails, with the
\* counters already moved.
InsertOverflow ==
  /\ HasRoom
  /\ free_slots = << >>
  /\ Len(slots) >= MaxSlots
  /\ CountInsert
  /\ UNCHANGED <<slots, free_slots, issued>>

\* Fault: a slot is abandoned when its next generation would be the last.
RemoveRetiringEarly(h) ==
  /\ Contains(h)
  /\ IF h.generation + 1 < MaxGen
       THEN /\ slots' = [slots EXCEPT ![h.slot] =
                           [generation |-> h.generation + 1, value |-> NoOrder]]
            /\ free_slots' = Append(free_slots, h.slot)
            /\ UNCHANGED retired_slots
       ELSE /\ slots' = [slots EXCEPT ![h.slot].value = NoOrder]
            /\ retired_slots' = retired_slots + 1
            /\ UNCHANGED free_slots
  /\ live' = IF live = 0 THEN 0 ELSE live - 1
  /\ UNCHANGED <<total_created, high_water_live, issued>>

\* remove: a stale handle is refused before anything changes; the last
\* generation is never left, the slot is abandoned instead.
Remove(h) ==
  /\ Contains(h)
  /\ IF h.generation # MaxGen
       THEN /\ slots' = [slots EXCEPT ![h.slot] =
                           [generation |-> h.generation + 1, value |-> NoOrder]]
            /\ free_slots' = Append(free_slots, h.slot)
            /\ UNCHANGED retired_slots
       ELSE /\ slots' = [slots EXCEPT ![h.slot].value = NoOrder]
            /\ retired_slots' = retired_slots + 1
            /\ UNCHANGED free_slots
  /\ live' = IF live = 0 THEN 0 ELSE live - 1
  /\ UNCHANGED <<total_created, high_water_live, issued>>

\* clear, when every order has already been released.
ClearIdle ==
  /\ live = 0
  /\ total_created' = 0
  /\ high_water_live' = 0
  /\ UNCHANGED <<slots, free_slots, live, retired_slots, issued>>

\* Fault: clear keeps the generation of the slots it empties.
EmptiedInPlace(slot) == [generation |-> slot.generation, value |-> NoOrder]

\* A slot as clear leaves it: emptied, one generation on when it was occupied.
Emptied(slot) ==
  [generation |-> IF slot.value # NoOrder /\ slot.generation # MaxGen
                    THEN slot.generation + 1 ELSE slot.generation,
   value      |-> NoOrder]

\* f lists the set S in ascending order (one f does).
Lists(f, S) ==
  /\ {f[i] : i \in DOMAIN f} = S
  /\ \A i, j \in DOMAIN f : i < j => f[i] < f[j]

\* clear, with live orders: the free list is rebuilt from the slots that have
\* a generation left.
ClearLive ==
  /\ live # 0
  /\ slots' = [s \in DOMAIN slots |-> Emptied(slots[s])]
  /\ LET usable == {s \in DOMAIN slots : slots'[s].generation # MaxGen} IN
       \E f \in [1..Cardinality(usable) -> usable] :
         Lists(f, usable) /\ free_slots' = f
  /\ retired_slots' =
       retired_slots + Cardinality({s \in Occupied : slots[s].generation = MaxGen})
  /\ live' = 0
  /\ total_created' = 0
  /\ high_water_live' = 0
  /\ UNCHANGED issued

Next ==
  \/ \E o \in Order : InsertRecycled(o) \/ InsertFresh(o)
  \/ InsertOverflow
  \/ \E h \in issued : Remove(h)
  \/ ClearIdle
  \/ ClearLive

Spec == Init /\ [][Next]_vars
-----------------------------------------------------------------------------
(* Properties *)

\* The types of the arena's fields.
TypeOK ==
  /\ slots \in Seq(Slot)
  /\ free_slots \in Seq(Nat \ {0})
  /\ live \in Nat
  /\ total_created \in Nat
  /\ high_water_live \in Nat
  /\ retired_slots \in Nat
  /\ issued \subseteq Handle

\* The free list names distinct, empty slots of the arena: insert never
\* overwrites an order (its debug_assert) and never hands out a slot twice.
FreeListSound ==
  /\ \A i \in DOMAIN free_slots :
       /\ free_slots[i] \in DOMAIN slots
       /\ slots[free_slots[i]].value = NoOrder
  /\ \A i, j \in DOMAIN free_slots : free_slots[i] = free_slots[j] => i = j

\* Every slot that is empty and has a generation left can be found again
\* through the free list: neither remove nor either branch of clear leaks one.
NoSlotLost ==
  \A s \in DOMAIN slots :
    slots[s].value = NoOrder /\ slots[s].generation # MaxGen => s \in Free

\* The stack of free slots is exactly what remove and both branches of clear
\* must make of it: no slot is handed out twice, none is lost.
FreeListExact == FreeListSound /\ NoSlotLost

\* live, which insert compares with its limit and clear uses to skip the
\* scan, is the number of occupied slots for as long as slots can be numbered,
\* and never less than it.
LiveCountsOccupied ==
  /\ Cardinality(Occupied) <= live
  /\ Len(slots) < MaxSlots => live = Cardinality(Occupied)

\* Every order in the arena is reachable through a handle that was issued.
OccupiedIsIssued ==
  \A s \in Occupied : [slot |-> s, generation |-> slots[s].generation] \in issued

\* A handle that has stopped resolving never resolves again, and one that
\* resolves keeps naming the same order: no step, reuse, retirement or clear
\* makes a stale handle alias a later order.
NoAlias ==
  [][\A h \in issued : Contains(h)' =>
       Contains(h) /\ slots'[h.slot].value = slots[h.slot].value]_vars
=============================================================================
