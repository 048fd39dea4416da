------------------------ MODULE OrderLifecycleProofs ------------------------
(***************************************************************************)
(* Proofs about the order lifecycle, for every set of commands, capacity,  *)
(* number of bars and limit of the arena and the sequence.                 *)
(***************************************************************************)
EXTENDS OrderLifecycle, DataLemmas, TLAPS

-----------------------------------------------------------------------------
(* The fields of a book *)

Shaped(b) ==
  DOMAIN b = {"orders", "states", "active", "live", "expiry", "children", "oco",
              "forward", "reverse"}

\* What a removal of S takes out of the indexes of the given states.
ActiveIn(states, S) == {h \in S : states[h].active}
ExpiryIn(states, S) == {<<states[h].expires, h>> : h \in S}
ParentIn(states, S) == {<<states[h].parent, h>> : h \in S}
OcoIn(states, S)    == {<<states[h].oco, h>> : h \in S}

\* The ids a release of S frees, and the pairs it leaves.
IdsFreed(forward, reverse, S) ==
  {p[1] : p \in {q \in reverse : q[2] \in S /\ forward[q[1]] = q[2]}}
PairsLeft(reverse, S) == {p \in reverse : p[2] \notin S}

LEMMA EmptyFields ==
  LET b == EmptyBook IN
  /\ Shaped(b)
  /\ b.orders = << >> /\ b.states = << >> /\ b.active = {} /\ b.live = {}
  /\ b.expiry = {} /\ b.children = {} /\ b.oco = {}
  /\ b.forward = << >> /\ b.reverse = {}
BY DEF EmptyBook, Shaped

LEMMA UnindexedFields ==
  ASSUME NEW b, Shaped(b), NEW S
  PROVE  /\ Shaped(Unindexed(b, S))
         /\ Unindexed(b, S).orders = b.orders
         /\ Unindexed(b, S).forward = b.forward
         /\ Unindexed(b, S).reverse = b.reverse
         /\ Unindexed(b, S).states = Restrict(b.states, DOMAIN b.states \ S)
BY DEF Unindexed, Shaped

LEMMA UnindexedSets ==
  ASSUME NEW b, Shaped(b), NEW S
  PROVE  /\ Unindexed(b, S).live = b.live \ S
         /\ Unindexed(b, S).active = b.active \ ActiveIn(b.states, S)
BY DEF Unindexed, Shaped, ActiveIn

LEMMA UnindexedPairs ==
  ASSUME NEW b, Shaped(b), NEW S
  PROVE  /\ Unindexed(b, S).expiry = b.expiry \ ExpiryIn(b.states, S)
         /\ Unindexed(b, S).children = b.children \ ParentIn(b.states, S)
         /\ Unindexed(b, S).oco = b.oco \ OcoIn(b.states, S)
BY DEF Unindexed, Shaped, ExpiryIn, ParentIn, OcoIn

LEMMA UnboundFields ==
  ASSUME NEW b, Shaped(b), NEW S
  PROVE  /\ Shaped(Unbound(b, S))
         /\ Unbound(b, S).orders = b.orders
         /\ Unbound(b, S).states = b.states
         /\ Unbound(b, S).active = b.active
         /\ Unbound(b, S).live = b.live
         /\ Unbound(b, S).expiry = b.expiry
         /\ Unbound(b, S).children = b.children
         /\ Unbound(b, S).oco = b.oco
         /\ Unbound(b, S).forward =
              Restrict(b.forward, DOMAIN b.forward \ IdsFreed(b.forward, b.reverse, S))
         /\ Unbound(b, S).reverse = PairsLeft(b.reverse, S)
BY DEF Unbound, Shaped, IdsFreed, PairsLeft

LEMMA IndexedFields ==
  ASSUME NEW b, Shaped(b), NEW h, NEW s
  PROVE  /\ Shaped(Indexed(b, h, s))
         /\ Indexed(b, h, s).orders = b.orders
         /\ Indexed(b, h, s).forward = b.forward
         /\ Indexed(b, h, s).reverse = b.reverse
         /\ Indexed(b, h, s).states = With(b.states, h, s)
BY DEF Indexed, Shaped

LEMMA IndexedSets ==
  ASSUME NEW b, Shaped(b), NEW h, NEW s
  PROVE  /\ Indexed(b, h, s).live = b.live \cup {h}
         /\ s.active => Indexed(b, h, s).active = b.active \cup {h}
         /\ ~s.active => Indexed(b, h, s).active = b.active
BY DEF Indexed, Shaped

LEMMA IndexedPairs ==
  ASSUME NEW b, Shaped(b), NEW h, NEW s
  PROVE  /\ Indexed(b, h, s).expiry = b.expiry \cup KeyedBy(s.expires, h)
         /\ Indexed(b, h, s).children = b.children \cup KeyedBy(s.parent, h)
         /\ Indexed(b, h, s).oco = b.oco \cup KeyedBy(s.oco, h)
BY DEF Indexed, Shaped

\* The ids of a set that can be bound, and the pairs a binding leaves.
Bindable(ids) == {n \in ids : n >= 0}
PairsBound(reverse, h, bindable) ==
  {p \in reverse : p[1] \notin bindable} \cup {<<n, h>> : n \in bindable}

LEMMA BoundFields ==
  ASSUME NEW b, Shaped(b), NEW h, NEW ids
  PROVE  /\ Shaped(Bound(b, h, ids))
         /\ Bound(b, h, ids).orders = b.orders
         /\ Bound(b, h, ids).states = b.states
         /\ Bound(b, h, ids).active = b.active
         /\ Bound(b, h, ids).live = b.live
         /\ Bound(b, h, ids).expiry = b.expiry
         /\ Bound(b, h, ids).children = b.children
         /\ Bound(b, h, ids).oco = b.oco
         /\ Bound(b, h, ids).forward = AllWith(b.forward, Bindable(ids), h)
         /\ Bound(b, h, ids).reverse = PairsBound(b.reverse, h, Bindable(ids))
BY DEF Bound, Shaped, Bindable, PairsBound

LEMMA ActivatedFields ==
  ASSUME NEW b, Shaped(b), NEW S
  PROVE  LET r == Activated(b, S)
             Awake(f) == [h \in DOMAIN f |->
                            IF h \in S THEN [f[h] EXCEPT !.active = TRUE, !.waiting_parent = FALSE]
                                       ELSE f[h]]
         IN
         /\ Shaped(r)
         /\ r.orders = Awake(b.orders) /\ r.states = Awake(b.states)
         /\ r.active = b.active \cup S
         /\ r.live = b.live /\ r.expiry = b.expiry /\ r.children = b.children
         /\ r.oco = b.oco /\ r.forward = b.forward /\ r.reverse = b.reverse
BY DEF Activated, Shaped

-----------------------------------------------------------------------------
(* Indexes *)

\* The index of live orders by a key that may be negative, for "none".
Pairs(key) == {<<key[h], h>> : h \in {g \in DOMAIN key : key[g] >= 0}}

LEMMA PairsRemoved ==
  ASSUME NEW key, NEW S, S \subseteq DOMAIN key
  PROVE  Pairs([h \in DOMAIN key \ S |-> key[h]]) = Pairs(key) \ {<<key[h], h>> : h \in S}
<1> DEFINE new == [h \in DOMAIN key \ S |-> key[h]]
           gone == {<<key[h], h>> : h \in S}
<1>1. DOMAIN new = DOMAIN key \ S /\ \A h \in DOMAIN new : new[h] = key[h]
  OBVIOUS
<1> HIDE DEF new
<1>2. Pairs(new) \subseteq Pairs(key)
  BY <1>1 DEF Pairs
<1>3. ASSUME NEW p \in Pairs(new) PROVE p \notin gone
  <2>1. PICK h \in DOMAIN new : p = <<new[h], h>>
    BY DEF Pairs
  <2>2. p[2] = h /\ h \notin S
    BY <1>1, <2>1
  <2>3. \A q \in gone : q[2] \in S
    OBVIOUS
  <2> QED
    BY <2>2, <2>3
<1>4. ASSUME NEW p \in Pairs(key), p \notin gone PROVE p \in Pairs(new)
  <2>1. PICK h \in DOMAIN key : p = <<key[h], h>> /\ key[h] >= 0
    BY DEF Pairs
  <2>2. h \notin S
    BY <1>4, <2>1
  <2> QED
    BY <1>1, <2>1, <2>2 DEF Pairs
<1> HIDE DEF gone
<1>5. Pairs(new) = Pairs(key) \ gone
  BY <1>2, <1>3, <1>4
<1> QED
  BY <1>5 DEF new, gone

LEMMA PairsAdded ==
  ASSUME NEW key, NEW h, h \notin DOMAIN key, NEW k
  PROVE  Pairs([g \in {h} \cup DOMAIN key |-> IF g = h THEN k ELSE key[g]])
           = Pairs(key) \cup KeyedBy(k, h)
<1> DEFINE new == [g \in {h} \cup DOMAIN key |-> IF g = h THEN k ELSE key[g]]
<1>1. /\ DOMAIN new = {h} \cup DOMAIN key /\ new[h] = k
      /\ \A g \in DOMAIN key : g # h /\ new[g] = key[g]
  OBVIOUS
<1> HIDE DEF new
<1>2. Pairs(new) \subseteq Pairs(key) \cup KeyedBy(k, h)
  BY <1>1 DEF Pairs, KeyedBy
<1>3. Pairs(key) \subseteq Pairs(new)
  BY <1>1 DEF Pairs
<1>4. KeyedBy(k, h) \subseteq Pairs(new)
  BY <1>1 DEF Pairs, KeyedBy
<1> QED
  BY <1>2, <1>3, <1>4 DEF new

LEMMA PairsAreKeyed ==
  ASSUME NEW key
  PROVE  Pairs(key) = UNION {KeyedBy(key[h], h) : h \in DOMAIN key}
BY DEF Pairs, KeyedBy

LEMMA InPairs ==
  ASSUME NEW key
  PROVE  /\ \A p \in Pairs(key) : p[2] \in DOMAIN key /\ p[1] = key[p[2]] /\ p[1] >= 0
         /\ \A h \in DOMAIN key : key[h] >= 0 =>
              \E p \in Pairs(key) : p[1] = key[h] /\ p[2] = h
<1>1. \A p \in Pairs(key) : p[2] \in DOMAIN key /\ p[1] = key[p[2]] /\ p[1] >= 0
  BY DEF Pairs
<1>2. ASSUME NEW h \in DOMAIN key, key[h] >= 0
      PROVE  \E p \in Pairs(key) : p[1] = key[h] /\ p[2] = h
  <2>1. <<key[h], h>> \in Pairs(key)
    BY <1>2 DEF Pairs
  <2> QED
    BY <2>1
<1> QED
  BY <1>1, <1>2

ExpiryOf(orders)  == [h \in DOMAIN orders |-> orders[h].expires]
ParentOf(orders)  == [h \in DOMAIN orders |-> orders[h].parent]
OcoOf(orders)     == [h \in DOMAIN orders |-> orders[h].oco]
StatesOf(orders)  == [h \in DOMAIN orders |-> IndexState(orders[h])]
ActiveOf(orders)  == {h \in DOMAIN orders : orders[h].active}

OrderFields == {"id", "side", "qty", "tif", "reduce_only", "parent", "oco", "expires",
                "activation", "active", "waiting_parent"}

OrderTyped(o) == DOMAIN o = OrderFields /\ o.side \in {-1, 1} /\ o.qty \in Int

IndexesHold(b) ==
  /\ b.states = StatesOf(b.orders)
  /\ b.live = DOMAIN b.orders
  /\ b.active = ActiveOf(b.orders)
  /\ b.expiry = Pairs(ExpiryOf(b.orders))
  /\ b.children = Pairs(ParentOf(b.orders))
  /\ b.oco = Pairs(OcoOf(b.orders))

AliasesHold(b) ==
  /\ \A n \in DOMAIN b.forward : n >= 0 /\ b.forward[n] \in DOMAIN b.orders
  /\ b.reverse = {<<n, b.forward[n]>> : n \in DOMAIN b.forward}

BookInv(b) ==
  /\ Shaped(b)
  /\ \A h \in DOMAIN b.orders : OrderTyped(b.orders[h])
  /\ IndexesHold(b)
  /\ AliasesHold(b)

LEMMA EmptyInv == BookInv(EmptyBook)
<1>1. /\ Shaped(EmptyBook)
      /\ EmptyBook.orders = << >> /\ EmptyBook.states = << >>
      /\ EmptyBook.active = {} /\ EmptyBook.live = {}
      /\ EmptyBook.expiry = {} /\ EmptyBook.children = {} /\ EmptyBook.oco = {}
      /\ EmptyBook.forward = << >> /\ EmptyBook.reverse = {}
  BY EmptyFields
<1>2. DOMAIN << >> = {}
  OBVIOUS
<1>3. \A f : DOMAIN f = {} => Pairs(f) = {}
  BY DEF Pairs
<1>4. StatesOf(<< >>) = << >>
  BY <1>2 DEF StatesOf
<1>5. IndexesHold(EmptyBook)
  BY <1>1, <1>2, <1>3, <1>4 DEF IndexesHold, ActiveOf, ExpiryOf, ParentOf, OcoOf
<1>6. AliasesHold(EmptyBook)
  BY <1>1, <1>2 DEF AliasesHold
<1> QED
  BY <1>1, <1>2, <1>5, <1>6 DEF BookInv

-----------------------------------------------------------------------------
(* What the operators on the book keep *)

\* A release removes the orders from the arena, from every index and from the
\* aliases, and nothing else.
LEMMA ReleasedInv ==
  ASSUME NEW b, BookInv(b), NEW S
  PROVE  /\ BookInv(Released(b, S))
         /\ Released(b, S).orders = [h \in DOMAIN b.orders \ S |-> b.orders[h]]
         /\ \A n : n \in DOMAIN Released(b, S).forward <=>
                     n \in DOMAIN b.forward /\ b.forward[n] \notin S
         /\ \A n \in DOMAIN Released(b, S).forward :
              Released(b, S).forward[n] = b.forward[n]
<1> DEFINE live == S \cap DOMAIN b.orders
           b0   == [b EXCEPT !.orders = Restrict(@, DOMAIN @ \ live)]
           b1   == Unindexed(b0, live)
           r    == Unbound(b1, live)
           left == DOMAIN b.orders \ live
<1>1. /\ Shaped(b0) /\ b0.orders = [h \in left |-> b.orders[h]]
      /\ b0.states = b.states /\ b0.active = b.active /\ b0.live = b.live
      /\ b0.expiry = b.expiry /\ b0.children = b.children /\ b0.oco = b.oco
      /\ b0.forward = b.forward /\ b0.reverse = b.reverse
  BY DEF BookInv, Shaped, Restrict
<1> HIDE DEF b0
<1>2. /\ Shaped(b1)
      /\ b1.orders = b0.orders /\ b1.forward = b.forward /\ b1.reverse = b.reverse
      /\ b1.states = Restrict(b.states, DOMAIN b.states \ live)
      /\ b1.live = b.live \ live
      /\ b1.active = b.active \ ActiveIn(b.states, live)
      /\ b1.expiry = b.expiry \ ExpiryIn(b.states, live)
      /\ b1.children = b.children \ ParentIn(b.states, live)
      /\ b1.oco = b.oco \ OcoIn(b.states, live)
  <2>1. /\ Shaped(b1)
        /\ b1.orders = b0.orders /\ b1.forward = b0.forward /\ b1.reverse = b0.reverse
        /\ b1.states = Restrict(b0.states, DOMAIN b0.states \ live)
        /\ b1.live = b0.live \ live
        /\ b1.active = b0.active \ ActiveIn(b0.states, live)
        /\ b1.expiry = b0.expiry \ ExpiryIn(b0.states, live)
        /\ b1.children = b0.children \ ParentIn(b0.states, live)
        /\ b1.oco = b0.oco \ OcoIn(b0.states, live)
    <3>1. Shaped(b0)
      BY <1>1
    <3> HIDE DEF live
    <3>2. /\ Shaped(b1)
          /\ b1.orders = b0.orders /\ b1.forward = b0.forward /\ b1.reverse = b0.reverse
          /\ b1.states = Restrict(b0.states, DOMAIN b0.states \ live)
      BY <3>1, UnindexedFields
    <3>4. /\ b1.live = b0.live \ live
          /\ b1.active = b0.active \ ActiveIn(b0.states, live)
      BY <3>1, UnindexedSets
    <3>3. /\ b1.expiry = b0.expiry \ ExpiryIn(b0.states, live)
          /\ b1.children = b0.children \ ParentIn(b0.states, live)
          /\ b1.oco = b0.oco \ OcoIn(b0.states, live)
      BY <3>1, UnindexedPairs
    <3> HIDE DEF b1
    <3> QED
      BY <3>2, <3>3, <3>4
  <2> HIDE DEF b1, live
  <2> QED
    BY <1>1, <2>1
<1> HIDE DEF b1
<1> DEFINE gone == IdsFreed(b.forward, b.reverse, live)
<1>3. /\ Shaped(r)
      /\ r.orders = b1.orders /\ r.states = b1.states /\ r.active = b1.active
      /\ r.live = b1.live /\ r.expiry = b1.expiry /\ r.children = b1.children
      /\ r.oco = b1.oco
      /\ r.forward = Restrict(b.forward, DOMAIN b.forward \ gone)
      /\ r.reverse = PairsLeft(b.reverse, live)
  <2> HIDE DEF live
  <2> QED
    BY <1>2, UnboundFields
<1>4. r = Released(b, S)
  BY DEF Released, b0, b1
<1> HIDE DEF r, live
<1>5. live \subseteq DOMAIN b.orders /\ left = DOMAIN b.orders \ S
  BY DEF live
<1>6. \A h \in DOMAIN b.orders : /\ b.states[h].active = b.orders[h].active
                                /\ b.states[h].expires = b.orders[h].expires
                                /\ b.states[h].parent = b.orders[h].parent
                                /\ b.states[h].oco = b.orders[h].oco
  BY DEF BookInv, IndexesHold, StatesOf, IndexState
<1>7. /\ DOMAIN r.orders = left
      /\ \A h \in left : r.orders[h] = b.orders[h]
      /\ r.orders = [h \in left |-> b.orders[h]]
  BY <1>1, <1>2, <1>3
<1>8. IndexesHold(r)
  <2>1. r.states = StatesOf(r.orders)
    BY <1>2, <1>3, <1>5, <1>7 DEF BookInv, IndexesHold, StatesOf, Restrict
  <2>2. r.live = DOMAIN r.orders
    BY <1>2, <1>3, <1>7 DEF BookInv, IndexesHold
  <2>3. r.active = ActiveOf(r.orders)
    BY <1>2, <1>3, <1>5, <1>6, <1>7 DEF BookInv, IndexesHold, ActiveOf, ActiveIn
  <2>4. r.expiry = Pairs(ExpiryOf(r.orders))
    <3> DEFINE key == ExpiryOf(b.orders)
    <3>1. DOMAIN key = DOMAIN b.orders /\ \A h \in DOMAIN b.orders : key[h] = b.orders[h].expires
      BY DEF ExpiryOf
    <3>2. ExpiryOf(r.orders) = [h \in DOMAIN key \ live |-> key[h]]
      BY <1>7, <3>1 DEF ExpiryOf
    <3>3. ExpiryIn(b.states, live) = {<<key[h], h>> : h \in live}
      BY <1>5, <1>6, <3>1 DEF ExpiryIn
    <3> HIDE DEF key
    <3>4. b.expiry = Pairs(key)
      BY DEF BookInv, IndexesHold, key
    <3>5. Pairs([h \in DOMAIN key \ live |-> key[h]]) = Pairs(key) \ {<<key[h], h>> : h \in live}
      BY <1>5, <3>1, PairsRemoved
    <3> QED
      BY <1>2, <1>3, <3>2, <3>3, <3>4, <3>5
  <2>5. r.children = Pairs(ParentOf(r.orders))
    <3> DEFINE key == ParentOf(b.orders)
    <3>1. DOMAIN key = DOMAIN b.orders /\ \A h \in DOMAIN b.orders : key[h] = b.orders[h].parent
      BY DEF ParentOf
    <3>2. ParentOf(r.orders) = [h \in DOMAIN key \ live |-> key[h]]
      BY <1>7, <3>1 DEF ParentOf
    <3>3. ParentIn(b.states, live) = {<<key[h], h>> : h \in live}
      BY <1>5, <1>6, <3>1 DEF ParentIn
    <3> HIDE DEF key
    <3>4. b.children = Pairs(key)
      BY DEF BookInv, IndexesHold, key
    <3>5. Pairs([h \in DOMAIN key \ live |-> key[h]]) = Pairs(key) \ {<<key[h], h>> : h \in live}
      BY <1>5, <3>1, PairsRemoved
    <3> QED
      BY <1>2, <1>3, <3>2, <3>3, <3>4, <3>5
  <2>6. r.oco = Pairs(OcoOf(r.orders))
    <3> DEFINE key == OcoOf(b.orders)
    <3>1. DOMAIN key = DOMAIN b.orders /\ \A h \in DOMAIN b.orders : key[h] = b.orders[h].oco
      BY DEF OcoOf
    <3>2. OcoOf(r.orders) = [h \in DOMAIN key \ live |-> key[h]]
      BY <1>7, <3>1 DEF OcoOf
    <3>3. OcoIn(b.states, live) = {<<key[h], h>> : h \in live}
      BY <1>5, <1>6, <3>1 DEF OcoIn
    <3> HIDE DEF key
    <3>4. b.oco = Pairs(key)
      BY DEF BookInv, IndexesHold, key
    <3>5. Pairs([h \in DOMAIN key \ live |-> key[h]]) = Pairs(key) \ {<<key[h], h>> : h \in live}
      BY <1>5, <3>1, PairsRemoved
    <3> QED
      BY <1>2, <1>3, <3>2, <3>3, <3>4, <3>5
  <2> QED
    BY <2>1, <2>2, <2>3, <2>4, <2>5, <2>6 DEF IndexesHold
<1>9. \A n \in DOMAIN b.forward : n \in gone <=> b.forward[n] \in S
  <2>1. b.reverse = {<<n, b.forward[n]>> : n \in DOMAIN b.forward}
    BY DEF BookInv, AliasesHold
  <2>2. ASSUME NEW n \in DOMAIN b.forward, b.forward[n] \in S PROVE n \in gone
    <3>1. <<n, b.forward[n]>> \in b.reverse /\ b.forward[n] \in live
      BY <2>1, <2>2 DEF BookInv, AliasesHold, live
    <3> QED
      BY <3>1 DEF IdsFreed
  <2>3. ASSUME NEW n \in gone PROVE b.forward[n] \in S
    BY <2>3 DEF live, IdsFreed
  <2> QED
    BY <2>2, <2>3
<1>10. /\ \A n : n \in DOMAIN r.forward <=> n \in DOMAIN b.forward /\ b.forward[n] \notin S
       /\ \A n \in DOMAIN r.forward : r.forward[n] = b.forward[n]
  BY <1>3, <1>9 DEF Restrict
<1>11. AliasesHold(r)
  <2>1. \A n \in DOMAIN r.forward : n >= 0 /\ r.forward[n] \in DOMAIN r.orders
    BY <1>5, <1>7, <1>10 DEF BookInv, AliasesHold
  <2>2. \A n \in DOMAIN b.forward : b.forward[n] \in live <=> b.forward[n] \in S
    BY DEF BookInv, AliasesHold, live
  <2>3. r.reverse = {<<n, r.forward[n]>> : n \in DOMAIN r.forward}
    <3>1. b.reverse = {<<n, b.forward[n]>> : n \in DOMAIN b.forward}
      BY DEF BookInv, AliasesHold
    <3>2. r.reverse = {p \in b.reverse : p[2] \notin live}
      BY <1>3 DEF PairsLeft
    <3> QED
      BY <1>10, <2>2, <3>1, <3>2
  <2> QED
    BY <2>1, <2>3 DEF AliasesHold
<1>12. \A h \in DOMAIN r.orders : OrderTyped(r.orders[h])
  BY <1>7 DEF BookInv
<1>13. BookInv(r)
  BY <1>3, <1>8, <1>11, <1>12 DEF BookInv
<1> QED
  BY <1>4, <1>5, <1>7, <1>10, <1>13

\* An insertion under a fresh handle adds the order to the arena, to the
\* indexes its keys call for and to the aliases of its ids, taking these over.
LEMMA InsertedInv ==
  ASSUME NEW b, BookInv(b), NEW h, h \notin DOMAIN b.orders, NEW o, OrderTyped(o),
         NEW ids
  PROVE  /\ BookInv(Inserted(b, h, o, ids))
         /\ DOMAIN Inserted(b, h, o, ids).orders = {h} \cup DOMAIN b.orders
         /\ Inserted(b, h, o, ids).orders[h] = o
         /\ \A g \in DOMAIN b.orders : Inserted(b, h, o, ids).orders[g] = b.orders[g]
         /\ \A n : n \in DOMAIN Inserted(b, h, o, ids).forward <=>
                     n \in DOMAIN b.forward \/ (n \in ids /\ n >= 0)
         /\ \A n \in DOMAIN Inserted(b, h, o, ids).forward :
              Inserted(b, h, o, ids).forward[n] =
                IF n \in ids /\ n >= 0 THEN h ELSE b.forward[n]
<1> DEFINE s  == IndexState(o)
           b0 == [b EXCEPT !.orders = With(@, h, o)]
           b1 == Indexed(b0, h, s)
           r  == Bound(b1, h, ids)
           bindable == Bindable(ids)
<1>1. /\ Shaped(b0) /\ b0.orders = With(b.orders, h, o)
      /\ b0.states = b.states /\ b0.active = b.active /\ b0.live = b.live
      /\ b0.expiry = b.expiry /\ b0.children = b.children /\ b0.oco = b.oco
      /\ b0.forward = b.forward /\ b0.reverse = b.reverse
  BY DEF BookInv, Shaped
<1> HIDE DEF b0, s
<1>2. /\ Shaped(b1)
      /\ b1.orders = b0.orders /\ b1.forward = b0.forward /\ b1.reverse = b0.reverse
      /\ b1.states = With(b0.states, h, s)
      /\ b1.live = b0.live \cup {h}
      /\ s.active => b1.active = b0.active \cup {h}
      /\ ~s.active => b1.active = b0.active
      /\ b1.expiry = b0.expiry \cup KeyedBy(s.expires, h)
      /\ b1.children = b0.children \cup KeyedBy(s.parent, h)
      /\ b1.oco = b0.oco \cup KeyedBy(s.oco, h)
  <2>1. /\ Shaped(b1)
        /\ b1.orders = b0.orders /\ b1.forward = b0.forward /\ b1.reverse = b0.reverse
        /\ b1.states = With(b0.states, h, s)
    BY <1>1, IndexedFields
  <2>2. /\ b1.live = b0.live \cup {h}
        /\ s.active => b1.active = b0.active \cup {h}
        /\ ~s.active => b1.active = b0.active
    BY <1>1, IndexedSets
  <2>3. /\ b1.expiry = b0.expiry \cup KeyedBy(s.expires, h)
        /\ b1.children = b0.children \cup KeyedBy(s.parent, h)
        /\ b1.oco = b0.oco \cup KeyedBy(s.oco, h)
    BY <1>1, IndexedPairs
  <2> HIDE DEF b1
  <2> QED
    BY <2>1, <2>2, <2>3
<1> HIDE DEF b1
<1>3. /\ Shaped(r)
      /\ r.orders = b1.orders /\ r.states = b1.states /\ r.active = b1.active
      /\ r.live = b1.live /\ r.expiry = b1.expiry /\ r.children = b1.children
      /\ r.oco = b1.oco
      /\ r.forward = AllWith(b1.forward, bindable, h)
      /\ r.reverse = PairsBound(b1.reverse, h, bindable)
  BY <1>2, BoundFields
<1>4. r = Inserted(b, h, o, ids)
  BY DEF Inserted, b0, b1, s
<1> HIDE DEF r
<1>5. /\ s.active = o.active /\ s.expires = o.expires /\ s.parent = o.parent
      /\ s.oco = o.oco
  BY DEF s, IndexState
<1>6. /\ DOMAIN r.orders = {h} \cup DOMAIN b.orders
      /\ r.orders[h] = o
      /\ \A g \in DOMAIN b.orders : r.orders[g] = b.orders[g] /\ g # h
  <2>1. r.orders = [g \in DOMAIN b.orders \cup {h} |-> IF g = h THEN o ELSE b.orders[g]]
    BY <1>1, <1>2, <1>3 DEF With
  <2> QED
    BY <2>1
<1>7. IndexesHold(r)
  <2>1. r.states = StatesOf(r.orders)
    <3>1. b.states = StatesOf(b.orders)
      BY DEF BookInv, IndexesHold
    <3>2. r.states = [g \in DOMAIN b.states \cup {h} |-> IF g = h THEN s ELSE b.states[g]]
      BY <1>1, <1>2, <1>3 DEF With
    <3>3. DOMAIN b.states = DOMAIN b.orders
      BY <3>1 DEF StatesOf
    <3>4. \A g \in DOMAIN b.orders : b.states[g] = IndexState(b.orders[g])
      BY <3>1 DEF StatesOf
    <3> HIDE DEF s
    <3> QED
      BY <1>6, <3>2, <3>3, <3>4 DEF StatesOf, s
  <2>2. r.live = DOMAIN r.orders
    BY <1>1, <1>2, <1>3, <1>6 DEF BookInv, IndexesHold
  <2>3. r.active = ActiveOf(r.orders)
    BY <1>1, <1>2, <1>3, <1>5, <1>6 DEF BookInv, IndexesHold, ActiveOf
  <2>4. r.expiry = Pairs(ExpiryOf(r.orders))
    <3> DEFINE key == ExpiryOf(b.orders)
    <3>1. DOMAIN key = DOMAIN b.orders /\ \A g \in DOMAIN b.orders : key[g] = b.orders[g].expires
      BY DEF ExpiryOf
    <3>2. ExpiryOf(r.orders) = [g \in {h} \cup DOMAIN key |-> IF g = h THEN s.expires ELSE key[g]]
      BY <1>5, <1>6, <3>1 DEF ExpiryOf
    <3> HIDE DEF key
    <3>3. b.expiry = Pairs(key)
      BY DEF BookInv, IndexesHold, key
    <3>4. Pairs([g \in {h} \cup DOMAIN key |-> IF g = h THEN s.expires ELSE key[g]])
            = Pairs(key) \cup KeyedBy(s.expires, h)
      BY <3>1, PairsAdded
    <3> QED
      BY <1>1, <1>2, <1>3, <3>2, <3>3, <3>4
  <2>5. r.children = Pairs(ParentOf(r.orders))
    <3> DEFINE key == ParentOf(b.orders)
    <3>1. DOMAIN key = DOMAIN b.orders /\ \A g \in DOMAIN b.orders : key[g] = b.orders[g].parent
      BY DEF ParentOf
    <3>2. ParentOf(r.orders) = [g \in {h} \cup DOMAIN key |-> IF g = h THEN s.parent ELSE key[g]]
      BY <1>5, <1>6, <3>1 DEF ParentOf
    <3> HIDE DEF key
    <3>3. b.children = Pairs(key)
      BY DEF BookInv, IndexesHold, key
    <3>4. Pairs([g \in {h} \cup DOMAIN key |-> IF g = h THEN s.parent ELSE key[g]])
            = Pairs(key) \cup KeyedBy(s.parent, h)
      BY <3>1, PairsAdded
    <3> QED
      BY <1>1, <1>2, <1>3, <3>2, <3>3, <3>4
  <2>6. r.oco = Pairs(OcoOf(r.orders))
    <3> DEFINE key == OcoOf(b.orders)
    <3>1. DOMAIN key = DOMAIN b.orders /\ \A g \in DOMAIN b.orders : key[g] = b.orders[g].oco
      BY DEF OcoOf
    <3>2. OcoOf(r.orders) = [g \in {h} \cup DOMAIN key |-> IF g = h THEN s.oco ELSE key[g]]
      BY <1>5, <1>6, <3>1 DEF OcoOf
    <3> HIDE DEF key
    <3>3. b.oco = Pairs(key)
      BY DEF BookInv, IndexesHold, key
    <3>4. Pairs([g \in {h} \cup DOMAIN key |-> IF g = h THEN s.oco ELSE key[g]])
            = Pairs(key) \cup KeyedBy(s.oco, h)
      BY <3>1, PairsAdded
    <3> QED
      BY <1>1, <1>2, <1>3, <3>2, <3>3, <3>4
  <2> QED
    BY <2>1, <2>2, <2>3, <2>4, <2>5, <2>6 DEF IndexesHold
<1>8. /\ DOMAIN r.forward = bindable \cup DOMAIN b.forward
      /\ \A n \in DOMAIN r.forward :
           r.forward[n] = IF n \in bindable THEN h ELSE b.forward[n]
  <2> HIDE DEF bindable
  <2>1. r.forward = [n \in DOMAIN b.forward \cup bindable |->
                      IF n \in bindable THEN h ELSE b.forward[n]]
    BY <1>1, <1>2, <1>3 DEF AllWith
  <2> QED
    BY <2>1
<1>9. AliasesHold(r)
  <2>1. \A n \in DOMAIN r.forward : n >= 0 /\ r.forward[n] \in DOMAIN r.orders
    BY <1>6, <1>8 DEF BookInv, AliasesHold, Bindable
  <2>2. b1.reverse = {<<n, b.forward[n]>> : n \in DOMAIN b.forward}
    BY <1>1, <1>2 DEF BookInv, AliasesHold
  <2>3. r.reverse = {p \in b1.reverse : p[1] \notin bindable} \cup {<<n, h>> : n \in bindable}
    BY <1>3 DEF PairsBound
  <2> HIDE DEF bindable
  <2>4. ASSUME NEW p \in r.reverse PROVE \E n \in DOMAIN r.forward : p = <<n, r.forward[n]>>
    <3>1. CASE p \in b1.reverse /\ p[1] \notin bindable
      <4>1. PICK n \in DOMAIN b.forward : p = <<n, b.forward[n]>>
        BY <2>2, <3>1
      <4> QED
        BY <1>8, <3>1, <4>1
    <3>2. CASE p \in {<<n, h>> : n \in bindable}
      BY <1>8, <3>2
    <3> QED
      BY <2>3, <2>4, <3>1, <3>2
  <2>6. ASSUME NEW n \in DOMAIN r.forward PROVE <<n, r.forward[n]>> \in r.reverse
    <3>1. CASE n \in bindable
      BY <1>8, <2>3, <3>1
    <3>2. CASE n \notin bindable
      BY <1>8, <2>2, <2>3, <3>2
    <3> QED
      BY <3>1, <3>2
  <2>5. r.reverse = {<<n, r.forward[n]>> : n \in DOMAIN r.forward}
    BY <2>4, <2>6
  <2> QED
    BY <2>1, <2>5 DEF AliasesHold
<1>10. \A g \in DOMAIN r.orders : OrderTyped(r.orders[g])
  BY <1>6 DEF BookInv
<1>11. BookInv(r)
  BY <1>3, <1>7, <1>9, <1>10 DEF BookInv
<1>12. \A n : n \in bindable <=> n \in ids /\ n >= 0
  BY DEF Bindable
<1> HIDE DEF bindable
<1>13. /\ \A n : n \in DOMAIN r.forward <=> n \in DOMAIN b.forward \/ (n \in ids /\ n >= 0)
       /\ \A n \in DOMAIN r.forward :
            r.forward[n] = IF n \in ids /\ n >= 0 THEN h ELSE b.forward[n]
  BY <1>8, <1>12
<1>14. /\ DOMAIN r.orders = {h} \cup DOMAIN b.orders
       /\ r.orders[h] = o
       /\ \A g \in DOMAIN b.orders : r.orders[g] = b.orders[g]
  BY <1>6
<1> QED
  BY <1>4, <1>11, <1>13, <1>14, Zenon

\* A wake-up changes the flags of live orders that wait, and no key.
LEMMA ActivatedInv ==
  ASSUME NEW b, BookInv(b), NEW S, S \subseteq DOMAIN b.orders
  PROVE  /\ BookInv(Activated(b, S))
         /\ DOMAIN Activated(b, S).orders = DOMAIN b.orders
         /\ \A h \in DOMAIN b.orders :
              Activated(b, S).orders[h] =
                IF h \in S
                  THEN [b.orders[h] EXCEPT !.active = TRUE, !.waiting_parent = FALSE]
                  ELSE b.orders[h]
         /\ Activated(b, S).forward = b.forward
<1> DEFINE r == Activated(b, S)
           Awake(f) == [h \in DOMAIN f |->
                          IF h \in S THEN [f[h] EXCEPT !.active = TRUE, !.waiting_parent = FALSE]
                                     ELSE f[h]]
<1>1. /\ Shaped(r)
      /\ r.orders = Awake(b.orders) /\ r.states = Awake(b.states)
      /\ r.active = b.active \cup S
      /\ r.live = b.live /\ r.expiry = b.expiry /\ r.children = b.children
      /\ r.oco = b.oco /\ r.forward = b.forward /\ r.reverse = b.reverse
  BY ActivatedFields DEF BookInv
<1> HIDE DEF r
<1>2. /\ DOMAIN r.orders = DOMAIN b.orders
      /\ \A h \in DOMAIN b.orders :
           r.orders[h] = IF h \in S
                           THEN [b.orders[h] EXCEPT !.active = TRUE, !.waiting_parent = FALSE]
                           ELSE b.orders[h]
  BY <1>1
<1>3. \A h \in DOMAIN b.orders : OrderTyped(b.orders[h])
  BY DEF BookInv
<1>4. \A h \in DOMAIN b.orders :
        /\ OrderTyped(r.orders[h])
        /\ r.orders[h].expires = b.orders[h].expires
        /\ r.orders[h].parent = b.orders[h].parent
        /\ r.orders[h].oco = b.orders[h].oco
        /\ h \in S => r.orders[h].active
        /\ h \notin S => r.orders[h].active = b.orders[h].active
  BY <1>2, <1>3 DEF OrderTyped, OrderFields
<1>5. IndexesHold(r)
  <2>1. r.states = StatesOf(r.orders)
    <3>1. b.states = StatesOf(b.orders)
      BY DEF BookInv, IndexesHold
    <3>2. /\ DOMAIN r.states = DOMAIN b.orders
          /\ r.states = [h \in DOMAIN b.orders |-> r.states[h]]
      BY <1>1, <3>1 DEF StatesOf
    <3>3. \A h \in DOMAIN b.orders : r.states[h] = IndexState(r.orders[h])
      <4> SUFFICES ASSUME NEW h \in DOMAIN b.orders PROVE r.states[h] = IndexState(r.orders[h])
        OBVIOUS
      <4>1. r.states[h] = IF h \in S
                            THEN [IndexState(b.orders[h]) EXCEPT !.active = TRUE, !.waiting_parent = FALSE]
                            ELSE IndexState(b.orders[h])
        BY <1>1, <3>1 DEF StatesOf
      <4>2. CASE h \in S
        <5>1. /\ r.states[h] = [IndexState(b.orders[h]) EXCEPT !.active = TRUE, !.waiting_parent = FALSE]
              /\ r.orders[h] = [b.orders[h] EXCEPT !.active = TRUE, !.waiting_parent = FALSE]
          BY <1>2, <4>1, <4>2
        <5>2. DOMAIN b.orders[h] = OrderFields
          BY <1>3 DEF OrderTyped
        <5>3. /\ r.orders[h].active = TRUE /\ r.orders[h].waiting_parent = FALSE
              /\ r.orders[h].parent = b.orders[h].parent
              /\ r.orders[h].oco = b.orders[h].oco
              /\ r.orders[h].expires = b.orders[h].expires
          BY <5>1, <5>2 DEF OrderFields
        <5>4. r.states[h] = [active |-> TRUE, waiting_parent |-> FALSE,
                             parent |-> b.orders[h].parent, oco |-> b.orders[h].oco,
                             expires |-> b.orders[h].expires]
          BY <5>1 DEF IndexState
        <5> QED
          BY <5>3, <5>4 DEF IndexState
      <4>3. CASE h \notin S
        BY <1>2, <4>1, <4>3
      <4> QED
        BY <4>2, <4>3
    <3> QED
      BY <1>2, <3>2, <3>3 DEF StatesOf
  <2>2. r.live = DOMAIN r.orders
    BY <1>1, <1>2 DEF BookInv, IndexesHold
  <2>3. r.active = ActiveOf(r.orders)
    BY <1>1, <1>2, <1>4 DEF BookInv, IndexesHold, ActiveOf
  <2>4. /\ ExpiryOf(r.orders) = ExpiryOf(b.orders)
        /\ ParentOf(r.orders) = ParentOf(b.orders)
        /\ OcoOf(r.orders) = OcoOf(b.orders)
    BY <1>2, <1>4 DEF ExpiryOf, ParentOf, OcoOf
  <2> QED
    BY <1>1, <2>1, <2>2, <2>3, <2>4 DEF BookInv, IndexesHold
<1>6. AliasesHold(r)
  <2>1. \A n \in DOMAIN b.forward : n >= 0 /\ b.forward[n] \in DOMAIN b.orders
    BY DEF BookInv, AliasesHold
  <2>2. b.reverse = {<<n, b.forward[n]>> : n \in DOMAIN b.forward}
    BY DEF BookInv, AliasesHold
  <2>3. r.forward = b.forward /\ r.reverse = b.reverse /\ DOMAIN r.orders = DOMAIN b.orders
    BY <1>1, <1>2
  <2> QED
    BY <2>1, <2>2, <2>3 DEF AliasesHold
<1>7. BookInv(r)
  BY <1>1, <1>2, <1>4, <1>5, <1>6 DEF BookInv
<1> QED
  BY <1>1, <1>2, <1>7 DEF r

\* A new quantity for a live order disturbs no index.
LEMMA QuantityInv ==
  ASSUME NEW b, BookInv(b), NEW h \in DOMAIN b.orders, NEW q \in Int
  PROVE  /\ BookInv([b EXCEPT !.orders[h].qty = q])
         /\ DOMAIN [b EXCEPT !.orders[h].qty = q].orders = DOMAIN b.orders
         /\ \A g \in DOMAIN b.orders :
              [b EXCEPT !.orders[h].qty = q].orders[g] =
                IF g = h THEN [b.orders[h] EXCEPT !.qty = q] ELSE b.orders[g]
         /\ [b EXCEPT !.orders[h].qty = q].forward = b.forward
<1> DEFINE r == [b EXCEPT !.orders[h].qty = q]
<1>1. /\ Shaped(r)
      /\ r.orders = [b.orders EXCEPT ![h].qty = q]
      /\ r.states = b.states /\ r.active = b.active
      /\ r.live = b.live /\ r.expiry = b.expiry /\ r.children = b.children
      /\ r.oco = b.oco /\ r.forward = b.forward /\ r.reverse = b.reverse
  BY DEF BookInv, Shaped
<1> HIDE DEF r
<1>2. /\ DOMAIN r.orders = DOMAIN b.orders
      /\ \A g \in DOMAIN b.orders :
           r.orders[g] = IF g = h THEN [b.orders[h] EXCEPT !.qty = q] ELSE b.orders[g]
  BY <1>1
<1>3. \A g \in DOMAIN b.orders : OrderTyped(b.orders[g])
  BY DEF BookInv
<1>4. \A g \in DOMAIN b.orders :
        /\ OrderTyped(r.orders[g])
        /\ r.orders[g].expires = b.orders[g].expires
        /\ r.orders[g].parent = b.orders[g].parent
        /\ r.orders[g].oco = b.orders[g].oco
        /\ r.orders[g].active = b.orders[g].active
        /\ r.orders[g].waiting_parent = b.orders[g].waiting_parent
  BY <1>2, <1>3 DEF OrderTyped, OrderFields
<1>5. /\ StatesOf(r.orders) = StatesOf(b.orders)
      /\ ActiveOf(r.orders) = ActiveOf(b.orders)
      /\ ExpiryOf(r.orders) = ExpiryOf(b.orders)
      /\ ParentOf(r.orders) = ParentOf(b.orders)
      /\ OcoOf(r.orders) = OcoOf(b.orders)
  BY <1>2, <1>4 DEF StatesOf, IndexState, ActiveOf, ExpiryOf, ParentOf, OcoOf
<1>6. BookInv(r)
  BY <1>1, <1>2, <1>4, <1>5 DEF BookInv, IndexesHold, AliasesHold
<1> QED
  BY <1>1, <1>2, <1>6 DEF r

-----------------------------------------------------------------------------
(* Books that only lost orders *)

\* The same order, but for its quantity and its flags.
SameOrder(o, p) ==
  /\ o.id = p.id /\ o.side = p.side /\ o.tif = p.tif /\ o.reduce_only = p.reduce_only
  /\ o.parent = p.parent /\ o.oco = p.oco /\ o.expires = p.expires
  /\ o.activation = p.activation

\* r is what is left of b once some orders are gone, and the waiting orders K
\* are woken up.
Shrunk(b, r, K) ==
  /\ BookInv(r)
  /\ DOMAIN r.orders \subseteq DOMAIN b.orders
  /\ \A h \in DOMAIN r.orders :
       /\ SameOrder(r.orders[h], b.orders[h])
       /\ r.orders[h].active => b.orders[h].active \/ h \in K
  /\ \A n : n \in DOMAIN r.forward <=>
              n \in DOMAIN b.forward /\ b.forward[n] \in DOMAIN r.orders
  /\ \A n \in DOMAIN r.forward : r.forward[n] = b.forward[n]

LEMMA ReleasedShrunk ==
  ASSUME NEW b, BookInv(b), NEW S
  PROVE  /\ Shrunk(b, Released(b, S), {})
         /\ DOMAIN Released(b, S).orders = DOMAIN b.orders \ S
<1> DEFINE r == Released(b, S)
<1>1. /\ BookInv(r)
      /\ r.orders = [h \in DOMAIN b.orders \ S |-> b.orders[h]]
      /\ \A n : n \in DOMAIN r.forward <=> n \in DOMAIN b.forward /\ b.forward[n] \notin S
      /\ \A n \in DOMAIN r.forward : r.forward[n] = b.forward[n]
  BY ReleasedInv
<1> HIDE DEF r
<1>2. /\ DOMAIN r.orders = DOMAIN b.orders \ S
      /\ \A h \in DOMAIN r.orders : r.orders[h] = b.orders[h]
  BY <1>1
<1>3. \A n \in DOMAIN b.forward : b.forward[n] \in DOMAIN b.orders
  BY DEF BookInv, AliasesHold
<1>4. Shrunk(b, r, {})
  BY <1>1, <1>2, <1>3 DEF Shrunk, SameOrder
<1> QED
  BY <1>2, <1>4 DEF r

LEMMA ActivatedShrunk ==
  ASSUME NEW b, BookInv(b), NEW S, S \subseteq DOMAIN b.orders
  PROVE  Shrunk(b, Activated(b, S), S)
<1> DEFINE r == Activated(b, S)
<1>1. /\ BookInv(r)
      /\ DOMAIN r.orders = DOMAIN b.orders
      /\ \A h \in DOMAIN b.orders :
           r.orders[h] = IF h \in S
                           THEN [b.orders[h] EXCEPT !.active = TRUE, !.waiting_parent = FALSE]
                           ELSE b.orders[h]
      /\ r.forward = b.forward
  BY ActivatedInv
<1> HIDE DEF r
<1>2. \A h \in DOMAIN b.orders : OrderTyped(b.orders[h])
  BY DEF BookInv
<1>3. \A h \in DOMAIN r.orders : SameOrder(r.orders[h], b.orders[h])
  BY <1>1, <1>2 DEF SameOrder, OrderTyped, OrderFields
<1>4. \A h \in DOMAIN r.orders : r.orders[h].active => b.orders[h].active \/ h \in S
  BY <1>1
<1>5. \A n \in DOMAIN b.forward : b.forward[n] \in DOMAIN b.orders
  BY DEF BookInv, AliasesHold
<1>6. Shrunk(b, r, S)
  BY <1>1, <1>3, <1>4, <1>5 DEF Shrunk
<1> QED
  BY <1>6 DEF r

LEMMA QuantityShrunk ==
  ASSUME NEW b, BookInv(b), NEW h \in DOMAIN b.orders, NEW q \in Int
  PROVE  Shrunk(b, [b EXCEPT !.orders[h].qty = q], {})
<1> DEFINE r == [b EXCEPT !.orders[h].qty = q]
<1>1. /\ BookInv(r)
      /\ DOMAIN r.orders = DOMAIN b.orders
      /\ \A g \in DOMAIN b.orders :
           r.orders[g] = IF g = h THEN [b.orders[h] EXCEPT !.qty = q] ELSE b.orders[g]
      /\ r.forward = b.forward
  BY QuantityInv
<1> HIDE DEF r
<1>2. \A g \in DOMAIN b.orders : OrderTyped(b.orders[g])
  BY DEF BookInv
<1>3. \A g \in DOMAIN r.orders :
        SameOrder(r.orders[g], b.orders[g]) /\ r.orders[g].active = b.orders[g].active
  BY <1>1, <1>2 DEF SameOrder, OrderTyped, OrderFields
<1>4. \A n \in DOMAIN b.forward : b.forward[n] \in DOMAIN b.orders
  BY DEF BookInv, AliasesHold
<1>5. Shrunk(b, r, {})
  BY <1>1, <1>3, <1>4 DEF Shrunk
<1> QED
  BY <1>5 DEF r

LEMMA SameShrunk ==
  ASSUME NEW b, BookInv(b)
  PROVE  Shrunk(b, b, {})
BY DEF Shrunk, SameOrder, BookInv, AliasesHold

LEMMA ShrunkTwice ==
  ASSUME NEW b, NEW r, NEW t, NEW K, Shrunk(b, r, K), Shrunk(r, t, {})
  PROVE  Shrunk(b, t, K)
<1>1. /\ BookInv(t)
      /\ DOMAIN t.orders \subseteq DOMAIN r.orders
      /\ DOMAIN r.orders \subseteq DOMAIN b.orders
  BY DEF Shrunk
<1>2. \A h \in DOMAIN t.orders :
        /\ SameOrder(t.orders[h], b.orders[h])
        /\ t.orders[h].active => b.orders[h].active \/ h \in K
  BY <1>1 DEF Shrunk, SameOrder
<1>3. \A n : n \in DOMAIN t.forward <=>
               n \in DOMAIN b.forward /\ b.forward[n] \in DOMAIN t.orders
  BY <1>1 DEF Shrunk
<1>4. \A n \in DOMAIN t.forward : t.forward[n] = b.forward[n]
  BY DEF Shrunk
<1> QED
  BY <1>1, <1>2, <1>3, <1>4 DEF Shrunk

-----------------------------------------------------------------------------
(* The book and its history: pl is placed, fl filled, n the next sequence *)

\* Every live order, and every order that ever filled, is one that was placed.
HistoryHolds(b, pl, fl, n) ==
  /\ n \in Nat
  /\ \A h \in DOMAIN pl : h \in Nat /\ h < n
  /\ DOMAIN b.orders \subseteq DOMAIN pl
  /\ \A h \in DOMAIN b.orders : SameOrder(b.orders[h], pl[h].order)
  /\ DOMAIN fl \subseteq DOMAIN pl
  /\ \A h \in DOMAIN fl : fl[h].last \in Nat /\ fl[h].last <= n

\* NewestOrderAnswers, and that no newer order was given an id that is bound.
NamesHold(b, pl) ==
  /\ \A m \in DOMAIN b.forward : m \in pl[b.forward[m]].names
  /\ \A h \in DOMAIN b.orders :
       \A m \in pl[h].names :
         m >= 0 => \/ m \in DOMAIN b.forward /\ b.forward[m] = h
                   \/ \E later \in DOMAIN pl : later > h /\ m \in pl[later].names
  /\ \A m \in DOMAIN b.forward : \A later \in DOMAIN pl :
       m \in pl[later].names => later <= b.forward[m]

\* An order with the parent's id has filled since child h was placed.
ParentFilled(h, pl, fl) ==
  \E p \in DOMAIN fl : pl[p].order.id = pl[h].order.parent /\ fl[p].last > h

\* ChildFillsAfterParent, and what it rests on: only then is a child active.
ChildrenHold(b, pl, fl) ==
  /\ \A h \in DOMAIN fl : pl[h].order.activation # Immediate => ParentFilled(h, pl, fl)
  /\ \A h \in DOMAIN b.orders :
       b.orders[h].active /\ pl[h].order.activation # Immediate => ParentFilled(h, pl, fl)

Siblings(h, g, pl) ==
  /\ pl[h].order.oco >= 0
  /\ pl[h].order.oco = pl[g].order.oco
  /\ pl[h].order.id # pl[g].order.id

\* OcoSiblingsExclusive, and what it rests on: a live sibling of an order that
\* filled was placed after that fill.
SiblingsHold(b, pl, fl) ==
  /\ \A h, g \in DOMAIN fl : Siblings(h, g, pl) => fl[h].last <= g \/ fl[g].last <= h
  /\ \A h \in DOMAIN fl : \A g \in DOMAIN b.orders : Siblings(h, g, pl) => fl[h].last <= g

LiveInv(b, pl, fl, n) ==
  /\ BookInv(b)
  /\ HistoryHolds(b, pl, fl, n)
  /\ NamesHold(b, pl)
  /\ ChildrenHold(b, pl, fl)
  /\ SiblingsHold(b, pl, fl)

LEMMA EmptyLive == LiveInv(EmptyBook, << >>, << >>, 0)
<1>1. /\ BookInv(EmptyBook)
      /\ EmptyBook.orders = << >> /\ EmptyBook.forward = << >>
  BY EmptyInv, EmptyFields
<1>2. DOMAIN << >> = {}
  OBVIOUS
<1> QED
  BY <1>1, <1>2 DEF LiveInv, HistoryHolds, NamesHold, ChildrenHold, SiblingsHold

\* A book that only lost orders.
LEMMA ShrunkKeeps ==
  ASSUME NEW b, NEW pl, NEW fl, NEW n, LiveInv(b, pl, fl, n), NEW r, Shrunk(b, r, {})
  PROVE  LiveInv(r, pl, fl, n)
<1>1. /\ BookInv(r)
      /\ DOMAIN r.orders \subseteq DOMAIN b.orders
      /\ \A h \in DOMAIN r.orders :
           SameOrder(r.orders[h], b.orders[h]) /\ (r.orders[h].active => b.orders[h].active)
      /\ \A m : m \in DOMAIN r.forward <=>
                  m \in DOMAIN b.forward /\ b.forward[m] \in DOMAIN r.orders
      /\ \A m \in DOMAIN r.forward : r.forward[m] = b.forward[m]
  BY DEF Shrunk
<1>2. HistoryHolds(r, pl, fl, n)
  BY <1>1 DEF LiveInv, HistoryHolds, SameOrder
<1>3. NamesHold(r, pl)
  BY <1>1 DEF LiveInv, NamesHold
<1>4. ChildrenHold(r, pl, fl)
  BY <1>1 DEF LiveInv, ChildrenHold
<1>5. SiblingsHold(r, pl, fl)
  BY <1>1 DEF LiveInv, SiblingsHold
<1> QED
  BY <1>1, <1>2, <1>3, <1>4, <1>5 DEF LiveInv

\* A sequence drawn for an order the arena has no room for.
LEMMA DrawnKeeps ==
  ASSUME NEW b, NEW pl, NEW fl, NEW n, LiveInv(b, pl, fl, n)
  PROVE  LiveInv(b, pl, fl, n + 1)
<1>1. HistoryHolds(b, pl, fl, n + 1)
  BY DEF LiveInv, HistoryHolds
<1> QED
  BY <1>1 DEF LiveInv

\* An insertion, of an order that is active unless it waits for a parent, and
\* is bound to the ids the history gives it.
LEMMA InsertedKeeps ==
  ASSUME NEW b, NEW pl, NEW fl, NEW n, LiveInv(b, pl, fl, n),
         NEW o, OrderTyped(o), o.active = (o.activation = Immediate),
         NEW ids, NEW names, \A m : m >= 0 => (m \in ids <=> m \in names),
         NEW bar
  PROVE  LiveInv(Inserted(b, n, o, ids),
                 With(pl, n, [order |-> o, names |-> names, bar |-> bar]), fl, n + 1)
<1> DEFINE r   == Inserted(b, n, o, ids)
           new == With(pl, n, [order |-> o, names |-> names, bar |-> bar])
<1>1. /\ n \in Nat /\ n \notin DOMAIN pl /\ n \notin DOMAIN b.orders /\ n \notin DOMAIN fl
      /\ \A h \in DOMAIN pl : h \in Nat /\ h < n
      /\ \A h \in DOMAIN b.orders : h \in DOMAIN pl /\ h < n
      /\ \A h \in DOMAIN fl : h \in DOMAIN pl
  BY DEF LiveInv, HistoryHolds
<1>2. /\ BookInv(r)
      /\ DOMAIN r.orders = {n} \cup DOMAIN b.orders
      /\ r.orders[n] = o
      /\ \A g \in DOMAIN b.orders : r.orders[g] = b.orders[g]
      /\ \A m : m \in DOMAIN r.forward <=> m \in DOMAIN b.forward \/ (m \in ids /\ m >= 0)
      /\ \A m \in DOMAIN r.forward :
           r.forward[m] = IF m \in ids /\ m >= 0 THEN n ELSE b.forward[m]
  BY <1>1, InsertedInv DEF LiveInv
<1> HIDE DEF r
<1>3. /\ DOMAIN new = {n} \cup DOMAIN pl
      /\ new[n].order = o /\ new[n].names = names
      /\ \A h \in DOMAIN pl : new[h] = pl[h]
  BY <1>1 DEF With
<1> HIDE DEF new
<1>4. \A m \in DOMAIN b.forward : m >= 0 /\ b.forward[m] \in DOMAIN b.orders
  BY DEF LiveInv, BookInv, AliasesHold
<1>5. HistoryHolds(r, new, fl, n + 1)
  BY <1>1, <1>2, <1>3 DEF LiveInv, HistoryHolds, SameOrder
<1>6. NamesHold(r, new)
  <2>1. \A m \in DOMAIN r.forward : m \in new[r.forward[m]].names
    <3> SUFFICES ASSUME NEW m \in DOMAIN r.forward PROVE m \in new[r.forward[m]].names
      OBVIOUS
    <3>1. CASE m \in ids /\ m >= 0
      BY <1>2, <1>3, <3>1
    <3>2. CASE ~(m \in ids /\ m >= 0)
      BY <1>1, <1>2, <1>3, <1>4, <3>2 DEF LiveInv, NamesHold
    <3> QED
      BY <3>1, <3>2
  <2>2. ASSUME NEW h \in DOMAIN r.orders, NEW m \in new[h].names, m >= 0
        PROVE  \/ m \in DOMAIN r.forward /\ r.forward[m] = h
               \/ \E later \in DOMAIN new : later > h /\ m \in new[later].names
    <3>1. CASE h = n
      BY <1>2, <1>3, <2>2, <3>1
    <3>2. CASE h # n /\ m \in ids
      <4>1. h \in DOMAIN b.orders /\ n > h
        BY <1>1, <1>2, <3>2
      <4>2. n \in DOMAIN new /\ m \in new[n].names
        BY <1>3, <2>2, <3>2
      <4> QED
        BY <4>1, <4>2
    <3>3. CASE h # n /\ m \notin ids
      <4>1. h \in DOMAIN b.orders /\ m \in pl[h].names
        BY <1>1, <1>2, <1>3, <3>3
      <4>2. \/ m \in DOMAIN b.forward /\ b.forward[m] = h
            \/ \E later \in DOMAIN pl : later > h /\ m \in pl[later].names
        BY <2>2, <4>1 DEF LiveInv, NamesHold
      <4> QED
        BY <1>2, <1>3, <3>3, <4>2
    <3> QED
      BY <3>1, <3>2, <3>3
  <2>3. ASSUME NEW m \in DOMAIN r.forward, NEW later \in DOMAIN new, m \in new[later].names
        PROVE  later <= r.forward[m]
    <3>1. CASE m \in ids /\ m >= 0
      BY <1>1, <1>2, <1>3, <3>1
    <3>2. CASE ~(m \in ids /\ m >= 0)
      <4>1. m \in DOMAIN b.forward /\ r.forward[m] = b.forward[m] /\ m >= 0
        BY <1>2, <1>4, <3>2
      <4>2. later # n
        BY <1>3, <2>3, <3>2, <4>1
      <4> QED
        BY <1>3, <2>3, <4>1, <4>2 DEF LiveInv, NamesHold
    <3> QED
      BY <3>1, <3>2
  <2> QED
    BY <2>1, <2>2, <2>3 DEF NamesHold
<1>7. ChildrenHold(r, new, fl)
  <2>1. ASSUME NEW h \in DOMAIN pl, ParentFilled(h, pl, fl) PROVE ParentFilled(h, new, fl)
    BY <1>1, <1>3, <2>1 DEF ParentFilled
  <2>2. \A h \in DOMAIN fl : new[h].order.activation # Immediate => ParentFilled(h, new, fl)
    BY <1>1, <1>3, <2>1 DEF LiveInv, ChildrenHold
  <2>3. \A h \in DOMAIN r.orders :
          r.orders[h].active /\ new[h].order.activation # Immediate => ParentFilled(h, new, fl)
    BY <1>1, <1>2, <1>3, <2>1 DEF LiveInv, ChildrenHold
  <2> QED
    BY <2>2, <2>3 DEF ChildrenHold
<1>8. SiblingsHold(r, new, fl)
  <2>1. \A h, g \in DOMAIN pl : Siblings(h, g, new) <=> Siblings(h, g, pl)
    BY <1>3 DEF Siblings
  <2>2. \A h, g \in DOMAIN fl : Siblings(h, g, new) => fl[h].last <= g \/ fl[g].last <= h
    BY <1>1, <2>1 DEF LiveInv, SiblingsHold
  <2>3. \A h \in DOMAIN fl : \A g \in DOMAIN r.orders : Siblings(h, g, new) => fl[h].last <= g
    BY <1>1, <1>2, <2>1 DEF LiveInv, SiblingsHold, HistoryHolds
  <2> QED
    BY <2>2, <2>3 DEF SiblingsHold
<1> QED
  BY <1>2, <1>5, <1>6, <1>7, <1>8 DEF LiveInv, r, new

\* A fill of h that wakes K, the children of h's id, and leaves no sibling.
LEMMA FilledKeeps ==
  ASSUME NEW b, NEW pl, NEW fl, NEW n, LiveInv(b, pl, fl, n),
         NEW h \in DOMAIN b.orders, b.orders[h].active,
         NEW r, NEW K, Shrunk(b, r, K),
         \A k \in K : k \in DOMAIN b.orders /\ b.orders[k].parent = b.orders[h].id,
         \A g \in DOMAIN r.orders : ~Siblings(h, g, pl),
         NEW first, NEW full
  PROVE  LiveInv(r, pl, With(fl, h, [first |-> first, last |-> n, full |-> full]), n)
<1> DEFINE new == With(fl, h, [first |-> first, last |-> n, full |-> full])
<1>1. /\ DOMAIN new = DOMAIN fl \cup {h}
      /\ new[h].last = n
      /\ \A g \in DOMAIN fl : g # h => new[g] = fl[g]
  BY DEF With
<1> HIDE DEF new
<1>2. /\ BookInv(r)
      /\ DOMAIN r.orders \subseteq DOMAIN b.orders
      /\ \A g \in DOMAIN r.orders :
           SameOrder(r.orders[g], b.orders[g]) /\ (r.orders[g].active => b.orders[g].active \/ g \in K)
      /\ \A m : m \in DOMAIN r.forward <=>
                  m \in DOMAIN b.forward /\ b.forward[m] \in DOMAIN r.orders
      /\ \A m \in DOMAIN r.forward : r.forward[m] = b.forward[m]
  BY DEF Shrunk
<1>3. /\ n \in Nat /\ h \in DOMAIN pl
      /\ \A g \in DOMAIN pl : g \in Nat /\ g < n
      /\ \A g \in DOMAIN b.orders : g \in DOMAIN pl /\ SameOrder(b.orders[g], pl[g].order)
      /\ \A g \in DOMAIN fl : g \in DOMAIN pl /\ fl[g].last \in Nat /\ fl[g].last <= n
  BY DEF LiveInv, HistoryHolds
<1>4. HistoryHolds(r, pl, new, n)
  BY <1>1, <1>2, <1>3 DEF HistoryHolds, SameOrder
<1>5. NamesHold(r, pl)
  BY <1>2 DEF LiveInv, NamesHold
<1>6. ChildrenHold(r, pl, new)
  <2>1. ASSUME NEW g \in DOMAIN pl, ParentFilled(g, pl, fl) PROVE ParentFilled(g, pl, new)
    <3>1. PICK p \in DOMAIN fl : pl[p].order.id = pl[g].order.parent /\ fl[p].last > g
      BY <2>1 DEF ParentFilled
    <3>2. p \in DOMAIN new /\ new[p].last > g
      BY <1>1, <1>3, <3>1
    <3> QED
      BY <3>1, <3>2 DEF ParentFilled
  <2>2. ASSUME NEW k \in K PROVE ParentFilled(k, pl, new)
    <3>1. k \in DOMAIN pl /\ pl[h].order.id = pl[k].order.parent
      BY <1>3 DEF SameOrder
    <3>2. h \in DOMAIN new /\ new[h].last > k
      BY <1>1, <1>3, <3>1
    <3> QED
      BY <3>1, <3>2 DEF ParentFilled
  <2>3. \A g \in DOMAIN new : pl[g].order.activation # Immediate => ParentFilled(g, pl, new)
    BY <1>1, <1>3, <2>1 DEF LiveInv, ChildrenHold
  <2>4. \A g \in DOMAIN r.orders :
          r.orders[g].active /\ pl[g].order.activation # Immediate => ParentFilled(g, pl, new)
    BY <1>2, <1>3, <2>1, <2>2 DEF LiveInv, ChildrenHold
  <2> QED
    BY <2>3, <2>4 DEF ChildrenHold
<1>7. SiblingsHold(r, pl, new)
  <2>1. \A f \in DOMAIN fl : \A g \in DOMAIN b.orders : Siblings(f, g, pl) => fl[f].last <= g
    BY DEF LiveInv, SiblingsHold
  <2>2. ASSUME NEW f \in DOMAIN new, NEW g \in DOMAIN new, Siblings(f, g, pl)
        PROVE  new[f].last <= g \/ new[g].last <= f
    <3>1. f # g /\ Siblings(g, f, pl)
      BY <2>2 DEF Siblings
    <3>2. CASE f # h /\ g # h
      BY <1>1, <2>2, <3>2 DEF LiveInv, SiblingsHold
    <3>3. CASE f = h
      BY <1>1, <2>1, <3>1, <3>3
    <3>4. CASE g = h
      BY <1>1, <2>1, <2>2, <3>1, <3>4
    <3> QED
      BY <3>2, <3>3, <3>4
  <2>3. ASSUME NEW f \in DOMAIN new, NEW g \in DOMAIN r.orders, Siblings(f, g, pl)
        PROVE  new[f].last <= g
    BY <1>1, <1>2, <2>1, <2>3
  <2> QED
    BY <2>2, <2>3 DEF SiblingsHold
<1> QED
  BY <1>2, <1>4, <1>5, <1>6, <1>7 DEF LiveInv, new

-----------------------------------------------------------------------------
(* What the indexes are asked for *)

LEMMA DueFound ==
  ASSUME NEW b, BookInv(b), NEW bar \in Nat, NEW h \in DOMAIN b.orders,
         b.orders[h].expires \in 0..bar
  PROVE  h \in DueExpiry(b, bar)
<1> DEFINE key == ExpiryOf(b.orders)
<1>1. DOMAIN key = DOMAIN b.orders /\ key[h] = b.orders[h].expires /\ b.expiry = Pairs(key)
  BY DEF BookInv, IndexesHold, ExpiryOf
<1> HIDE DEF key
<1>2. PICK p \in Pairs(key) : p[1] = key[h] /\ p[2] = h
  BY <1>1, InPairs
<1>3. p \in {q \in b.expiry : q[1] <= bar}
  BY <1>1, <1>2
<1>4. h \in {q[2] : q \in {q \in b.expiry : q[1] <= bar}}
  BY <1>2, <1>3
<1> QED
  BY <1>4 DEF DueExpiry

LEMMA SiblingFound ==
  ASSUME NEW b, BookInv(b), NEW group, group >= 0, NEW id, NEW h \in DOMAIN b.orders,
         b.orders[h].oco = group, b.orders[h].id # id
  PROVE  h \in SiblingsOf(b, group, id)
<1> DEFINE key == OcoOf(b.orders)
<1>1. DOMAIN key = DOMAIN b.orders /\ key[h] = b.orders[h].oco /\ b.oco = Pairs(key)
  BY DEF BookInv, IndexesHold, OcoOf
<1> HIDE DEF key
<1>2. PICK p \in Pairs(key) : p[1] = key[h] /\ p[2] = h
  BY <1>1, InPairs
<1>3. p \in {q \in b.oco : q[1] = group}
  BY <1>1, <1>2
<1>4. h \in {q[2] : q \in {q \in b.oco : q[1] = group}}
  BY <1>2, <1>3
<1> QED
  BY <1>4 DEF SiblingsOf

\* The ids the aliases know for a live order.
LEMMA AliasFound ==
  ASSUME NEW b, BookInv(b), NEW h, NEW m
  PROVE  m \in {p[1] : p \in {q \in b.reverse : q[2] = h}}
           <=> m \in DOMAIN b.forward /\ b.forward[m] = h
<1>1. b.reverse = {<<n, b.forward[n]>> : n \in DOMAIN b.forward}
  BY DEF BookInv, AliasesHold
<1>2. ASSUME m \in DOMAIN b.forward, b.forward[m] = h
      PROVE  m \in {p[1] : p \in {q \in b.reverse : q[2] = h}}
  <2>1. <<m, h>> \in {q \in b.reverse : q[2] = h}
    BY <1>1, <1>2
  <2> QED
    BY <2>1
<1>3. ASSUME m \in {p[1] : p \in {q \in b.reverse : q[2] = h}}
      PROVE  m \in DOMAIN b.forward /\ b.forward[m] = h
  BY <1>1, <1>3
<1> QED
  BY <1>2, <1>3

LEMMA MinOfTwo ==
  ASSUME NEW a \in Int, NEW b \in Int
  PROVE  Min({a, b}) \in {a, b} /\ Min({a, b}) <= a /\ Min({a, b}) <= b
<1>1. \E x \in {a, b} : \A y \in {a, b} : x <= y
  <2>1. CASE a <= b
    BY <2>1
  <2>2. CASE ~(a <= b)
    BY <2>2
  <2> QED
    BY <2>1, <2>2
<1> QED
  BY <1>1 DEF Min

-----------------------------------------------------------------------------
(* The inductive invariant *)

Typed ==
  /\ next_bar \in Nat
  /\ position \in Int
  /\ liquidity \in [capacity : Int, consumed : Int]

IInv ==
  /\ Typed
  /\ LiveInv(book, placed, filled, next_order_sequence)
  /\ ExpiredBeforeMatching

LEMMA InitInv == ASSUME Init PROVE IInv
BY EmptyLive DEF Init, IInv, Typed, ExpiredBeforeMatching

BookSteps == LiveInv(book, placed, filled, next_order_sequence)' /\ ExpiredBeforeMatching'

\* A step of the book that only loses orders, within a bar or to its end.
LEMMA ShrunkStep ==
  ASSUME IInv, Shrunk(book, book', {}),
         UNCHANGED <<next_order_sequence, placed, filled>>,
         phase' = "idle" \/ (phase # "idle" /\ next_bar' = next_bar)
  PROVE  BookSteps
<1>1. LiveInv(book, placed, filled, next_order_sequence)'
  BY ShrunkKeeps DEF IInv
<1>2. ExpiredBeforeMatching'
  BY DEF IInv, ExpiredBeforeMatching, Shrunk, SameOrder
<1> QED
  BY <1>1, <1>2 DEF BookSteps

LEMMA RequestedTyped ==
  ASSUME Typed, NEW o, OrderTyped(o)
  PROVE  /\ Requested(o) \in Int /\ FillQty(o) \in Int /\ FillQty(o) <= Requested(o)
         /\ o.reduce_only => Requested(o) <= Abs(position)
<1>1. Abs(position) \in Int /\ Available \in Int
  BY DEF Typed, Abs, Available
<1>2. Requested(o) \in Int /\ (o.reduce_only => Requested(o) <= Abs(position))
  BY <1>1, MinOfTwo DEF Requested, OrderTyped
<1>3. FillQty(o) \in Int /\ FillQty(o) <= Requested(o)
  BY <1>1, <1>2, MinOfTwo DEF FillQty
<1> QED
  BY <1>2, <1>3

\* insert_order into what is left of the book of a bar's commands.
LEMMA InsertStep ==
  ASSUME IInv, phase # "idle", UNCHANGED <<next_bar, filled>>,
         NEW b, Shrunk(book, b, {}),
         NEW c \in Commands, c.action \in {"PLACE", "REPLACE"},
         NEW ids, NEW names, \A m : m >= 0 => (m \in ids <=> m \in names),
         InsertOrder(b, c, ids, names)
  PROVE  BookSteps
<1> DEFINE n == next_order_sequence
           o == BuildOrder(c)
<1>1. LiveInv(b, placed, filled, n)
  BY ShrunkKeeps DEF IInv
<1>2. OrderTyped(o) /\ o.active = (o.activation = Immediate)
  BY LifecycleAssumption DEF BuildOrder, OrderTyped, OrderFields
<1>3. \A h \in DOMAIN b.orders :
        b.orders[h].expires \in 0..next_bar => placed[h].bar = next_bar
  BY DEF IInv, ExpiredBeforeMatching, Shrunk, SameOrder
<1> HIDE DEF o
<1>4. CASE book' = b /\ UNCHANGED <<next_order_sequence, placed>>
  BY <1>1, <1>3, <1>4 DEF BookSteps, ExpiredBeforeMatching
<1>5. CASE book' = b /\ next_order_sequence' = n + 1 /\ UNCHANGED placed
  BY <1>1, <1>3, <1>5, DrawnKeeps DEF BookSteps, ExpiredBeforeMatching
<1>6. CASE /\ next_order_sequence' = n + 1
           /\ book' = Inserted(b, n, o, ids)
           /\ placed' = With(placed, n, [order |-> o, names |-> names, bar |-> next_bar])
  <2>1. LiveInv(book', placed', filled', next_order_sequence')
    BY <1>1, <1>2, <1>6, InsertedKeeps
  <2>2. /\ n \notin DOMAIN b.orders /\ BookInv(b)
        /\ \A h \in DOMAIN b.orders : h \in DOMAIN placed
    BY <1>1 DEF LiveInv, HistoryHolds
  <2>3. /\ DOMAIN book'.orders = {n} \cup DOMAIN b.orders
        /\ \A g \in DOMAIN b.orders : book'.orders[g] = b.orders[g]
    BY <1>2, <1>6, <2>2, InsertedInv
  <2>4. placed'[n].bar = next_bar /\ \A h \in DOMAIN b.orders : placed'[h] = placed[h]
    BY <1>6, <2>2 DEF With
  <2>5. ExpiredBeforeMatching'
    BY <1>3, <2>3, <2>4 DEF ExpiredBeforeMatching
  <2> QED
    BY <2>1, <2>5 DEF BookSteps
<1> QED
  BY <1>4, <1>5, <1>6 DEF InsertOrder, o

\* The orders a replacement takes over from its target h answer to the same
\* ids in the aliases and in the history.
LEMMA NamesPassedOn ==
  ASSUME IInv, NEW h \in DOMAIN book.orders, NEW c, NEW m, m >= 0
  PROVE  m \in IdsPassedOn(h, c) <=> m \in NamesLeft(h) \cup {c.target, c.id}
<1>1. BookInv(book) /\ NamesHold(book, placed)
  BY DEF IInv, LiveInv
<1>2. m \in {p[1] : p \in {q \in book.reverse : q[2] = h}}
        <=> m \in DOMAIN book.forward /\ book.forward[m] = h
  BY <1>1, AliasFound
<1>3. h \in Nat /\ \A later \in DOMAIN placed : later \in Nat
  BY DEF IInv, LiveInv, HistoryHolds
<1>4. ASSUME m \in DOMAIN book.forward, book.forward[m] = h PROVE m \in NamesLeft(h)
  BY <1>1, <1>3, <1>4 DEF NamesHold, NamesLeft
<1>5. ASSUME m \in NamesLeft(h) PROVE m \in DOMAIN book.forward /\ book.forward[m] = h
  BY <1>1, <1>5 DEF NamesHold, NamesLeft
<1> QED
  BY <1>2, <1>4, <1>5 DEF IdsPassedOn

LEMMA FillStep ==
  ASSUME IInv, Fill
  PROVE  BookSteps /\ Typed'
<1> DEFINE h    == Candidate
           o    == book.orders[h]
           kids == WakenedBy(book, o.id)
           b1   == Activated(book, kids)
           gone == SiblingsOf(b1, o.oco, o.id)
           b2   == Released(b1, gone)
           b3   == AfterFill(b2, h, o)
<1>1. /\ h \in DOMAIN book.orders /\ o.active /\ Fillable(o)
      /\ book' = b3
      /\ position' = position + o.side * FillQty(o)
      /\ liquidity' = [liquidity EXCEPT !.consumed = @ + FillQty(o)]
      /\ filled' = Recorded(h, o)
      /\ UNCHANGED <<next_order_sequence, next_bar, phase, placed>>
  BY DEF Fill, Eligible
<1>2. BookInv(book) /\ OrderTyped(o) /\ Typed
  BY <1>1 DEF IInv, LiveInv, BookInv
<1>3. FillQty(o) \in Int
  BY <1>2, RequestedTyped
<1>4. Typed'
  <2>1. next_bar' \in Nat
    BY <1>1, <1>2 DEF Typed
  <2>2. position' \in Int
    BY <1>1, <1>2, <1>3 DEF Typed, OrderTyped
  <2>3. liquidity' \in [capacity : Int, consumed : Int]
    BY <1>1, <1>2, <1>3 DEF Typed
  <2> QED
    BY <2>1, <2>2, <2>3 DEF Typed
<1>5. \A k \in kids : k \in DOMAIN book.orders /\ book.orders[k].parent = o.id
  BY DEF WakenedBy
<1>6. Shrunk(book, b1, kids) /\ BookInv(b1) /\ DOMAIN b1.orders = DOMAIN book.orders
  BY <1>2, <1>5, ActivatedShrunk, ActivatedInv, ZenonT(30)
<1>7. Shrunk(b1, b2, {}) /\ BookInv(b2) /\ DOMAIN b2.orders = DOMAIN b1.orders \ gone
  <2> HIDE DEF b1, gone
  <2> QED
    BY <1>6, ReleasedShrunk, ReleasedInv
<1>8. h \notin gone
  BY <1>6 DEF SiblingsOf, Shrunk, SameOrder
<1>9. Shrunk(b2, b3, {}) /\ DOMAIN b3.orders \subseteq DOMAIN b2.orders
  <2> HIDE DEF b2
  <2>1. CASE IsPartial(o) /\ o.tif # "IOC"
    <3>1. b3 = [b2 EXCEPT !.orders[h].qty = b2.orders[h].qty - FillQty(o)]
      BY <2>1 DEF AfterFill
    <3>2. h \in DOMAIN b2.orders
      BY <1>1, <1>6, <1>7, <1>8
    <3>3. b2.orders[h].qty - FillQty(o) \in Int
      BY <1>3, <1>7, <3>2 DEF BookInv, OrderTyped
    <3> HIDE DEF h, o, b3
    <3>4. Shrunk(b2, b3, {})
      BY <1>7, <3>1, <3>2, <3>3, QuantityShrunk
    <3> QED
      BY <3>4 DEF Shrunk
  <2>2. CASE ~(IsPartial(o) /\ o.tif # "IOC")
    <3>1. b3 = Released(b2, {h})
      BY <2>2 DEF AfterFill
    <3>2. Shrunk(b2, b3, {})
      BY <1>7, <3>1, ReleasedShrunk
    <3> QED
      BY <3>2 DEF Shrunk
  <2> QED
    BY <2>1, <2>2
<1> HIDE DEF b3
<1>10. Shrunk(book, b3, kids)
  <2>1. Shrunk(book, b2, kids)
    <3> HIDE DEF b1, b2, kids
    <3> QED
      BY <1>6, <1>7, ShrunkTwice
  <2> HIDE DEF b2, kids
  <2> QED
    BY <1>9, <2>1, ShrunkTwice
<1>11. /\ \A g \in DOMAIN book.orders : g \in DOMAIN placed /\ SameOrder(book.orders[g], placed[g].order)
       /\ LiveInv(book, placed, filled, next_order_sequence)
  BY DEF IInv, LiveInv, HistoryHolds
<1>12. \A g \in DOMAIN b3.orders : ~Siblings(h, g, placed)
  <2> SUFFICES ASSUME NEW g \in DOMAIN b3.orders, Siblings(h, g, placed) PROVE FALSE
    OBVIOUS
  <2>1. g \in DOMAIN b2.orders /\ g \in DOMAIN b1.orders /\ g \in DOMAIN book.orders /\ g \notin gone
    <3> HIDE DEF b2, gone
    <3> QED
      BY <1>6, <1>7, <1>9
  <2>2. SameOrder(b1.orders[g], placed[g].order) /\ SameOrder(o, placed[h].order)
    <3>1. SameOrder(b1.orders[g], book.orders[g])
      BY <1>6, <2>1 DEF Shrunk
    <3> QED
      BY <1>1, <1>11, <2>1, <3>1 DEF SameOrder
  <2> HIDE DEF b1
  <2>3. o.oco >= 0 /\ b1.orders[g].oco = o.oco /\ b1.orders[g].id # o.id
    BY <2>2 DEF Siblings, SameOrder
  <2>4. g \in gone
    BY <1>6, <2>1, <2>3, SiblingFound
  <2> QED
    BY <2>1, <2>4
<1>13. LiveInv(book, placed, filled, next_order_sequence)'
  <2> DEFINE first == IF h \in DOMAIN filled THEN filled[h].first ELSE next_order_sequence
  <2>1. filled' = With(filled, h, [first |-> first, last |-> next_order_sequence,
                                   full |-> ~IsPartial(o)])
    BY <1>1 DEF Recorded
  <2> HIDE DEF first, h, kids, b3
  <2>2. LiveInv(b3, placed, With(filled, h, [first |-> first, last |-> next_order_sequence,
                                             full |-> ~IsPartial(o)]), next_order_sequence)
    BY <1>1, <1>5, <1>10, <1>11, <1>12, FilledKeeps
  <2> QED
    BY <1>1, <2>1, <2>2
<1>14. ExpiredBeforeMatching'
  <2> HIDE DEF kids
  <2> QED
    BY <1>1, <1>10 DEF IInv, ExpiredBeforeMatching, Shrunk, SameOrder
<1> QED
  BY <1>4, <1>13, <1>14 DEF BookSteps

LEMMA UnfilledStep ==
  ASSUME IInv, NEW b, Shrunk(book, b, {}), phase # "idle", Unfilled(b)
  PROVE  IInv'
<1>1. BookSteps
  <2>1. /\ Shrunk(book, book', {}) /\ phase # "idle"
        /\ UNCHANGED <<next_order_sequence, next_bar, phase, placed, filled>>
    BY DEF Unfilled, history
  <2> QED
    BY <2>1, ShrunkStep
<1>2. Typed'
  BY DEF Unfilled, IInv, Typed
<1> QED
  BY <1>1, <1>2 DEF BookSteps, IInv

LEMMA NextInv == ASSUME IInv, [Next]_vars PROVE IInv'
<1>1. BookInv(book) /\ Typed
  BY DEF IInv, LiveInv
<1>2. Shrunk(book, book, {}) /\ \A S : Shrunk(book, Released(book, S), {})
  BY <1>1, SameShrunk, ReleasedShrunk
<1>3. CASE StepLiquidated
  <2>1. BookSteps
    BY <1>2, <1>3, ShrunkStep DEF StepLiquidated, CanStep, history
  <2>2. Typed'
    BY <1>1, <1>3 DEF StepLiquidated, Typed, matching
  <2> QED
    BY <2>1, <2>2 DEF IInv, BookSteps
<1>4. CASE LiquidatedAtOpen
  <2>1. BookSteps
    BY <1>2, <1>4, ShrunkStep DEF LiquidatedAtOpen, CanStep, history
  <2>2. Typed'
    BY <1>1, <1>4 DEF LiquidatedAtOpen, Liquidate, Typed, matching
  <2> QED
    BY <2>1, <2>2 DEF IInv, BookSteps
<1>5. CASE OpenBar
  <2> DEFINE due == DueExpiry(book, next_bar)
  <2>1. /\ book' = Released(book, due)
        /\ UNCHANGED <<next_order_sequence, next_bar, placed, filled>>
    BY <1>5 DEF OpenBar, history
  <2>2. LiveInv(book, placed, filled, next_order_sequence)'
    BY <1>2, <2>1, ShrunkKeeps DEF IInv
  <2>3. \A h \in DOMAIN book.orders : book.orders[h].expires \in 0..next_bar => h \in due
    BY <1>1, DueFound DEF Typed
  <2> HIDE DEF due
  <2>4. DOMAIN book'.orders = DOMAIN book.orders \ due
    BY <1>1, <2>1, ReleasedShrunk
  <2>5. \A h \in DOMAIN book'.orders :
          h \in DOMAIN book.orders /\ book'.orders[h].expires = book.orders[h].expires
    BY <1>2, <2>1 DEF Shrunk, SameOrder
  <2>6. ExpiredBeforeMatching'
    BY <2>1, <2>3, <2>4, <2>5 DEF ExpiredBeforeMatching
  <2>7. Typed'
    BY <1>1, <1>5 DEF OpenBar, Typed, matching
  <2> QED
    BY <2>2, <2>6, <2>7 DEF IInv
<1>6. ASSUME NEW c \in Command("PLACE"), Place(c) PROVE IInv'
  <2>1. /\ c \in Commands /\ c.action = "PLACE" /\ phase # "idle"
        /\ UNCHANGED <<next_bar, phase, filled, position, liquidity>>
    BY <1>6 DEF Command, Place, Sent, matching
  <2>2. ASSUME ValidOrder(c) PROVE BookSteps
    BY <1>2, <1>6, <2>1, <2>2, InsertStep DEF Place
  <2>3. ASSUME ~ValidOrder(c) PROVE BookSteps
    BY <1>2, <1>6, <2>1, <2>3, ShrunkStep DEF Place
  <2>4. Typed'
    BY <1>1, <2>1 DEF Typed
  <2> QED
    BY <2>2, <2>3, <2>4 DEF IInv, BookSteps
<1>7. ASSUME NEW c \in Command("CANCEL"), Cancel(c) PROVE IInv'
  <2>1. /\ phase # "idle" /\ Shrunk(book, book', {})
        /\ UNCHANGED <<next_bar, phase, filled, placed, next_order_sequence, position, liquidity>>
    BY <1>2, <1>7 DEF Command, Cancel, Sent, matching
  <2>2. BookSteps /\ Typed'
    BY <1>1, <2>1, ShrunkStep DEF Typed
  <2> QED
    BY <2>2 DEF IInv, BookSteps
<1>8. ASSUME NEW c \in Command("AMEND"), Amend(c) PROVE IInv'
  <2>1. /\ phase # "idle" /\ c \in Commands
        /\ UNCHANGED <<next_bar, phase, filled, placed, next_order_sequence, position, liquidity>>
    BY <1>8 DEF Command, Amend, Sent, matching
  <2>2. Shrunk(book, book', {})
    <3>1. c.qty \in Int
      BY <2>1, LifecycleAssumption
    <3>2. CASE Resolves(book, c.target) /\ c.qty > 0
      <4>1. /\ book.forward[c.target] \in DOMAIN book.orders
            /\ book' = [book EXCEPT !.orders[book.forward[c.target]].qty = c.qty]
        BY <1>8, <3>2 DEF Amend, Resolves
      <4> QED
        BY <1>1, <3>1, <4>1, QuantityShrunk
    <3>3. CASE ~(Resolves(book, c.target) /\ c.qty > 0)
      BY <1>2, <1>8, <3>3 DEF Amend
    <3> QED
      BY <3>2, <3>3
  <2>3. BookSteps /\ Typed'
    BY <1>1, <2>1, <2>2, ShrunkStep DEF Typed
  <2> QED
    BY <2>3 DEF IInv, BookSteps
<1>9. ASSUME NEW c \in Command("REPLACE"), Replace(c) PROVE IInv'
  <2>1. /\ c \in Commands /\ c.action = "REPLACE" /\ phase # "idle"
        /\ UNCHANGED <<next_bar, phase, filled, position, liquidity>>
    BY <1>9 DEF Command, Replace, Sent, matching
  <2> DEFINE h == book.forward[c.target]
  <2>2. ASSUME ~Resolves(book, c.target) PROVE BookSteps
    BY <1>2, <1>9, <2>1, <2>2, ShrunkStep DEF Replace
  <2>3. ASSUME Resolves(book, c.target), ~ValidOrder(c) PROVE BookSteps
    BY <1>2, <1>9, <2>1, <2>3, ShrunkStep DEF Replace
  <2>4. ASSUME Resolves(book, c.target), ValidOrder(c) PROVE BookSteps
    <3> DEFINE ids   == IdsPassedOn(h, c)
               names == NamesLeft(h) \cup {c.target, c.id}
    <3>1. InsertOrder(Released(book, {h}), c, ids, names)
      BY <1>9, <2>4 DEF Replace
    <3>2. \A m : m >= 0 => (m \in ids <=> m \in names)
      BY <2>4, NamesPassedOn DEF Resolves
    <3>3. Shrunk(book, Released(book, {h}), {})
      BY <1>2
    <3> HIDE DEF h, ids, names
    <3> QED
      BY <2>1, <3>1, <3>2, <3>3, InsertStep
  <2>5. Typed'
    BY <1>1, <2>1 DEF Typed
  <2> QED
    BY <2>2, <2>3, <2>4, <2>5 DEF IInv, BookSteps
<1>10. ASSUME NEW c \in Command("CANCEL_ALL"), CancelAll(c) PROVE IInv'
  <2>1. /\ phase # "idle"
        /\ UNCHANGED <<next_bar, phase, filled, placed, next_order_sequence, position, liquidity>>
    BY <1>10 DEF Command, CancelAll, Sent, matching
  <2>2. Shrunk(book, book', {})
    <3> DEFINE S == {h \in book.live :
                       LET o == book.orders[h] IN
                       /\ c.side \in {0, o.side}
                       /\ c.parent < 0 \/ c.parent = o.parent
                       /\ c.oco < 0 \/ c.oco = o.oco}
    <3>1. book' = Released(book, S)
      BY <1>10 DEF CancelAll
    <3> HIDE DEF S
    <3> QED
      BY <1>2, <3>1
  <2>3. BookSteps /\ Typed'
    BY <1>1, <2>1, <2>2, ShrunkStep DEF Typed
  <2> QED
    BY <2>3 DEF IInv, BookSteps
<1>11. CASE BeginMatching
  <2>1. BookSteps
    BY <1>2, <1>11, ShrunkStep DEF BeginMatching, history
  <2>2. Typed'
    BY <1>1, <1>11, LifecycleAssumption DEF BeginMatching, Typed
  <2> QED
    BY <2>1, <2>2 DEF IInv, BookSteps
<1>12. CASE SkipStale
  <2>1. BookSteps
    BY <1>2, <1>12, ShrunkStep DEF SkipStale, Matching, history
  <2>2. Typed'
    BY <1>1, <1>12 DEF SkipStale, Typed
  <2> QED
    BY <2>1, <2>2 DEF IInv, BookSteps
<1>13. CASE NoFill
  <2>1. PICK b : Unfilled(b) /\ (b = book \/ b = Released(book, {Candidate}))
    BY <1>13 DEF NoFill
  <2>2. phase # "idle" /\ Shrunk(book, b, {})
    BY <1>2, <1>13, <2>1 DEF NoFill, Eligible, Matching
  <2> QED
    BY <2>1, <2>2, UnfilledStep
<1>14. CASE CancelReduceOnly \/ KillPartial \/ RejectMargin
  <2>1. Unfilled(Released(book, {Candidate})) /\ phase # "idle"
    BY <1>14 DEF CancelReduceOnly, KillPartial, RejectMargin, Eligible, Matching
  <2> QED
    BY <1>2, <2>1, UnfilledStep
<1>15. CASE Fill
  BY <1>15, FillStep DEF IInv, BookSteps
<1>16. CASE FailStep
  <2>1. BookSteps
    BY <1>2, <1>16, ShrunkStep DEF FailStep, history
  <2>2. Typed'
    BY <1>1, <1>16 DEF FailStep, NoMatching, Typed
  <2> QED
    BY <2>1, <2>2 DEF IInv, BookSteps
<1>17. CASE EndBar
  <2>1. BookSteps
    BY <1>2, <1>17, ShrunkStep DEF EndBar, history
  <2>2. Typed'
    BY <1>1, <1>17 DEF EndBar, NoMatching, Liquidate, Typed
  <2> QED
    BY <2>1, <2>2 DEF IInv, BookSteps
<1>18. CASE Reset
  <2>1. LiveInv(book, placed, filled, next_order_sequence)'
    BY <1>18, EmptyLive DEF Reset
  <2>2. Typed' /\ ExpiredBeforeMatching'
    BY <1>18 DEF Reset, NoMatching, Typed, ExpiredBeforeMatching
  <2> QED
    BY <2>1, <2>2 DEF IInv
<1>19. CASE UNCHANGED vars
  <2>1. UNCHANGED <<book, placed, filled, next_order_sequence, next_bar, phase, position, liquidity>>
    BY <1>19 DEF vars
  <2> QED
    BY <2>1 DEF IInv, Typed, ExpiredBeforeMatching
<1> QED
  BY <1>3, <1>4, <1>5, <1>6, <1>7, <1>8, <1>9, <1>10, <1>11, <1>12, <1>13, <1>14,
     <1>15, <1>16, <1>17, <1>18, <1>19 DEF Next

\* Every reachable state satisfies the inductive invariant.
THEOREM InvariantTheorem == Spec => []IInv
<1>1. Init => IInv
  BY InitInv
<1>2. IInv /\ [Next]_vars => IInv'
  BY NextInv
<1> QED
  BY <1>1, <1>2, PTL DEF Spec

-----------------------------------------------------------------------------
(* The properties *)

\* After any sequence of commands, fills, failures and resets every lifecycle
\* index holds exactly what a rebuild from the arena's live orders would give.
THEOREM IndexesAgreeTheorem == Spec => []IndexesAgree
<1>1. IInv => IndexesAgree
  <2> SUFFICES ASSUME IInv PROVE IndexesAgree
    OBVIOUS
  <2> DEFINE orders == book.orders
  <2>1. IndexesHold(book)
    BY DEF IInv, LiveInv, BookInv
  <2>2. book.expiry = UNION {KeyedBy(orders[h].expires, h) : h \in DOMAIN orders}
    <3>1. DOMAIN ExpiryOf(orders) = DOMAIN orders
            /\ \A h \in DOMAIN orders : ExpiryOf(orders)[h] = orders[h].expires
      BY DEF ExpiryOf
    <3>2. Pairs(ExpiryOf(orders))
            = UNION {KeyedBy(ExpiryOf(orders)[h], h) : h \in DOMAIN ExpiryOf(orders)}
      BY PairsAreKeyed
    <3> QED
      BY <2>1, <3>1, <3>2 DEF IndexesHold
  <2>3. book.children = UNION {KeyedBy(orders[h].parent, h) : h \in DOMAIN orders}
    <3>1. DOMAIN ParentOf(orders) = DOMAIN orders
            /\ \A h \in DOMAIN orders : ParentOf(orders)[h] = orders[h].parent
      BY DEF ParentOf
    <3>2. Pairs(ParentOf(orders))
            = UNION {KeyedBy(ParentOf(orders)[h], h) : h \in DOMAIN ParentOf(orders)}
      BY PairsAreKeyed
    <3> QED
      BY <2>1, <3>1, <3>2 DEF IndexesHold
  <2>4. book.oco = UNION {KeyedBy(orders[h].oco, h) : h \in DOMAIN orders}
    <3>1. DOMAIN OcoOf(orders) = DOMAIN orders
            /\ \A h \in DOMAIN orders : OcoOf(orders)[h] = orders[h].oco
      BY DEF OcoOf
    <3>2. Pairs(OcoOf(orders))
            = UNION {KeyedBy(OcoOf(orders)[h], h) : h \in DOMAIN OcoOf(orders)}
      BY PairsAreKeyed
    <3> QED
      BY <2>1, <3>1, <3>2 DEF IndexesHold
  <2>5. /\ book.states = [h \in DOMAIN orders |-> IndexState(orders[h])]
        /\ book.live = DOMAIN orders
        /\ book.active = {h \in DOMAIN orders : orders[h].active}
    BY <2>1 DEF IndexesHold, StatesOf, ActiveOf
  <2> QED
    BY <2>2, <2>3, <2>4, <2>5 DEF IndexesAgree
<1> QED
  BY <1>1, InvariantTheorem, PTL

\* The two directions of the alias index agree and name live orders only.
THEOREM AliasesAgreeTheorem == Spec => []AliasesAgree
<1>1. IInv => AliasesAgree
  BY DEF IInv, LiveInv, BookInv, AliasesHold, AliasesAgree
<1> QED
  BY <1>1, InvariantTheorem, PTL

\* Through any chain of replacements an id leads to the newest order it was
\* given to.
THEOREM NewestOrderAnswersTheorem == Spec => []NewestOrderAnswers
<1>1. IInv => NewestOrderAnswers
  BY DEF IInv, LiveInv, NamesHold, NewestOrderAnswers
<1> QED
  BY <1>1, InvariantTheorem, PTL

\* Siblings of one OCO group that were alive together never both fill.
THEOREM OcoSiblingsExclusiveTheorem == Spec => []OcoSiblingsExclusive
<1>1. IInv => OcoSiblingsExclusive
  BY DEF IInv, LiveInv, SiblingsHold, Siblings, OcoSiblingsExclusive
<1> QED
  BY <1>1, InvariantTheorem, PTL

\* A child fills only after an order with its parent's id has, since the child
\* was placed.
THEOREM ChildFillsAfterParentTheorem == Spec => []ChildFillsAfterParent
<1>1. IInv => ChildFillsAfterParent
  BY DEF IInv, LiveInv, ChildrenHold, ParentFilled, ChildFillsAfterParent
<1> QED
  BY <1>1, InvariantTheorem, PTL

\* Nothing older than the bar fills at or after its expiry.
THEOREM ExpiredBeforeMatchingTheorem == Spec => []ExpiredBeforeMatching
<1>1. IInv => ExpiredBeforeMatching
  BY DEF IInv
<1> QED
  BY <1>1, InvariantTheorem, PTL

LEMMA ProductOfOneSign ==
  ASSUME NEW a \in Int, NEW b \in Int, (a >= 0 /\ b >= 0) \/ (a <= 0 /\ b <= 0)
  PROVE  a * b >= 0
OBVIOUS

LEMMA ReduceStep ==
  ASSUME IInv, [Next]_vars, phase = "matching", filled' # filled,
         book.orders[Candidate].reduce_only
  PROVE  Abs(position') < Abs(position) /\ position * position' >= 0
<1>1. Fill
  BY DEF Next, vars, StepLiquidated, LiquidatedAtOpen, OpenBar, CanStep, Command, Place, Cancel,
         Amend, Replace, CancelAll, BeginMatching, SkipStale, NoFill, CancelReduceOnly, KillPartial,
         RejectMargin, Unfilled, FailStep, EndBar, Reset, history
<1> DEFINE o == book.orders[Candidate]
           q == FillQty(o)
<1>2. /\ o.reduce_only /\ Fillable(o) /\ Candidate \in DOMAIN book.orders
      /\ position' = position + o.side * q
  BY <1>1 DEF Fill, Eligible
<1>3. OrderTyped(o) /\ Typed
  BY <1>2 DEF IInv, LiveInv, BookInv
<1>4. /\ position \in Int /\ o.side \in {-1, 1} /\ q \in Int /\ q > 0 /\ q <= Abs(position)
      /\ position # 0 /\ ~(position * o.side > 0)
  <2>1. position \in Int /\ o.side \in {-1, 1}
    BY <1>3 DEF Typed, OrderTyped
  <2>2. q \in Int /\ q <= Requested(o) /\ Requested(o) \in Int /\ Requested(o) <= Abs(position)
    BY <1>2, <1>3, RequestedTyped
  <2>3. q > 0 /\ position # 0 /\ ~(position * o.side > 0)
    BY <1>2 DEF Fillable, NothingToReduce
  <2>4. Abs(position) \in Int
    BY <2>1 DEF Abs
  <2> QED
    BY <2>1, <2>2, <2>3, <2>4
<1> DEFINE side == o.side
<1> HIDE DEF q, side
<1>5. position' = position + side * q
  BY <1>2 DEF side
<1>6. CASE side = 1
  <2>1. position < 0 /\ position' = position + q /\ q <= -position
    BY <1>4, <1>5, <1>6 DEF Abs, side
  <2>2. position' \in Int /\ position' <= 0 /\ position < 0
    BY <1>4, <2>1
  <2>3. position * position' >= 0
    <3>1. \A a, b \in Int : (a >= 0 /\ b >= 0) \/ (a <= 0 /\ b <= 0) => a * b >= 0
      BY ProductOfOneSign
    <3>2. /\ position \in Int /\ position' \in Int
          /\ (position >= 0 /\ position' >= 0) \/ (position <= 0 /\ position' <= 0)
      BY <1>4, <2>2
    <3> QED
      BY <3>1, <3>2, Zenon
  <2> QED
    BY <1>4, <2>1, <2>2, <2>3 DEF Abs
<1>7. CASE side = -1
  <2>1. position > 0 /\ position' = position - q /\ q <= position
    BY <1>4, <1>5, <1>7 DEF Abs, side
  <2>2. position' \in Int /\ position' >= 0 /\ position > 0
    BY <1>4, <2>1
  <2>3. position * position' >= 0
    <3>1. \A a, b \in Int : (a >= 0 /\ b >= 0) \/ (a <= 0 /\ b <= 0) => a * b >= 0
      BY ProductOfOneSign
    <3>2. /\ position \in Int /\ position' \in Int
          /\ (position >= 0 /\ position' >= 0) \/ (position <= 0 /\ position' <= 0)
      BY <1>4, <2>2
    <3> QED
      BY <3>1, <3>2, Zenon
  <2> QED
    BY <1>4, <2>1, <2>2, <2>3 DEF Abs
<1> QED
  BY <1>4, <1>6, <1>7 DEF side

\* A reduce-only fill brings the position closer to zero, never through it.
THEOREM ReduceOnlyReducesTheorem == Spec => ReduceOnlyReduces
<1>1. IInv /\ [Next]_vars =>
        [ phase = "matching" /\ filled' # filled /\ book.orders[Candidate].reduce_only
            => Abs(position') < Abs(position) /\ position * position' >= 0 ]_vars
  BY ReduceStep
<1> QED
  BY <1>1, InvariantTheorem, PTL DEF Spec, ReduceOnlyReduces

-----------------------------------------------------------------------------
(* What orders were asked to trade: qn is quantity, pl is placed *)

\* QuantitiesAccounted, and what it rests on: a live fill-or-kill order has
\* not traded yet.
Accounts(b, pl, qn) ==
  /\ qn \in [DOMAIN pl -> [asked : Int, traded : Nat]]
  /\ \A h \in DOMAIN pl :
       /\ qn[h].traded <= qn[h].asked
       /\ pl[h].order.tif = "FOK" /\ ~pl[h].order.reduce_only =>
            qn[h].traded \in {0, qn[h].asked}
  /\ \A h \in DOMAIN b.orders :
       /\ b.orders[h].qty = qn[h].asked - qn[h].traded
       /\ pl[h].order.tif = "FOK" => qn[h].traded = 0

Accounted == Accounts(book, placed, quantity)

\* r holds orders of b, with their quantities.
Kept(b, r) ==
  /\ DOMAIN r.orders \subseteq DOMAIN b.orders
  /\ \A h \in DOMAIN r.orders : r.orders[h].qty = b.orders[h].qty

LEMMA KeptAccounts ==
  ASSUME NEW b, NEW r, NEW pl, NEW qn, Accounts(b, pl, qn), Kept(b, r)
  PROVE  Accounts(r, pl, qn)
BY DEF Accounts, Kept

LEMMA ReleasedKept ==
  ASSUME NEW b, BookInv(b), NEW S
  PROVE  Kept(b, Released(b, S))
<1> DEFINE r == Released(b, S)
<1>1. r.orders = [h \in DOMAIN b.orders \ S |-> b.orders[h]]
  BY ReleasedInv
<1> HIDE DEF r
<1>2. Kept(b, r)
  BY <1>1 DEF Kept
<1> QED
  BY <1>2 DEF r

LEMMA ActivatedKept ==
  ASSUME NEW b, BookInv(b), NEW S, S \subseteq DOMAIN b.orders
  PROVE  Kept(b, Activated(b, S)) /\ DOMAIN Activated(b, S).orders = DOMAIN b.orders
<1> DEFINE r == Activated(b, S)
<1>1. /\ DOMAIN r.orders = DOMAIN b.orders
      /\ \A h \in DOMAIN b.orders :
           r.orders[h] = IF h \in S
                           THEN [b.orders[h] EXCEPT !.active = TRUE, !.waiting_parent = FALSE]
                           ELSE b.orders[h]
  BY ActivatedInv
<1> HIDE DEF r
<1>2. \A h \in DOMAIN b.orders : OrderTyped(b.orders[h])
  BY DEF BookInv
<1>3. Kept(b, r)
  BY <1>1, <1>2 DEF Kept, OrderTyped, OrderFields
<1> QED
  BY <1>1, <1>3 DEF r

\* A step that takes orders away and does no more.
LEMMA KeptStep ==
  ASSUME Accounted, Kept(book, book'), UNCHANGED <<placed, quantity>>
  PROVE  Accounted'
BY KeptAccounts DEF Accounted

\* insert_order into what is left of the book: a new order has traded nothing.
LEMMA InsertAccounts ==
  ASSUME IInv, Accounted, NEW b, BookInv(b), Kept(book, b),
         NEW c \in Commands, c.action \in {"PLACE", "REPLACE"}, ValidOrder(c),
         NEW ids, NEW names, InsertOrder(b, c, ids, names)
  PROVE  Accounted'
<1> DEFINE n == next_order_sequence
           o == BuildOrder(c)
           entry == [asked |-> c.qty, traded |-> 0]
<1>1. Accounts(b, placed, quantity)
  BY KeptAccounts DEF Accounted
<1>2. CASE book' = b /\ UNCHANGED <<placed, quantity>>
  BY <1>1, <1>2 DEF Accounted
<1>3. CASE /\ book' = Inserted(b, n, o, ids)
           /\ placed' = With(placed, n, [order |-> o, names |-> names, bar |-> next_bar])
           /\ quantity' = With(quantity, n, entry)
  <2>1. c.qty \in Int /\ c.qty > 0 /\ OrderTyped(o) /\ o.qty = c.qty
    BY LifecycleAssumption DEF ValidOrder, BuildOrder, OrderTyped, OrderFields
  <2>2. n \notin DOMAIN placed /\ n \notin DOMAIN b.orders /\ DOMAIN b.orders \subseteq DOMAIN placed
    BY DEF IInv, LiveInv, HistoryHolds, Kept
  <2>3. /\ DOMAIN book'.orders = {n} \cup DOMAIN b.orders
        /\ book'.orders[n] = o
        /\ \A g \in DOMAIN b.orders : book'.orders[g] = b.orders[g]
    BY <1>3, <2>1, <2>2, InsertedInv
  <2>4. /\ DOMAIN placed' = DOMAIN placed \cup {n}
        /\ \A g \in DOMAIN placed : placed'[g] = placed[g]
    BY <1>3, <2>2 DEF With
  <2>5. /\ quantity' \in [DOMAIN placed' -> [asked : Int, traded : Nat]]
        /\ quantity'[n] = entry
        /\ \A g \in DOMAIN placed : quantity'[g] = quantity[g]
    BY <1>1, <1>3, <2>1, <2>2, <2>4 DEF Accounts, With
  <2>6. \A h \in DOMAIN placed' :
          /\ quantity'[h].traded <= quantity'[h].asked
          /\ placed'[h].order.tif = "FOK" /\ ~placed'[h].order.reduce_only =>
               quantity'[h].traded \in {0, quantity'[h].asked}
    BY <1>1, <2>1, <2>4, <2>5 DEF Accounts
  <2>7. \A h \in DOMAIN book'.orders :
          /\ book'.orders[h].qty = quantity'[h].asked - quantity'[h].traded
          /\ placed'[h].order.tif = "FOK" => quantity'[h].traded = 0
    <3> HIDE DEF n, o
    <3> QED
      BY <1>1, <2>1, <2>2, <2>3, <2>4, <2>5 DEF Accounts
  <2> QED
    BY <2>5, <2>6, <2>7 DEF Accounted, Accounts
<1> QED
  BY <1>2, <1>3 DEF InsertOrder

LEMMA AmendAccounts ==
  ASSUME IInv, Accounted, NEW c \in Commands, Amend(c)
  PROVE  Accounted'
<1>1. CASE ~(Resolves(book, c.target) /\ c.qty > 0)
  <2>1. UNCHANGED <<book, placed, quantity>>
    BY <1>1 DEF Amend
  <2> QED
    BY <2>1 DEF Accounted
<1>2. CASE Resolves(book, c.target) /\ c.qty > 0
  <2> DEFINE h == book.forward[c.target]
             asked == quantity[h].traded + c.qty
             q == c.qty
  <2>1. /\ h \in DOMAIN book.orders /\ h \in DOMAIN placed
        /\ book' = [book EXCEPT !.orders[h].qty = q]
        /\ quantity' = [quantity EXCEPT ![h].asked = asked]
        /\ placed' = placed
    BY <1>2 DEF Amend, Resolves, IInv, LiveInv, HistoryHolds
  <2>2. q \in Int /\ q > 0
    BY <1>2, LifecycleAssumption
  <2>3. BookInv(book) /\ \A g \in DOMAIN book.orders : OrderTyped(book.orders[g])
    BY DEF IInv, LiveInv, BookInv
  <2>4. quantity \in [DOMAIN placed -> [asked : Int, traded : Nat]]
    BY DEF Accounted, Accounts
  <2>5. asked \in Int /\ asked - quantity[h].traded = q /\ quantity[h].traded <= asked
    BY <2>1, <2>2, <2>4
  <2> HIDE DEF h, q, asked
  <2>6. /\ DOMAIN book'.orders = DOMAIN book.orders
        /\ book'.orders[h].qty = q
        /\ \A g \in DOMAIN book.orders : g # h => book'.orders[g] = book.orders[g]
    BY <2>1, <2>2, <2>3, QuantityInv DEF OrderTyped, OrderFields
  <2>7. /\ quantity' \in [DOMAIN placed -> [asked : Int, traded : Nat]]
        /\ quantity'[h].asked = asked /\ quantity'[h].traded = quantity[h].traded
        /\ \A g \in DOMAIN placed : g # h => quantity'[g] = quantity[g]
    BY <2>1, <2>4, <2>5
  <2>8. placed[h].order.tif = "FOK" => quantity[h].traded = 0
    BY <2>1 DEF Accounted, Accounts
  <2>9. \A g \in DOMAIN placed :
          /\ quantity'[g].traded <= quantity'[g].asked
          /\ placed[g].order.tif = "FOK" /\ ~placed[g].order.reduce_only =>
               quantity'[g].traded \in {0, quantity'[g].asked}
    BY <2>5, <2>7, <2>8 DEF Accounted, Accounts
  <2>10. \A g \in DOMAIN book.orders :
           /\ book'.orders[g].qty = quantity'[g].asked - quantity'[g].traded
           /\ placed[g].order.tif = "FOK" => quantity'[g].traded = 0
    <3>1. DOMAIN book.orders \subseteq DOMAIN placed
      BY DEF IInv, LiveInv, HistoryHolds
    <3> QED
      BY <2>5, <2>6, <2>7, <2>8, <3>1 DEF Accounted, Accounts
  <2> QED
    BY <2>1, <2>6, <2>7, <2>9, <2>10 DEF Accounted, Accounts
<1> QED
  BY <1>1, <1>2

\* A fill trades what it takes off the order, and all of it when the order is
\* to be filled or killed and not bounded by the position.
LEMMA FillAccounts ==
  ASSUME IInv, Accounted, Fill
  PROVE  Accounted'
<1> DEFINE h    == Candidate
           o    == book.orders[h]
           kids == WakenedBy(book, o.id)
           b1   == Activated(book, kids)
           gone == SiblingsOf(b1, o.oco, o.id)
           b2   == Released(b1, gone)
           b3   == AfterFill(b2, h, o)
           q    == FillQty(o)
<1>1. /\ h \in DOMAIN book.orders /\ Fillable(o)
      /\ book' = b3
      /\ quantity' = [quantity EXCEPT ![h].traded = @ + q]
      /\ placed' = placed
  BY DEF Fill, Eligible
<1>2. BookInv(book) /\ OrderTyped(o) /\ Typed
  BY <1>1 DEF IInv, LiveInv, BookInv
<1>3. /\ q \in Int /\ q > 0 /\ q <= o.qty /\ o.qty \in Int
      /\ ~IsPartial(o) /\ ~o.reduce_only => q = o.qty
  <2>1. Abs(position) \in Int /\ o.qty \in Int
    BY <1>2 DEF Typed, Abs, OrderTyped
  <2>2. Requested(o) <= o.qty /\ (~o.reduce_only => Requested(o) = o.qty)
    BY <2>1, MinOfTwo DEF Requested
  <2>3. Requested(o) \in Int /\ q \in Int /\ q <= Requested(o) /\ q > 0
    BY <1>1, <1>2, RequestedTyped DEF Fillable
  <2> QED
    BY <2>1, <2>2, <2>3 DEF IsPartial
<1>4. kids \subseteq DOMAIN book.orders
  BY DEF WakenedBy
<1>5. Kept(book, b1) /\ BookInv(b1)
  BY <1>2, <1>4, ActivatedKept, ActivatedInv, ZenonT(30)
<1>6. Kept(b1, b2) /\ BookInv(b2)
  <2> HIDE DEF b1, gone
  <2> QED
    BY <1>5, ReleasedKept, ReleasedInv
<1>7. Kept(book, b2)
  <2> HIDE DEF b1, b2
  <2> QED
    BY <1>5, <1>6 DEF Kept
<1>8. /\ DOMAIN b3.orders \subseteq DOMAIN book.orders
      /\ \A g \in DOMAIN b3.orders : g # h => b3.orders[g].qty = book.orders[g].qty
      /\ h \in DOMAIN b3.orders => /\ b3.orders[h].qty = o.qty - q
                                   /\ IsPartial(o)
  <2>1. CASE IsPartial(o) /\ o.tif # "IOC" /\ h \in DOMAIN b2.orders
    <3>1. b3 = [b2 EXCEPT !.orders[h].qty = b2.orders[h].qty - q]
      BY <2>1 DEF AfterFill
    <3>2. b2.orders[h].qty = o.qty /\ OrderTyped(b2.orders[h])
      <4> HIDE DEF b2
      <4> QED
        BY <1>6, <1>7, <2>1 DEF Kept, BookInv
    <3> DEFINE left == b2.orders[h].qty - q
    <3>3. left \in Int /\ left = o.qty - q
      <4> HIDE DEF q, o, b2
      <4> QED
        BY <1>3, <3>2
    <3> HIDE DEF b2, b3, h, o, q, left
    <3>4. b3 = [b2 EXCEPT !.orders[h].qty = left]
      BY <3>1 DEF left
    <3>5. /\ DOMAIN b3.orders = DOMAIN b2.orders
          /\ \A g \in DOMAIN b2.orders :
               b3.orders[g] = IF g = h THEN [b2.orders[h] EXCEPT !.qty = left]
                              ELSE b2.orders[g]
      BY <1>6, <2>1, <3>3, <3>4, QuantityInv
    <3>6. b3.orders[h].qty = left
      BY <2>1, <3>2, <3>5 DEF OrderTyped, OrderFields
    <3> QED
      BY <1>7, <2>1, <3>3, <3>5, <3>6 DEF Kept
  <2>2. CASE IsPartial(o) /\ o.tif # "IOC" /\ h \notin DOMAIN b2.orders
    <3>1. h \notin gone /\ DOMAIN b1.orders = DOMAIN book.orders
      <4>1. /\ DOMAIN b1.orders = DOMAIN book.orders
            /\ b1.orders[h].id = o.id
        <5>1. Shrunk(book, b1, kids) /\ DOMAIN b1.orders = DOMAIN book.orders
          BY <1>2, <1>4, ActivatedShrunk, ActivatedInv, ZenonT(30)
        <5> HIDE DEF b1
        <5> QED
          BY <1>1, <5>1 DEF Shrunk, SameOrder
      <4> QED
        BY <4>1 DEF SiblingsOf
    <3>2. DOMAIN b2.orders = DOMAIN b1.orders \ gone
      <4> HIDE DEF b1, gone
      <4> QED
        BY <1>5, ReleasedShrunk
    <3> QED
      BY <1>1, <2>2, <3>1, <3>2
  <2>3. CASE ~(IsPartial(o) /\ o.tif # "IOC")
    <3>1. b3 = Released(b2, {h})
      BY <2>3 DEF AfterFill
    <3> HIDE DEF b2, h, b3
    <3>2. Kept(b2, b3) /\ h \notin DOMAIN b3.orders
      BY <1>6, <3>1, ReleasedKept, ReleasedShrunk
    <3> QED
      BY <1>7, <3>2 DEF Kept
  <2> QED
    BY <2>1, <2>2, <2>3
<1> HIDE DEF b3, kids
<1>9. /\ DOMAIN book.orders \subseteq DOMAIN placed
      /\ SameOrder(o, placed[h].order)
  BY <1>1 DEF IInv, LiveInv, HistoryHolds
<1>10. /\ quantity \in [DOMAIN placed -> [asked : Int, traded : Nat]]
       /\ o.qty = quantity[h].asked - quantity[h].traded
       /\ o.tif = "FOK" => quantity[h].traded = 0
  BY <1>1, <1>9 DEF Accounted, Accounts, SameOrder
<1>11. o.tif = "FOK" => ~IsPartial(o)
  BY <1>1 DEF Fillable
<1> DEFINE fok     == o.tif = "FOK"
           partial == IsPartial(o)
           reduces == o.reduce_only
           qty     == o.qty
<1> HIDE DEF h, q, o
<1>12. /\ quantity' \in [DOMAIN placed -> [asked : Int, traded : Nat]]
       /\ quantity'[h].asked = quantity[h].asked
       /\ quantity'[h].traded = quantity[h].traded + q
       /\ \A g \in DOMAIN placed : g # h => quantity'[g] = quantity[g]
  BY <1>1, <1>3, <1>9, <1>10
<1>13. /\ quantity'[h].traded <= quantity'[h].asked
       /\ placed[h].order.tif = "FOK" /\ ~placed[h].order.reduce_only =>
            quantity'[h].traded \in {0, quantity'[h].asked}
  <2>1. h \in DOMAIN placed
    BY <1>1, <1>9 DEF o
  <2>2. quantity[h].asked \in Int /\ quantity[h].traded \in Nat
    BY <1>10, <2>1
  <2>3. quantity'[h].traded <= quantity'[h].asked
    BY <1>3, <1>10, <1>12, <2>2
  <2>4. ASSUME o.tif = "FOK", ~o.reduce_only PROVE quantity'[h].traded = quantity'[h].asked
    BY <1>3, <1>10, <1>11, <1>12, <2>2, <2>4
  <2> QED
    BY <1>9, <2>3, <2>4 DEF SameOrder
<1>14. \A g \in DOMAIN placed :
         /\ quantity'[g].traded <= quantity'[g].asked
         /\ placed[g].order.tif = "FOK" /\ ~placed[g].order.reduce_only =>
              quantity'[g].traded \in {0, quantity'[g].asked}
  BY <1>12, <1>13 DEF Accounted, Accounts
<1>15. \A g \in DOMAIN book'.orders :
         /\ book'.orders[g].qty = quantity'[g].asked - quantity'[g].traded
         /\ placed[g].order.tif = "FOK" => quantity'[g].traded = 0
  <2> SUFFICES ASSUME NEW g \in DOMAIN b3.orders
               PROVE  /\ b3.orders[g].qty = quantity'[g].asked - quantity'[g].traded
                      /\ placed[g].order.tif = "FOK" => quantity'[g].traded = 0
    BY <1>1
  <2>1. CASE g # h
    BY <1>8, <1>9, <1>12, <2>1 DEF Accounted, Accounts
  <2>2. CASE g = h
    <3>1. b3.orders[h].qty = o.qty - q /\ placed[h].order.tif # "FOK"
      BY <1>8, <1>9, <1>11, <2>2 DEF SameOrder
    <3>2. quantity[h].asked \in Int /\ quantity[h].traded \in Nat
      BY <1>8, <1>9, <1>10, <2>2
    <3> QED
      BY <1>3, <1>10, <1>12, <2>2, <3>1, <3>2
  <2> QED
    BY <2>1, <2>2
<1> QED
  BY <1>1, <1>12, <1>14, <1>15 DEF Accounted, Accounts

LEMMA NextAccounted == ASSUME IInv, Accounted, [Next]_vars PROVE Accounted'
<1>1. BookInv(book) /\ Kept(book, book) /\ \A S : Kept(book, Released(book, S))
  BY ReleasedKept DEF IInv, LiveInv, Kept
<1>2. CASE UNCHANGED <<book, placed, quantity>>
  BY <1>1, <1>2, KeptStep
<1>3. CASE StepLiquidated \/ LiquidatedAtOpen \/ BeginMatching \/ SkipStale \/ FailStep \/ EndBar
  <2>1. UNCHANGED <<book, placed, quantity>>
    BY <1>3 DEF StepLiquidated, LiquidatedAtOpen, BeginMatching, SkipStale, FailStep, EndBar, history
  <2> QED
    BY <1>2, <2>1
<1>4. CASE OpenBar
  BY <1>1, <1>4, KeptStep DEF OpenBar, history
<1>5. ASSUME NEW c \in Command("PLACE"), Place(c) PROVE Accounted'
  <2>1. c \in Commands /\ c.action = "PLACE"
    BY DEF Command
  <2>2. CASE ValidOrder(c)
    <3>1. InsertOrder(book, c, {c.id}, {c.id})
      BY <1>5, <2>2 DEF Place
    <3> QED
      BY <1>1, <2>1, <2>2, <3>1, InsertAccounts
  <2>3. CASE ~ValidOrder(c)
    BY <1>2, <1>5, <2>3 DEF Place
  <2> QED
    BY <2>2, <2>3
<1>6. ASSUME NEW c \in Command("CANCEL"), Cancel(c) PROVE Accounted'
  BY <1>1, <1>6, KeptStep DEF Cancel
<1>7. ASSUME NEW c \in Command("AMEND"), Amend(c) PROVE Accounted'
  BY <1>7, AmendAccounts DEF Command
<1>8. ASSUME NEW c \in Command("REPLACE"), Replace(c) PROVE Accounted'
  <2> DEFINE h == book.forward[c.target]
  <2>1. c \in Commands /\ c.action = "REPLACE"
    BY DEF Command
  <2>2. CASE ~Resolves(book, c.target)
    BY <1>2, <1>8, <2>2 DEF Replace
  <2>3. CASE Resolves(book, c.target) /\ ~ValidOrder(c)
    BY <1>1, <1>8, <2>3, KeptStep DEF Replace
  <2>4. CASE Resolves(book, c.target) /\ ValidOrder(c)
    <3> DEFINE names == NamesLeft(h) \cup {c.target, c.id}
    <3>1. InsertOrder(Released(book, {h}), c, IdsPassedOn(h, c), names)
      BY <1>8, <2>4 DEF Replace
    <3>2. BookInv(Released(book, {h})) /\ Kept(book, Released(book, {h}))
      BY <1>1, ReleasedInv
    <3> HIDE DEF h, names
    <3> QED
      BY <2>1, <2>4, <3>1, <3>2, InsertAccounts
  <2> QED
    BY <2>2, <2>3, <2>4
<1>9. ASSUME NEW c \in Command("CANCEL_ALL"), CancelAll(c) PROVE Accounted'
  <2> DEFINE S == {h \in book.live :
                     LET o == book.orders[h] IN
                     /\ c.side \in {0, o.side}
                     /\ c.parent < 0 \/ c.parent = o.parent
                     /\ c.oco < 0 \/ c.oco = o.oco}
  <2>1. book' = Released(book, S) /\ UNCHANGED <<placed, quantity>>
    BY <1>9 DEF CancelAll
  <2> HIDE DEF S
  <2> QED
    BY <1>1, <2>1, KeptStep
<1>10. CASE NoFill \/ CancelReduceOnly \/ KillPartial \/ RejectMargin
  <2>1. PICK b : Unfilled(b) /\ (b = book \/ b = Released(book, {Candidate}))
    BY <1>10 DEF NoFill, CancelReduceOnly, KillPartial, RejectMargin
  <2>2. book' = b /\ UNCHANGED <<placed, quantity>>
    BY <2>1 DEF Unfilled, history
  <2> QED
    BY <1>1, <2>1, <2>2, KeptStep
<1>11. CASE Fill
  BY <1>11, FillAccounts
<1>12. CASE Reset
  <2>1. book' = EmptyBook /\ placed' = << >> /\ quantity' = << >>
    BY <1>12 DEF Reset
  <2>2. EmptyBook.orders = << >> /\ DOMAIN << >> = {}
    BY EmptyFields
  <2> QED
    BY <2>1, <2>2 DEF Accounted, Accounts
<1>13. CASE UNCHANGED vars
  BY <1>2, <1>13 DEF vars
<1> QED
  BY <1>3, <1>4, <1>5, <1>6, <1>7, <1>8, <1>9, <1>10, <1>11, <1>12, <1>13 DEF Next

\* What an order has traded and what is left of it make up what it was asked to
\* trade, over all its fills and amendments; a fill-or-kill order trades all or
\* nothing.
THEOREM QuantitiesAccountedTheorem == Spec => []QuantitiesAccounted
<1>1. Init => Accounted
  <2>1. EmptyBook.orders = << >> /\ DOMAIN << >> = {}
    BY EmptyFields
  <2> QED
    BY <2>1 DEF Init, Accounted, Accounts
<1>2. IInv /\ Accounted /\ [Next]_vars => Accounted'
  BY NextAccounted
<1>3. Accounted => QuantitiesAccounted
  BY DEF Accounted, Accounts, QuantitiesAccounted
<1> QED
  BY <1>1, <1>2, <1>3, InvariantTheorem, PTL DEF Spec

-----------------------------------------------------------------------------
(* The candidates of a bar *)

\* The snapshot of a set of handles names each of them once, oldest first.
LEMMA AscendingIs ==
  ASSUME NEW S \in SUBSET Nat, IsFiniteSet(S)
  PROVE  /\ Ascending(S) \in Seq(S)
         /\ \A h \in S : \E i \in 1..Len(Ascending(S)) : Ascending(S)[i] = h
         /\ \A i, j \in 1..Len(Ascending(S)) : i < j => Ascending(S)[i] < Ascending(S)[j]
<1> DEFINE key == [h \in S |-> h]
           n   == Cardinality(S)
           A   == Ascending(S)
<1>1. \A h \in S : key[h] = h /\ key[h] \in Int
  OBVIOUS
<1>2. n \in Nat
  BY FS_CardinalityType
<1>3. \A h \in S : {g \in S : g < h} = Below(S, key, h)
  BY DEF Below
<1> HIDE DEF key
<1>4. \A i \in 1..n : \E h \in S : Cardinality(Below(S, key, h)) = i - 1
  BY <1>1, Ranked
<1>5. \A i \in 1..n : A[i] \in S /\ Cardinality(Below(S, key, A[i])) = i - 1
  <2> SUFFICES ASSUME NEW i \in 1..n PROVE A[i] \in S /\ Cardinality(Below(S, key, A[i])) = i - 1
    OBVIOUS
  <2>1. A[i] = CHOOSE h \in S : Cardinality({g \in S : g < h}) = i - 1
    BY DEF Ascending
  <2>2. \E h \in S : Cardinality({g \in S : g < h}) = i - 1
    BY <1>3, <1>4
  <2>3. A[i] \in S /\ Cardinality({g \in S : g < A[i]}) = i - 1
    <3> HIDE DEF A
    <3> QED
      BY <2>1, <2>2
  <2> QED
    BY <1>3, <2>3
<1>6. DOMAIN A = 1..n
  BY DEF Ascending
<1>7. A \in Seq(S) /\ Len(A) = n
  <2>1. A \in [1..n -> S]
    BY <1>5 DEF Ascending
  <2> HIDE DEF A
  <2> QED
    BY <1>2, <2>1
<1> DEFINE rank == [h \in S |-> Cardinality(Below(S, key, h))]
<1>8. /\ \A h \in S : rank[h] \in Nat /\ rank[h] + 1 \in 1..n
      /\ \A g, h \in S : g < h => rank[g] < rank[h]
      /\ \A i \in 1..n : A[i] \in S /\ rank[A[i]] = i - 1
  <2>1. \A h \in S : rank[h] = Cardinality(Below(S, key, h))
    OBVIOUS
  <2> HIDE DEF rank, A, n
  <2>2. ASSUME NEW h \in S PROVE rank[h] \in Nat /\ rank[h] + 1 \in 1..n
    <3>1. IsFiniteSet(Below(S, key, h))
      BY FS_Subset DEF Below
    <3>2. Cardinality(Below(S, key, h)) \in Nat
      BY <3>1, FS_CardinalityType
    <3>3. Cardinality(Below(S, key, h)) + 1 \in 1..n
      BY <1>1, RankOf DEF n
    <3> QED
      BY <2>1, <3>2, <3>3
  <2>3. ASSUME NEW g \in S, NEW h \in S, g < h PROVE rank[g] < rank[h]
    BY <1>1, <2>1, <2>3, RankOrder, ZenonT(30)
  <2> QED
    BY <1>5, <2>1, <2>2, <2>3
<1> HIDE DEF A, n, rank
<1>9. ASSUME NEW g \in S, NEW h \in S
      PROVE  (rank[g] < rank[h] => g < h) /\ (rank[g] = rank[h] => g = h)
  <2>1. g \in Nat /\ h \in Nat /\ rank[g] \in Nat /\ rank[h] \in Nat
    BY <1>8
  <2>2. (g < h => rank[g] < rank[h]) /\ (h < g => rank[h] < rank[g])
    BY <1>8
  <2> QED
    BY <2>1, <2>2
<1>10. \A h \in S : \E i \in 1..n : A[i] = h
  <2> SUFFICES ASSUME NEW h \in S PROVE \E i \in 1..n : A[i] = h
    OBVIOUS
  <2>1. PICK i \in 1..n : i = rank[h] + 1
    BY <1>8
  <2>2. A[i] \in S /\ rank[A[i]] = rank[h]
    BY <1>8, <2>1
  <2> QED
    BY <1>9, <2>2
<1>11. ASSUME NEW i \in 1..n, NEW j \in 1..n, i < j PROVE A[i] < A[j]
  <2>1. A[i] \in S /\ A[j] \in S /\ rank[A[i]] = i - 1 /\ rank[A[j]] = j - 1
    BY <1>8
  <2>2. rank[A[i]] < rank[A[j]]
    BY <1>2, <1>11, <2>1
  <2> QED
    BY <1>9, <2>1, <2>2
<1> QED
  BY <1>7, <1>10, <1>11 DEF A

\* Live orders have the types of their fields, and none both waits and is
\* active.
OrdersHold(b) ==
  \A h \in DOMAIN b.orders :
    b.orders[h] \in Order /\ ~(b.orders[h].waiting_parent /\ b.orders[h].active)

\* r is what is left of the orders of b: K have been woken up.
Left(b, r, K) ==
  /\ OrdersHold(r)
  /\ DOMAIN r.orders \subseteq DOMAIN b.orders
  /\ \A h \in DOMAIN r.orders :
       /\ r.orders[h].active <=> b.orders[h].active \/ h \in K
       /\ r.orders[h].tif = b.orders[h].tif

LEMMA SameLeft ==
  ASSUME NEW b, OrdersHold(b)
  PROVE  Left(b, b, {})
BY DEF Left

LEMMA ReleasedLeft ==
  ASSUME NEW b, BookInv(b), OrdersHold(b), NEW S
  PROVE  /\ Left(b, Released(b, S), {})
         /\ DOMAIN Released(b, S).orders = DOMAIN b.orders \ S
         /\ \A h \in DOMAIN b.orders \ S : Released(b, S).orders[h] = b.orders[h]
<1> DEFINE r == Released(b, S)
<1>1. r.orders = [h \in DOMAIN b.orders \ S |-> b.orders[h]]
  BY ReleasedInv
<1> HIDE DEF r
<1>2. /\ Left(b, r, {}) /\ DOMAIN r.orders = DOMAIN b.orders \ S
      /\ \A h \in DOMAIN b.orders \ S : r.orders[h] = b.orders[h]
  BY <1>1 DEF Left, OrdersHold
<1> QED
  BY <1>2 DEF r

LEMMA ActivatedLeft ==
  ASSUME NEW b, BookInv(b), OrdersHold(b), NEW S, S \subseteq DOMAIN b.orders
  PROVE  /\ Left(b, Activated(b, S), S)
         /\ DOMAIN Activated(b, S).orders = DOMAIN b.orders
         /\ \A h \in DOMAIN b.orders \ S : Activated(b, S).orders[h] = b.orders[h]
<1> DEFINE r == Activated(b, S)
<1>1. /\ DOMAIN r.orders = DOMAIN b.orders
      /\ \A h \in DOMAIN b.orders :
           r.orders[h] = IF h \in S
                           THEN [b.orders[h] EXCEPT !.active = TRUE, !.waiting_parent = FALSE]
                           ELSE b.orders[h]
  BY ActivatedInv
<1> HIDE DEF r
<1>2. ASSUME NEW h \in DOMAIN b.orders
      PROVE  /\ r.orders[h] \in Order
             /\ ~(r.orders[h].waiting_parent /\ r.orders[h].active)
             /\ r.orders[h].active <=> b.orders[h].active \/ h \in S
             /\ r.orders[h].tif = b.orders[h].tif
  <2>1. b.orders[h] \in Order /\ ~(b.orders[h].waiting_parent /\ b.orders[h].active)
    BY DEF OrdersHold
  <2>2. CASE h \in S
    <3> DEFINE o == b.orders[h]
               p == [o EXCEPT !.active = TRUE, !.waiting_parent = FALSE]
    <3>1. r.orders[h] = p
      BY <1>1, <2>2
    <3> HIDE DEF o
    <3>2. p \in Order /\ p.active = TRUE /\ p.waiting_parent = FALSE /\ p.tif = o.tif
      BY <2>1 DEF Order, o
    <3> HIDE DEF p
    <3> QED
      BY <2>2, <3>1, <3>2 DEF o
  <2>3. CASE h \notin S
    BY <1>1, <2>1, <2>3
  <2> QED
    BY <2>2, <2>3
<1>3. /\ Left(b, r, S) /\ DOMAIN r.orders = DOMAIN b.orders
      /\ \A h \in DOMAIN b.orders \ S : r.orders[h] = b.orders[h]
  BY <1>1, <1>2 DEF Left, OrdersHold
<1> QED
  BY <1>3 DEF r

LEMMA QuantityLeft ==
  ASSUME NEW b, BookInv(b), OrdersHold(b), NEW h \in DOMAIN b.orders, NEW q \in Nat
  PROVE  Left(b, [b EXCEPT !.orders[h].qty = q], {})
<1> DEFINE r == [b EXCEPT !.orders[h].qty = q]
<1>1. /\ DOMAIN r.orders = DOMAIN b.orders
      /\ \A g \in DOMAIN b.orders :
           r.orders[g] = IF g = h THEN [b.orders[h] EXCEPT !.qty = q] ELSE b.orders[g]
  BY QuantityInv
<1> HIDE DEF r
<1>2. ASSUME NEW g \in DOMAIN b.orders
      PROVE  /\ r.orders[g] \in Order
             /\ ~(r.orders[g].waiting_parent /\ r.orders[g].active)
             /\ r.orders[g].active <=> b.orders[g].active
             /\ r.orders[g].tif = b.orders[g].tif
  <2>1. b.orders[g] \in Order /\ ~(b.orders[g].waiting_parent /\ b.orders[g].active)
    BY DEF OrdersHold
  <2>2. CASE g = h
    <3> DEFINE o == b.orders[h]
               p == [o EXCEPT !.qty = q]
    <3>1. r.orders[h] = p
      BY <1>1
    <3> HIDE DEF o
    <3>2. p \in Order /\ p.active = o.active /\ p.waiting_parent = o.waiting_parent /\ p.tif = o.tif
      BY <2>1, <2>2 DEF Order, o
    <3> HIDE DEF p
    <3> QED
      BY <2>1, <2>2, <3>1, <3>2 DEF o
  <2>3. CASE g # h
    BY <1>1, <2>1, <2>3
  <2> QED
    BY <2>2, <2>3
<1>3. Left(b, r, {})
  BY <1>1, <1>2 DEF Left, OrdersHold
<1> QED
  BY <1>3 DEF r

LEMMA LeftTwice ==
  ASSUME NEW b, NEW r, NEW t, NEW K, Left(b, r, K), Left(r, t, {})
  PROVE  Left(b, t, K)
BY DEF Left
\* While a bar is matched: every active order of b is a candidate, a resting
\* one if the cursor cur has passed it; no candidate that is live waits for a
\* parent; and the candidates are distinct, those that never waited in the
\* order of their sequences.
CandidatesHold(b, pl, mc, cur) ==
  /\ \A h \in DOMAIN b.orders :
       b.orders[h].active =>
         \E i \in 1..Len(mc) : mc[i] = h /\ (i < cur => Keeps(b.orders[h]))
  /\ \A i \in 1..Len(mc) : mc[i] \in DOMAIN b.orders => b.orders[mc[i]].active
  /\ \A i, j \in 1..Len(mc) : i < j =>
       /\ mc[i] # mc[j]
       /\ pl[mc[j]].order.activation = Immediate => mc[i] < mc[j]

\* The handles of the live orders are a finite set of numbers.
LEMMA HandlesFinite ==
  ASSUME NEW b, NEW pl, NEW fl, NEW n, HistoryHolds(b, pl, fl, n)
  PROVE  IsFiniteSet(DOMAIN b.orders) /\ DOMAIN b.orders \subseteq 0..(n - 1)
<1>1. n \in Nat /\ DOMAIN b.orders \subseteq 0..(n - 1)
  BY DEF HistoryHolds
<1>2. IsFiniteSet(0..(n - 1))
  <2> DEFINE m == n - 1
  <2>1. m \in Int
    BY <1>1
  <2> HIDE DEF m
  <2>2. IsFiniteSet(0..m)
    BY ONLY <2>1, FS_Interval
  <2> QED
    BY <2>2 DEF m
<1> QED
  BY <1>1, <1>2, FS_Subset

\* The snapshot the matching of a bar begins with.
LEMMA CandidatesBegin ==
  ASSUME NEW b, BookInv(b), NEW pl, NEW fl, NEW n, HistoryHolds(b, pl, fl, n)
  PROVE  CandidatesHold(b, pl, Ascending(b.active), 1) /\ Ascending(b.active) \in Seq(DOMAIN b.orders)
<1> DEFINE mc == Ascending(b.active)
<1>1. b.active = {h \in DOMAIN b.orders : b.orders[h].active}
  BY DEF BookInv, IndexesHold, ActiveOf
<1>2. b.active \in SUBSET Nat /\ IsFiniteSet(b.active)
  BY <1>1, HandlesFinite, FS_Subset DEF HistoryHolds
<1>3. /\ mc \in Seq(b.active)
      /\ \A h \in b.active : \E i \in 1..Len(mc) : mc[i] = h
      /\ \A i, j \in 1..Len(mc) : i < j => mc[i] < mc[j]
  BY <1>2, AscendingIs
<1> HIDE DEF mc
<1>4. \A i \in 1..Len(mc) : mc[i] \in b.active
  BY <1>3
<1>5. \A i, j \in 1..Len(mc) : i < j => mc[i] # mc[j]
  BY <1>2, <1>3, <1>4
<1>6. CandidatesHold(b, pl, mc, 1)
  BY <1>1, <1>3, <1>4, <1>5 DEF CandidatesHold
<1>7. mc \in Seq(DOMAIN b.orders)
  <2>1. b.active \subseteq DOMAIN b.orders
    BY <1>1
  <2> QED
    BY <1>3, <2>1
<1> QED
  BY <1>6, <1>7 DEF mc

\* The cursor moves on from a candidate that is gone, or rests.
LEMMA CandidatesPassed ==
  ASSUME NEW b, NEW pl, NEW mc, NEW cur \in Nat, CandidatesHold(b, pl, mc, cur),
         NEW r, Left(b, r, {}),
         \A h \in DOMAIN r.orders : h = mc[cur] => Keeps(r.orders[h])
  PROVE  CandidatesHold(r, pl, mc, cur + 1)
<1>1. ASSUME NEW h \in DOMAIN r.orders, r.orders[h].active
      PROVE  \E i \in 1..Len(mc) : mc[i] = h /\ (i < cur + 1 => Keeps(r.orders[h]))
  <2>1. h \in DOMAIN b.orders /\ b.orders[h].active /\ r.orders[h].tif = b.orders[h].tif
    BY <1>1 DEF Left
  <2>2. PICK i \in 1..Len(mc) : mc[i] = h /\ (i < cur => Keeps(b.orders[h]))
    BY <2>1 DEF CandidatesHold
  <2>3. i < cur + 1 => i < cur \/ i = cur
    OBVIOUS
  <2>4. i < cur + 1 => Keeps(r.orders[h])
    BY <2>1, <2>2, <2>3 DEF Keeps
  <2> QED
    BY <2>2, <2>4
<1>2. \A i \in 1..Len(mc) : mc[i] \in DOMAIN r.orders => r.orders[mc[i]].active
  BY DEF CandidatesHold, Left
<1> QED
  BY <1>1, <1>2 DEF CandidatesHold

\* Children that a fill wakes up are candidates after all others.
LEMMA CandidatesContinued ==
  ASSUME NEW b, NEW pl, NEW mc \in Seq(Nat), NEW cur \in 1..Len(mc),
         CandidatesHold(b, pl, mc, cur),
         NEW kids \in SUBSET Nat, IsFiniteSet(kids), kids \subseteq DOMAIN b.orders,
         \A k \in kids : ~b.orders[k].active /\ pl[k].order.activation # Immediate,
         NEW r, Left(b, r, kids)
  PROVE  CandidatesHold(r, pl, mc \o Ascending(kids), cur)
<1> DEFINE more == Ascending(kids)
           all  == mc \o more
           n    == Len(mc)
<1>1. /\ more \in Seq(kids)
      /\ \A h \in kids : \E i \in 1..Len(more) : more[i] = h
      /\ \A i, j \in 1..Len(more) : i < j => more[i] < more[j]
  BY AscendingIs
<1> HIDE DEF more
<1>2. /\ more \in Seq(Nat) /\ Len(more) \in Nat /\ n \in Nat
      /\ \A i \in 1..Len(more) : more[i] \in kids
  BY <1>1
<1>3. /\ Len(all) = n + Len(more)
      /\ \A i \in 1..n : all[i] = mc[i]
      /\ \A i \in 1..Len(more) : all[n + i] = more[i]
  BY <1>2
<1> HIDE DEF all
<1>4. \A i \in 1..Len(all) : i \in 1..n \/ \E k \in 1..Len(more) : i = n + k /\ all[i] = more[k]
  <2> SUFFICES ASSUME NEW i \in 1..Len(all), i \notin 1..n
               PROVE  \E k \in 1..Len(more) : i = n + k /\ all[i] = more[k]
    OBVIOUS
  <2>1. i - n \in 1..Len(more) /\ i = n + (i - n)
    BY <1>2, <1>3
  <2> QED
    BY <1>3, <2>1
<1>5. \A h \in kids : \A i \in 1..n : mc[i] # h
  BY DEF CandidatesHold
<1>6. ASSUME NEW h \in DOMAIN r.orders, r.orders[h].active
      PROVE  \E i \in 1..Len(all) : all[i] = h /\ (i < cur => Keeps(r.orders[h]))
  <2>1. h \in DOMAIN b.orders /\ r.orders[h].tif = b.orders[h].tif
    BY DEF Left
  <2>2. CASE h \in kids
    <3>1. PICK k \in 1..Len(more) : more[k] = h
      BY <1>1, <2>2
    <3>2. n + k \in 1..Len(all) /\ ~(n + k < cur) /\ all[n + k] = h
      BY <1>2, <1>3, <3>1
    <3> QED
      BY <3>2
  <2>3. CASE h \notin kids
    <3>1. b.orders[h].active
      BY <1>6, <2>3 DEF Left
    <3>2. PICK i \in 1..n : mc[i] = h /\ (i < cur => Keeps(b.orders[h]))
      BY <2>1, <3>1 DEF CandidatesHold
    <3>3. i \in 1..Len(all) /\ all[i] = h /\ (i < cur => Keeps(r.orders[h]))
      BY <1>2, <1>3, <2>1, <3>2 DEF Keeps
    <3> QED
      BY <3>3
  <2> QED
    BY <2>2, <2>3
<1>7. ASSUME NEW i \in 1..Len(all), all[i] \in DOMAIN r.orders PROVE r.orders[all[i]].active
  <2>1. CASE i \in 1..n
    BY <1>3, <1>7, <2>1 DEF CandidatesHold, Left
  <2>2. CASE \E k \in 1..Len(more) : i = n + k /\ all[i] = more[k]
    BY <1>2, <1>7, <2>2 DEF Left
  <2> QED
    BY <1>4, <2>1, <2>2
<1>8. ASSUME NEW i \in 1..Len(all), NEW j \in 1..Len(all), i < j
      PROVE  /\ all[i] # all[j]
             /\ pl[all[j]].order.activation = Immediate => all[i] < all[j]
  <2>1. CASE j \in 1..n
    <3>1. i \in 1..n
      BY <1>2, <1>8, <2>1
    <3> QED
      BY <1>3, <1>8, <2>1, <3>1 DEF CandidatesHold
  <2>2. CASE \E k \in 1..Len(more) : j = n + k /\ all[j] = more[k]
    <3>1. PICK k \in 1..Len(more) : j = n + k /\ all[j] = more[k]
      BY <2>2
    <3>2. all[j] \in kids /\ pl[all[j]].order.activation # Immediate
      BY <1>2, <3>1
    <3>3. CASE i \in 1..n
      BY <1>3, <1>5, <3>2, <3>3
    <3>4. CASE \E l \in 1..Len(more) : i = n + l /\ all[i] = more[l]
      <4>1. PICK l \in 1..Len(more) : i = n + l /\ all[i] = more[l]
        BY <3>4
      <4>2. l < k
        BY <1>2, <1>8, <3>1, <4>1
      <4>3. more[l] < more[k] /\ more[l] \in Nat /\ more[k] \in Nat
        BY <1>1, <1>2, <4>2
      <4> QED
        BY <3>1, <3>2, <4>1, <4>3
    <3> QED
      BY <1>4, <3>2, <3>3, <3>4
  <2> QED
    BY <1>4, <2>1, <2>2
<1>9. CandidatesHold(r, pl, all, cur)
  BY <1>6, <1>7, <1>8 DEF CandidatesHold
<1> QED
  BY <1>9 DEF all, more
-----------------------------------------------------------------------------
(* The invariant of the bar's scratch *)

Scratch ==
  /\ next_order_sequence \in 0..MaxSequence
  /\ next_bar \in 0..Bars
  /\ phase # "idle" => next_bar < Bars
  /\ phase \in {"idle", "commands", "matching"}
  /\ sent \in 0..MaxCommands
  /\ matching_candidates \in Seq(0..MaxSequence)
  /\ cursor \in 1..(Len(matching_candidates) + 1)
  /\ liquidated \in BOOLEAN
  /\ liquidity \in [capacity : Nat, consumed : Nat]

Candidates == CandidatesHold(book, placed, matching_candidates, cursor)

BarInv ==
  /\ OrdersHold(book)
  /\ Scratch
  /\ phase = "matching" => Candidates

\* A sequence over a set is one over any larger set.
LEMMA SeqWider ==
  ASSUME NEW S, NEW T, S \subseteq T, NEW s \in Seq(S)
  PROVE  s \in Seq(T)
<1>1. Len(s) \in Nat /\ s \in [1..Len(s) -> T]
  OBVIOUS
<1> QED
  BY <1>1

LEMMA Bounds == Bars \in Nat /\ MaxCommands \in Nat /\ MaxSequence \in Nat
BY LifecycleAssumption

LEMMA EmptyMatching ==
  ASSUME NEW S, NEW s, s = << >>, NEW cur, cur = 1
  PROVE  s \in Seq(S) /\ cur \in 1..(Len(s) + 1)
OBVIOUS

LEMMA InitBar == ASSUME Init PROVE BarInv
<1>1. OrdersHold(book)
  <2>1. book.orders = << >> /\ DOMAIN << >> = {}
    BY EmptyFields DEF Init
  <2> QED
    BY <2>1 DEF OrdersHold
<1>2. Scratch
  <2>1. /\ matching_candidates \in Seq(0..MaxSequence)
        /\ cursor \in 1..(Len(matching_candidates) + 1)
    <3>1. matching_candidates = << >> /\ cursor = 1
      BY DEF Init
    <3> QED
      BY <3>1, EmptyMatching, Zenon
  <2>2. liquidity \in [capacity : Nat, consumed : Nat]
    BY DEF Init
  <2>3. /\ next_order_sequence \in 0..MaxSequence /\ next_bar \in 0..Bars
        /\ sent \in 0..MaxCommands
    BY Bounds DEF Init
  <2>4. phase = "idle" /\ liquidated \in BOOLEAN
    BY DEF Init
  <2> QED
    BY <2>1, <2>2, <2>3, <2>4 DEF Scratch
<1> QED
  BY <1>1, <1>2 DEF Init, BarInv

\* A command of the bar.
LEMMA CommandBar ==
  ASSUME BarInv, NEW action, Command(action) # {}, Sent, OrdersHold(book'),
         next_order_sequence' \in 0..MaxSequence
  PROVE  BarInv'
<1>1. phase = "commands" /\ sent < MaxCommands
  BY DEF Command
<1>2. Scratch'
  BY <1>1, LifecycleAssumption DEF BarInv, Scratch, Sent, matching
<1>3. phase' # "matching"
  BY <1>1 DEF Sent
<1> QED
  BY <1>2, <1>3 DEF BarInv, OrdersHold

LEMMA InsertBar ==
  ASSUME IInv, BarInv, NEW c \in Commands, c.action \in {"PLACE", "REPLACE"}, ValidOrder(c),
         NEW b, BookInv(b), OrdersHold(b), DOMAIN b.orders \subseteq DOMAIN book.orders,
         NEW ids, NEW names, InsertOrder(b, c, ids, names)
  PROVE  OrdersHold(book') /\ next_order_sequence' \in 0..MaxSequence
<1> DEFINE n == next_order_sequence
           o == BuildOrder(c)
<1>1. n \in 0..MaxSequence /\ MaxSequence \in Nat
  BY LifecycleAssumption DEF BarInv, Scratch
<1>2. OrderTyped(o) /\ o \in Order /\ ~(o.waiting_parent /\ o.active)
  <2>1. c.qty \in Nat
    BY LifecycleAssumption DEF ValidOrder
  <2>2. /\ c.side \in {-1, 1} /\ c.tif \in {"GTC", "GTD", "IOC", "FOK"}
        /\ c.reduce_only \in BOOLEAN /\ c.activation \in {Immediate, FirstFill, FullFill}
        /\ c.id \in Int /\ c.parent \in Int /\ c.oco \in Int /\ c.expires \in Int
    BY LifecycleAssumption
  <2>3. OrderTyped(o)
    BY <2>1, <2>2 DEF BuildOrder, OrderTyped, OrderFields
  <2>4. o \in Order
    BY <2>1, <2>2 DEF BuildOrder, Order
  <2>5. ~(o.waiting_parent /\ o.active)
    BY DEF BuildOrder
  <2> QED
    BY <2>3, <2>4, <2>5
<1>3. n \notin DOMAIN b.orders
  BY DEF IInv, LiveInv, HistoryHolds
<1> HIDE DEF o
<1>4. CASE book' = b /\ UNCHANGED next_order_sequence
  BY <1>1, <1>4
<1>5. CASE book' = b /\ next_order_sequence' = n + 1 /\ n # MaxSequence
  BY <1>1, <1>5
<1>6. CASE book' = Inserted(b, n, o, ids) /\ next_order_sequence' = n + 1 /\ n # MaxSequence
  <2>1. /\ DOMAIN book'.orders = {n} \cup DOMAIN b.orders
        /\ book'.orders[n] = o
        /\ \A g \in DOMAIN b.orders : book'.orders[g] = b.orders[g]
    BY <1>2, <1>3, <1>6, InsertedInv
  <2>2. OrdersHold(book')
    BY <1>2, <2>1 DEF OrdersHold
  <2> QED
    BY <1>1, <1>6, <2>2
<1> QED
  BY <1>4, <1>5, <1>6 DEF InsertOrder, o

\* A step that leaves the commands and the matching of a bar alone, or ends
\* the bar.
LEMMA QuietBar ==
  ASSUME BarInv, OrdersHold(book'), UNCHANGED <<next_order_sequence, sent>>,
         phase' \in {"idle", "commands"},
         next_bar' \in 0..Bars, phase' # "idle" => next_bar' < Bars,
         liquidated' \in BOOLEAN,
         UNCHANGED matching \/ NoMatching
  PROVE  BarInv'
<1>1. /\ matching_candidates' \in Seq(0..MaxSequence)
      /\ cursor' \in 1..(Len(matching_candidates') + 1)
      /\ liquidity' \in [capacity : Nat, consumed : Nat]
  <2>1. CASE UNCHANGED matching
    BY <2>1 DEF BarInv, Scratch, matching
  <2>2. CASE NoMatching
    BY <2>2 DEF NoMatching
  <2> QED
    BY <2>1, <2>2
<1>2. Scratch'
  BY <1>1 DEF BarInv, Scratch
<1> QED
  BY <1>2 DEF BarInv, OrdersHold

\* The candidate under the cursor is done with, without a fill.
LEMMA PassedBar ==
  ASSUME BarInv, Matching, NEW b, Left(book, b, {}), Unfilled(b),
         \A h \in DOMAIN b.orders : h = Candidate => Keeps(b.orders[h])
  PROVE  BarInv'
<1>1. /\ book' = b /\ cursor' = cursor + 1 /\ phase' = phase /\ phase = "matching"
      /\ UNCHANGED <<next_order_sequence, next_bar, sent, matching_candidates, liquidity,
                     liquidated, placed>>
  BY DEF Unfilled, Matching, history
<1>2. cursor \in Nat /\ cursor \in 1..Len(matching_candidates)
  BY DEF BarInv, Scratch, Matching
<1>3. Scratch'
  BY <1>1, <1>2 DEF BarInv, Scratch
<1>4. CandidatesHold(b, placed, matching_candidates, cursor + 1)
  BY <1>1, <1>2, CandidatesPassed DEF BarInv, Candidates, Candidate
<1>5. Candidates'
  BY <1>1, <1>4 DEF Candidates
<1>6. OrdersHold(book)'
  BY <1>1 DEF Left, OrdersHold
<1> QED
  BY <1>3, <1>5, <1>6 DEF BarInv
\* The live orders, by handles up to the last sequence.
LEMMA HandlesBounded ==
  ASSUME IInv, BarInv
  PROVE  /\ IsFiniteSet(DOMAIN book.orders)
         /\ DOMAIN book.orders \subseteq 0..MaxSequence
<1>1. HistoryHolds(book, placed, filled, next_order_sequence)
  BY DEF IInv, LiveInv
<1>2. next_order_sequence \in 0..MaxSequence /\ MaxSequence \in Nat
  BY LifecycleAssumption DEF BarInv, Scratch
<1>3. /\ IsFiniteSet(DOMAIN book.orders)
      /\ DOMAIN book.orders \subseteq 0..(next_order_sequence - 1)
  BY <1>1, HandlesFinite
<1> QED
  BY <1>2, <1>3

LEMMA FillBar ==
  ASSUME IInv, BarInv, Fill
  PROVE  BarInv'
<1> DEFINE h    == Candidate
           o    == book.orders[h]
           kids == WakenedBy(book, o.id)
           b1   == Activated(book, kids)
           gone == SiblingsOf(b1, o.oco, o.id)
           b2   == Released(b1, gone)
           b3   == AfterFill(b2, h, o)
           mc   == matching_candidates
<1>1. /\ h \in DOMAIN book.orders /\ o.active /\ Fillable(o)
      /\ book' = b3 /\ matching_candidates' = mc \o Ascending(kids)
      /\ liquidity' = [liquidity EXCEPT !.consumed = @ + FillQty(o)]
      /\ phase = "matching" /\ cursor \in 1..Len(mc) /\ cursor' = cursor + 1
      /\ UNCHANGED <<next_order_sequence, next_bar, sent, phase, liquidated, placed>>
  BY DEF Fill, Eligible, Matching, Continued, BarInv, Scratch
<1>2. BookInv(book) /\ OrderTyped(o) /\ Typed
  BY <1>1 DEF IInv, LiveInv, BookInv
<1>3. /\ OrdersHold(book) /\ o \in Order /\ ~o.waiting_parent
      /\ CandidatesHold(book, placed, mc, cursor)
  BY <1>1 DEF BarInv, OrdersHold, Candidates
<1>4. /\ Requested(o) \in Int /\ Requested(o) <= o.qty
      /\ FillQty(o) \in Int /\ FillQty(o) <= Requested(o) /\ FillQty(o) > 0
  <2>1. Abs(position) \in Int /\ o.qty \in Int
    BY <1>2 DEF Typed, Abs, OrderTyped
  <2>2. Requested(o) <= o.qty
    BY <2>1, MinOfTwo DEF Requested
  <2> QED
    BY <1>1, <1>2, <2>2, RequestedTyped DEF Fillable
<1>5. /\ kids \subseteq DOMAIN book.orders /\ h \notin kids
      /\ \A k \in kids : ~book.orders[k].active /\ placed[k].order.activation # Immediate
  <2>1. \A k \in kids : /\ k \in DOMAIN book.orders /\ book.orders[k].waiting_parent
                        /\ book.orders[k].activation \in {FirstFill, FullFill}
    BY DEF WakenedBy
  <2>2. \A k \in DOMAIN book.orders : book.orders[k].activation = placed[k].order.activation
    BY DEF IInv, LiveInv, HistoryHolds, SameOrder
  <2> QED
    BY <1>3, <2>1, <2>2 DEF OrdersHold, FirstFill, FullFill, Immediate
<1>6. /\ BookInv(b1) /\ Left(book, b1, kids) /\ DOMAIN b1.orders = DOMAIN book.orders
      /\ b1.orders[h] = o
  <2> HIDE DEF kids, o, h
  <2>1. /\ BookInv(b1) /\ Left(book, b1, kids) /\ DOMAIN b1.orders = DOMAIN book.orders
        /\ \A g \in DOMAIN book.orders \ kids : b1.orders[g] = book.orders[g]
    BY <1>2, <1>3, <1>5, ActivatedInv, ActivatedLeft
  <2> QED
    BY <1>1, <1>5, <2>1 DEF o
<1>7. h \notin gone
  BY <1>6 DEF SiblingsOf
<1>8. /\ BookInv(b2) /\ Left(b1, b2, {}) /\ h \in DOMAIN b2.orders /\ b2.orders[h] = o
  <2> HIDE DEF b1, gone, o, h
  <2>1. OrdersHold(b1)
    BY <1>6 DEF Left
  <2>2. BookInv(b2)
    BY <1>6, ReleasedInv
  <2>3. /\ Left(b1, b2, {})
        /\ DOMAIN b2.orders = DOMAIN b1.orders \ gone
        /\ \A g \in DOMAIN b1.orders \ gone : b2.orders[g] = b1.orders[g]
    BY <1>6, <2>1, ReleasedLeft
  <2> QED
    BY <1>1, <1>6, <1>7, <2>2, <2>3
<1> HIDE DEF b1, b2
<1>9. Left(b2, b3, {}) /\ (h \in DOMAIN b3.orders => Keeps(b3.orders[h]))
  <2>1. OrdersHold(b2)
    BY <1>8 DEF Left
  <2>2. CASE IsPartial(o) /\ o.tif # "IOC"
    <3>1. b3 = [b2 EXCEPT !.orders[h].qty = o.qty - FillQty(o)]
      BY <1>8, <2>2 DEF AfterFill
    <3>2. o.qty - FillQty(o) \in Nat
      BY <1>2, <1>4 DEF OrderTyped
    <3>3. Keeps(o)
      <4>1. o.tif \in {"GTC", "GTD", "IOC", "FOK"}
        BY <1>3 DEF Order
      <4> QED
        BY <1>1, <2>2, <4>1 DEF Fillable, Keeps
    <3> HIDE DEF h, o, b3
    <3>4. Left(b2, b3, {})
      BY <1>8, <2>1, <3>1, <3>2, QuantityLeft
    <3>5. h \in DOMAIN b3.orders => b3.orders[h].tif = o.tif
      BY <1>8, <3>4 DEF Left
    <3> QED
      BY <3>3, <3>4, <3>5 DEF Keeps
  <2>3. CASE ~(IsPartial(o) /\ o.tif # "IOC")
    <3>1. b3 = Released(b2, {h})
      BY <2>3 DEF AfterFill
    <3> HIDE DEF h, o, b3
    <3>2. Left(b2, b3, {}) /\ DOMAIN b3.orders = DOMAIN b2.orders \ {h}
      BY <1>8, <2>1, <3>1, ReleasedLeft
    <3> QED
      BY <3>2
  <2> QED
    BY <2>2, <2>3
<1>10. /\ IsFiniteSet(kids) /\ kids \in SUBSET Nat /\ kids \subseteq 0..MaxSequence
       /\ mc \in Seq(0..MaxSequence) /\ mc \in Seq(Nat)
  <2>1. DOMAIN book.orders \subseteq 0..MaxSequence /\ IsFiniteSet(DOMAIN book.orders)
    BY HandlesBounded
  <2>2. mc \in Seq(0..MaxSequence) /\ 0..MaxSequence \subseteq Nat
    BY LifecycleAssumption DEF BarInv, Scratch
  <2> HIDE DEF kids, mc
  <2>3. mc \in Seq(Nat)
    BY <2>2, SeqWider
  <2>4. IsFiniteSet(kids)
    BY <1>5, <2>1, FS_Subset
  <2> QED
    BY <1>5, <2>1, <2>2, <2>3, <2>4
<1> DEFINE all == mc \o Ascending(kids)
<1>11. all \in Seq(0..MaxSequence) /\ Len(all) >= Len(mc)
  <2> HIDE DEF kids, mc
  <2>1. Ascending(kids) \in Seq(kids)
    BY <1>10, AscendingIs
  <2> DEFINE more == Ascending(kids)
  <2> HIDE DEF more
  <2>2. more \in Seq(0..MaxSequence)
    BY <1>10, <2>1, SeqWider DEF more
  <2>3. mc \o more \in Seq(0..MaxSequence) /\ Len(mc \o more) >= Len(mc)
    BY <1>10, <2>2
  <2> QED
    BY <2>3 DEF more
<1>12. CandidatesHold(b1, placed, all, cursor)
  <2> HIDE DEF kids, mc
  <2> QED
    BY <1>1, <1>3, <1>5, <1>6, <1>10, CandidatesContinued
<1>13. CandidatesHold(b3, placed, all, cursor + 1)
  <2>1. Left(b1, b3, {})
    BY <1>8, <1>9, LeftTwice
  <2>2. all[cursor] = h
    <3>1. \A s, t \in Seq(Nat) : \A i \in 1..Len(s) : (s \o t)[i] = s[i]
      OBVIOUS
    <3>2. Ascending(kids) \in Seq(Nat)
      <4> HIDE DEF kids
      <4>1. Ascending(kids) \in Seq(kids)
        BY <1>10, AscendingIs
      <4> DEFINE more == Ascending(kids)
      <4> HIDE DEF more
      <4>2. more \in Seq(Nat)
        BY <1>10, <4>1, SeqWider DEF more
      <4> QED
        BY <4>2 DEF more
    <3>3. all[cursor] = mc[cursor]
      <4> HIDE DEF kids, mc
      <4> QED
        BY <1>1, <1>10, <3>1, <3>2
    <3> QED
      BY <3>3 DEF Candidate
  <2>3. \A g \in DOMAIN b3.orders : g = all[cursor] => Keeps(b3.orders[g])
    BY <1>9, <2>2
  <2>4. cursor \in Nat
    BY <1>1
  <2> HIDE DEF all, b3
  <2> QED
    BY <1>12, <2>1, <2>3, <2>4, CandidatesPassed
<1> HIDE DEF all, b3
<1>14. Candidates'
  BY <1>1, <1>13 DEF Candidates, all
<1>15. OrdersHold(book)'
  BY <1>1, <1>9 DEF Left, OrdersHold
<1>16. Scratch'
  <2>1. liquidity' \in [capacity : Nat, consumed : Nat]
    BY <1>1, <1>4, SMTT(20) DEF BarInv, Scratch
  <2>2. matching_candidates' = all
    BY <1>1 DEF all
  <2>3. /\ matching_candidates' \in Seq(0..MaxSequence)
        /\ cursor' \in 1..(Len(matching_candidates') + 1)
    <3>1. Len(all) \in Nat /\ Len(mc) \in Nat
      BY <1>10, <1>11
    <3> HIDE DEF mc
    <3> QED
      BY <1>1, <1>11, <2>2, <3>1
  <2> QED
    BY <1>1, <2>1, <2>3 DEF BarInv, Scratch
<1> QED
  BY <1>14, <1>15, <1>16 DEF BarInv
LEMMA NextBar == ASSUME IInv, BarInv, [Next]_vars PROVE BarInv'
<1>1. BookInv(book) /\ OrdersHold(book) /\ Scratch
  BY DEF IInv, LiveInv, BarInv
<1>2. /\ Left(book, book, {})
      /\ \A S : /\ Left(book, Released(book, S), {})
                /\ DOMAIN Released(book, S).orders = DOMAIN book.orders \ S
                /\ BookInv(Released(book, S))
  BY <1>1, SameLeft, ReleasedLeft, ReleasedInv
<1>3. \A b : Left(book, b, {}) => OrdersHold(b)
  BY DEF Left
<1>4. Bars \in Nat \ {0} /\ next_bar \in 0..Bars
  BY <1>1, LifecycleAssumption DEF Scratch
<1>5. CASE StepLiquidated
  <2>1. OrdersHold(book')
    BY <1>1, <1>5 DEF StepLiquidated
  <2> QED
    BY <1>1, <1>4, <1>5, <2>1, QuietBar DEF StepLiquidated, CanStep, Scratch
<1>6. CASE LiquidatedAtOpen
  <2>1. OrdersHold(book')
    BY <1>1, <1>6 DEF LiquidatedAtOpen
  <2> QED
    BY <1>1, <1>4, <1>6, <2>1, QuietBar DEF LiquidatedAtOpen, Liquidate, CanStep, Scratch
<1>7. CASE OpenBar
  <2> DEFINE due == DueExpiry(book, next_bar)
  <2>1. book' = Released(book, due)
    BY <1>7 DEF OpenBar
  <2> HIDE DEF due
  <2>2. OrdersHold(book')
    BY <1>2, <1>3, <2>1
  <2> QED
    BY <1>1, <1>4, <1>7, <2>2, QuietBar DEF OpenBar, CanStep, Scratch
<1>8. ASSUME NEW c \in Command("PLACE"), Place(c) PROVE BarInv'
  <2>1. c \in Commands /\ c.action = "PLACE" /\ Command("PLACE") # {} /\ Sent
    BY <1>8 DEF Command, Place
  <2>2. OrdersHold(book') /\ next_order_sequence' \in 0..MaxSequence
    <3>1. CASE ValidOrder(c)
      BY <1>1, <1>8, <2>1, <3>1, InsertBar DEF Place
    <3>2. CASE ~ValidOrder(c)
      BY <1>1, <1>8, <3>2 DEF Place, Scratch
    <3> QED
      BY <3>1, <3>2
  <2> QED
    BY <2>1, <2>2, CommandBar
<1>9. ASSUME NEW c \in Command("CANCEL"), Cancel(c) PROVE BarInv'
  <2>1. Command("CANCEL") # {} /\ Sent /\ UNCHANGED next_order_sequence
    BY <1>9 DEF Command, Cancel
  <2>2. OrdersHold(book')
    BY <1>1, <1>2, <1>3, <1>9 DEF Cancel
  <2> QED
    BY <1>1, <2>1, <2>2, CommandBar DEF Scratch
<1>10. ASSUME NEW c \in Command("AMEND"), Amend(c) PROVE BarInv'
  <2>1. c \in Commands /\ Command("AMEND") # {} /\ Sent /\ UNCHANGED next_order_sequence
    BY <1>10 DEF Command, Amend
  <2>2. OrdersHold(book')
    <3>1. CASE Resolves(book, c.target) /\ c.qty > 0
      <4>1. /\ book.forward[c.target] \in DOMAIN book.orders
            /\ book' = [book EXCEPT !.orders[book.forward[c.target]].qty = c.qty]
        BY <1>10, <3>1 DEF Amend, Resolves
      <4>2. c.qty \in Nat
        BY <2>1, <3>1, LifecycleAssumption
      <4>3. Left(book, book', {})
        BY <1>1, <4>1, <4>2, QuantityLeft
      <4> QED
        BY <1>3, <4>3
    <3>2. CASE ~(Resolves(book, c.target) /\ c.qty > 0)
      BY <1>1, <1>10, <3>2 DEF Amend
    <3> QED
      BY <3>1, <3>2
  <2> QED
    BY <1>1, <2>1, <2>2, CommandBar DEF Scratch
<1>11. ASSUME NEW c \in Command("REPLACE"), Replace(c) PROVE BarInv'
  <2>1. c \in Commands /\ c.action = "REPLACE" /\ Command("REPLACE") # {} /\ Sent
    BY <1>11 DEF Command, Replace
  <2> DEFINE h == book.forward[c.target]
  <2>2. OrdersHold(book') /\ next_order_sequence' \in 0..MaxSequence
    <3>1. CASE ~Resolves(book, c.target)
      BY <1>1, <1>11, <3>1 DEF Replace, Scratch
    <3>2. CASE Resolves(book, c.target) /\ ~ValidOrder(c)
      <4>1. book' = Released(book, {h}) /\ UNCHANGED next_order_sequence
        BY <1>11, <3>2 DEF Replace
      <4> QED
        BY <1>1, <1>2, <1>3, <4>1 DEF Scratch
    <3>3. CASE Resolves(book, c.target) /\ ValidOrder(c)
      <4> DEFINE b     == Released(book, {h})
                 ids   == IdsPassedOn(h, c)
                 names == NamesLeft(h) \cup {c.target, c.id}
      <4>1. InsertOrder(b, c, ids, names)
        BY <1>11, <3>3 DEF Replace
      <4>2. BookInv(b) /\ OrdersHold(b) /\ DOMAIN b.orders \subseteq DOMAIN book.orders
        BY <1>2, <1>3
      <4> HIDE DEF b, ids, names
      <4> QED
        BY <2>1, <3>3, <4>1, <4>2, InsertBar
    <3> QED
      BY <3>1, <3>2, <3>3
  <2> QED
    BY <2>1, <2>2, CommandBar
<1>12. ASSUME NEW c \in Command("CANCEL_ALL"), CancelAll(c) PROVE BarInv'
  <2>1. Command("CANCEL_ALL") # {} /\ Sent /\ UNCHANGED next_order_sequence
    BY <1>12 DEF Command, CancelAll
  <2> DEFINE S == {h \in book.live :
                     LET o == book.orders[h] IN
                     /\ c.side \in {0, o.side}
                     /\ c.parent < 0 \/ c.parent = o.parent
                     /\ c.oco < 0 \/ c.oco = o.oco}
  <2>2. book' = Released(book, S)
    BY <1>12 DEF CancelAll
  <2> HIDE DEF S
  <2>3. OrdersHold(book')
    BY <1>2, <1>3, <2>2
  <2> QED
    BY <1>1, <2>1, <2>3, CommandBar DEF Scratch
<1>13. CASE BeginMatching
  <2>1. /\ book' = book /\ phase = "commands" /\ phase' = "matching" /\ cursor' = 1
        /\ matching_candidates' = Ascending(book.active)
        /\ UNCHANGED <<next_order_sequence, next_bar, sent, liquidated, placed>>
        /\ liquidity' \in [capacity : Nat, consumed : Nat]
    BY <1>13, LifecycleAssumption DEF BeginMatching, history
  <2>2. HistoryHolds(book, placed, filled, next_order_sequence)
    BY DEF IInv, LiveInv
  <2>3. /\ CandidatesHold(book, placed, Ascending(book.active), 1)
        /\ Ascending(book.active) \in Seq(DOMAIN book.orders)
    BY <1>1, <2>2, CandidatesBegin
  <2>4. matching_candidates' \in Seq(0..MaxSequence)
    <3>1. DOMAIN book.orders \subseteq 0..MaxSequence
      BY HandlesBounded
    <3> QED
      BY <2>1, <2>3, <3>1, SeqWider
  <2>5. cursor' \in 1..(Len(matching_candidates') + 1)
    BY <2>1, <2>4
  <2>6. Scratch'
    BY <1>1, <2>1, <2>4, <2>5 DEF Scratch
  <2>7. Candidates'
    BY <2>1, <2>3 DEF Candidates
  <2> QED
    BY <1>1, <2>1, <2>6, <2>7 DEF BarInv
<1>14. CASE SkipStale
  <2>1. Matching /\ Unfilled(book)
    BY <1>14 DEF SkipStale, Unfilled
  <2>2. \A h \in DOMAIN book.orders : h # Candidate
    <3>1. CandidatesHold(book, placed, matching_candidates, cursor) /\ cursor \in 1..Len(matching_candidates)
      BY <1>1, <2>1 DEF BarInv, Candidates, Scratch, Matching
    <3> QED
      BY <1>14, <3>1 DEF SkipStale, Eligible, CandidatesHold, Candidate
  <2> QED
    BY <1>2, <2>1, <2>2, PassedBar
<1>15. CASE NoFill
  <2> DEFINE o == book.orders[Candidate]
  <2>1. Matching /\ Unfilled(IF Keeps(o) THEN book ELSE Released(book, {Candidate}))
    BY <1>15 DEF NoFill, Eligible
  <2>2. CASE Keeps(o)
    BY <1>2, <2>1, <2>2, PassedBar
  <2>3. CASE ~Keeps(o)
    BY <1>2, <2>1, <2>3, PassedBar
  <2> QED
    BY <2>2, <2>3
<1>16. CASE CancelReduceOnly \/ KillPartial \/ RejectMargin
  <2>1. Matching /\ Unfilled(Released(book, {Candidate}))
    BY <1>16 DEF CancelReduceOnly, KillPartial, RejectMargin, Eligible
  <2> QED
    BY <1>2, <2>1, PassedBar
<1>17. CASE Fill
  BY <1>17, FillBar
<1>18. CASE FailStep
  <2>1. OrdersHold(book')
    BY <1>1, <1>18 DEF FailStep
  <2> QED
    BY <1>1, <1>4, <1>18, <2>1, QuietBar DEF FailStep, Scratch
<1>19. CASE EndBar
  <2>1. OrdersHold(book')
    BY <1>1, <1>19 DEF EndBar
  <2>2. next_bar' \in 0..Bars
    BY <1>1, <1>4, <1>19 DEF EndBar, Scratch
  <2> QED
    BY <1>1, <1>19, <2>1, <2>2, QuietBar DEF EndBar, Liquidate, Scratch
<1>20. CASE Reset
  <2>1. OrdersHold(book')
    <3>1. book'.orders = << >> /\ DOMAIN << >> = {}
      BY <1>20, EmptyFields DEF Reset
    <3> QED
      BY <3>1 DEF OrdersHold
  <2>2. Scratch' /\ phase' # "matching"
    <3>1. /\ matching_candidates' \in Seq(0..MaxSequence)
          /\ cursor' \in 1..(Len(matching_candidates') + 1)
      <4>1. matching_candidates' = << >> /\ cursor' = 1
        BY <1>20 DEF Reset, NoMatching
      <4> QED
        BY <4>1, EmptyMatching, Zenon
    <3>2. liquidity' \in [capacity : Nat, consumed : Nat]
      BY <1>20 DEF Reset, NoMatching
    <3>3. /\ next_order_sequence' \in 0..MaxSequence /\ next_bar' \in 0..Bars
          /\ sent' \in 0..MaxCommands
      BY <1>20, Bounds DEF Reset
    <3>4. phase' = "idle" /\ liquidated' \in BOOLEAN
      BY <1>20 DEF Reset
    <3> QED
      BY <3>1, <3>2, <3>3, <3>4 DEF Scratch
  <2> QED
    BY <2>1, <2>2 DEF BarInv, OrdersHold
<1>21. CASE UNCHANGED vars
  <2>1. UNCHANGED <<book, next_order_sequence, next_bar, phase, sent, matching_candidates, cursor,
                    liquidated, liquidity, placed>>
    BY <1>21 DEF vars
  <2> QED
    BY <2>1 DEF BarInv, OrdersHold, Scratch, Candidates
<1> QED
  BY <1>5, <1>6, <1>7, <1>8, <1>9, <1>10, <1>11, <1>12, <1>13, <1>14, <1>15, <1>16, <1>17,
     <1>18, <1>19, <1>20, <1>21 DEF Next

\* Every reachable state satisfies the invariant of the bar's scratch.
THEOREM BarTheorem == Spec => []BarInv
<1>1. Init => BarInv
  BY InitBar
<1>2. IInv /\ BarInv /\ [Next]_vars => BarInv'
  BY NextBar
<1> QED
  BY <1>1, <1>2, InvariantTheorem, PTL DEF Spec

\* The fields of the session always have their types: quantities and the
\* liquidity used never go below zero, and the cursor stays with the
\* candidates.
THEOREM TypeCorrect == Spec => []TypeOK
<1>1. IInv /\ BarInv => TypeOK
  <2> SUFFICES ASSUME IInv, BarInv PROVE TypeOK
    OBVIOUS
  <2>1. DOMAIN book.orders \subseteq 0..MaxSequence
    BY HandlesBounded
  <2>2. position \in Int
    BY DEF IInv, Typed
  <2> QED
    BY <2>1, <2>2 DEF BarInv, OrdersHold, Scratch, TypeOK
<1> QED
  BY <1>1, InvariantTheorem, BarTheorem, PTL

\* While a bar is matched, every active order is a candidate exactly once, the
\* children of its fills included; no immediate order is passed and stays; and
\* orders that never waited for a parent are tried oldest first.
THEOREM EveryActiveOrderMatchedTheorem == Spec => []EveryActiveOrderMatched
<1>1. IInv /\ BarInv => EveryActiveOrderMatched
  <2> SUFFICES ASSUME IInv, BarInv, phase = "matching"
               PROVE  /\ \A h \in book.active :
                           \E i \in DOMAIN matching_candidates :
                             /\ matching_candidates[i] = h
                             /\ i < cursor => Keeps(book.orders[h])
                      /\ \A i, j \in DOMAIN matching_candidates : i < j =>
                           /\ matching_candidates[i] # matching_candidates[j]
                           /\ placed[matching_candidates[j]].order.activation = Immediate =>
                                matching_candidates[i] < matching_candidates[j]
    BY DEF EveryActiveOrderMatched
  <2>1. CandidatesHold(book, placed, matching_candidates, cursor)
    BY DEF BarInv, Candidates
  <2>2. DOMAIN matching_candidates = 1..Len(matching_candidates)
    BY DEF BarInv, Scratch
  <2>3. book.active = {h \in DOMAIN book.orders : book.orders[h].active}
    BY DEF IInv, LiveInv, BookInv, IndexesHold, ActiveOf
  <2> QED
    BY <2>1, <2>2, <2>3 DEF CandidatesHold
<1> QED
  BY <1>1, InvariantTheorem, BarTheorem, PTL
=============================================================================
