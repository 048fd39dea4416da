--------------------------- MODULE OrderLifecycle ---------------------------
(***************************************************************************)
(* The order lifecycle of one native session (session.rs, orders/*.rs,     *)
(* execution_model.rs): expiry, commands, matching, child activation and   *)
(* OCO cancellation of one bar after another, with the lifecycle indexes   *)
(* and the external-id aliases the session maintains beside its arena.     *)
(*                                                                         *)
(* A handle is the sequence number of the order it was issued for: module  *)
(* OrderArena shows that a handle never names two orders.  One symbol is   *)
(* modelled.  Order types, prices and triggers are abstracted to whether   *)
(* the bar touches the order, margin arithmetic to whether it accepts.     *)
(***************************************************************************)
EXTENDS Integers, SequencesExt

Immediate == "immediate"
FirstFill == "first_fill"
FullFill  == "full_fill"

CONSTANTS
  Commands,     \* the commands a caller may send, see Command below
  Capacities,   \* the liquidity one bar may offer (volume * participation)
  Bars,         \* n_bars of the prepared market
  MaxCommands,  \* bound: commands sent between two resets
  MaxLive,      \* max_live of the order arena
  MaxSequence   \* the last order sequence (u64::MAX)

ASSUME LifecycleAssumption ==
  /\ Capacities \subseteq Nat
  /\ Bars \in Nat \ {0}
  /\ MaxCommands \in Nat
  /\ MaxLive \in Nat
  /\ MaxSequence \in Nat
  /\ \A c \in Commands :
       /\ c.qty \in Int
       /\ c.action \in {"PLACE", "REPLACE"} =>
            /\ c.side \in {-1, 1}
            /\ c.tif \in {"GTC", "GTD", "IOC", "FOK"}
            /\ c.reduce_only \in BOOLEAN
            /\ c.activation \in {Immediate, FirstFill, FullFill}
            /\ c.id \in Int /\ c.parent \in Int /\ c.oco \in Int /\ c.expires \in Int

VARIABLES
  book,         \* the arena's orders, lifecycle_indexes and order_aliases
  next_order_sequence,
  next_bar,     \* last_bar + 1
  phase,        \* where step_with_buffers is: "idle" between two calls
  sent,         \* commands processed since the last reset
  matching_candidates, cursor,  \* scratch, empty between two bars
  position, liquidated,
  liquidity,    \* liquidity_ledger: capacity and consumed
  placed,       \* history: every order inserted, the ids it was given and the
                \* bar it was inserted in
  filled,       \* history: the orders that filled, with the next sequence at
                \* their first and last fill and whether they filled fully
  quantity      \* history: what each order was asked to trade and has traded

vars == <<book, next_order_sequence, next_bar, phase, sent,
          matching_candidates, cursor, position, liquidated, liquidity,
          placed, filled, quantity>>

-----------------------------------------------------------------------------
(* Orders and commands *)

\* Negative ids (parent, oco, id, expires) stand for "none", as in the code.
Order ==
  [id : Int, side : {-1, 1}, qty : Nat, tif : {"GTC", "GTD", "IOC", "FOK"},
   reduce_only : BOOLEAN, parent : Int, oco : Int, expires : Int,
   activation : {Immediate, FirstFill, FullFill},
   active : BOOLEAN, waiting_parent : BOOLEAN]

Keeps(o) == o.tif \in {"GTC", "GTD"}

\* Fault: the activation policy is ignored.
BuildOrderActive(c) ==
  [id |-> c.id, side |-> c.side, qty |-> c.qty, tif |-> c.tif,
   reduce_only |-> c.reduce_only, parent |-> c.parent, oco |-> c.oco,
   expires |-> c.expires, activation |-> c.activation,
   active |-> TRUE, waiting_parent |-> FALSE]

\* build_order: an order starts active, or waiting for its parent.
BuildOrder(c) ==
  [id |-> c.id, side |-> c.side, qty |-> c.qty, tif |-> c.tif,
   reduce_only |-> c.reduce_only, parent |-> c.parent, oco |-> c.oco,
   expires |-> c.expires, activation |-> c.activation,
   active |-> c.activation = Immediate,
   waiting_parent |-> c.activation # Immediate]

\* valid_order, in what the model keeps of an order.
ValidOrder(c) == c.qty > 0

-----------------------------------------------------------------------------
(* The book: arena contents, indexes and aliases, as pure operators *)

EmptyBook ==
  [orders   |-> << >>,  \* the live orders by handle
   states   |-> << >>,  \* the indexes' own registry of order states
   active   |-> {},     \* active_by_sequence
   live     |-> {},     \* live_by_sequence
   expiry   |-> {},     \* expiry_by_bar, as <<bar, handle>>
   children |-> {},     \* children_by_parent, as <<parent id, handle>>
   oco      |-> {},     \* oco_groups, as <<group, handle>>
   forward  |-> << >>,  \* aliases: id to handle
   reverse  |-> {}]     \* aliases: <<id, handle>>

\* order_index_state
IndexState(o) ==
  [active |-> o.active, waiting_parent |-> o.waiting_parent,
   parent |-> o.parent, oco |-> o.oco, expires |-> o.expires]

\* f with entry h set to v, whether it is new or not.
With(f, h, v) == [g \in DOMAIN f \cup {h} |-> IF g = h THEN v ELSE f[g]]

\* f with every id of a set leading to h.
AllWith(f, ids, h) == [n \in DOMAIN f \cup ids |-> IF n \in ids THEN h ELSE f[n]]

KeyedBy(key, h) == IF key >= 0 THEN {<<key, h>>} ELSE {}

\* LifecycleIndexes::insert
Indexed(b, h, s) ==
  [b EXCEPT !.states   = With(@, h, s),
            !.live     = @ \cup {h},
            !.active   = IF s.active THEN @ \cup {h} ELSE @,
            !.expiry   = @ \cup KeyedBy(s.expires, h),
            !.children = @ \cup KeyedBy(s.parent, h),
            !.oco      = @ \cup KeyedBy(s.oco, h)]

\* Fault: the previous owner of an id is not told.
BoundTwice(b, h, ids) ==
  LET bindable == {n \in ids : n >= 0} IN
  [b EXCEPT !.forward = AllWith(@, bindable, h),
            !.reverse = @ \cup {<<n, h>> : n \in bindable}]

\* ExternalOrderAliases::bind_all: the last writer takes an id over, and its
\* previous owner forgets it.
Bound(b, h, ids) ==
  LET bindable == {n \in ids : n >= 0} IN
  [b EXCEPT !.forward = AllWith(@, bindable, h),
            !.reverse = {p \in @ : p[1] \notin bindable}
                          \cup {<<n, h>> : n \in bindable}]

\* insert_order, once the arena has taken the order.
Inserted(b, h, o, ids) ==
  Bound(Indexed([b EXCEPT !.orders = With(@, h, o)], h, IndexState(o)), h, ids)

\* LifecycleIndexes::remove
Unindexed(b, S) ==
  [b EXCEPT !.states   = Restrict(@, DOMAIN @ \ S),
            !.live     = @ \ S,
            !.active   = @ \ {h \in S : b.states[h].active},
            !.expiry   = @ \ {<<b.states[h].expires, h>> : h \in S},
            !.children = @ \ {<<b.states[h].parent, h>> : h \in S},
            !.oco      = @ \ {<<b.states[h].oco, h>> : h \in S}]

\* ExternalOrderAliases::release
Unbound(b, S) ==
  LET gone == {p[1] : p \in {q \in b.reverse : q[2] \in S /\ b.forward[q[1]] = q[2]}}
  IN [b EXCEPT !.forward = Restrict(@, DOMAIN @ \ gone),
               !.reverse = {p \in @ : p[2] \notin S}]

\* release_order_with_terminal, for each order of S that is still live.
Released(b, S) ==
  LET live == S \cap DOMAIN b.orders IN
  Unbound(Unindexed([b EXCEPT !.orders = Restrict(@, DOMAIN @ \ live)], live), live)

\* Fault: the indexes' own registry keeps the old flags.
ActivatedInArena(b, S) ==
  [b EXCEPT !.orders = [h \in DOMAIN @ |->
                          IF h \in S THEN [@[h] EXCEPT !.active = TRUE,
                                                       !.waiting_parent = FALSE]
                                     ELSE @[h]],
            !.active = @ \cup S]

\* LifecycleIndexes::set_activation(handle, true, false), with the order's
\* own flags.
Activated(b, S) ==
  [b EXCEPT !.orders = [h \in DOMAIN @ |->
                          IF h \in S THEN [@[h] EXCEPT !.active = TRUE,
                                                       !.waiting_parent = FALSE]
                                     ELSE @[h]],
            !.states = [h \in DOMAIN @ |->
                          IF h \in S THEN [@[h] EXCEPT !.active = TRUE,
                                                       !.waiting_parent = FALSE]
                                     ELSE @[h]],
            !.active = @ \cup S]

\* activate_children: the children a fill of the order with this id wakes up.
\* FIRST_FILL and FULL_FILL children are treated alike.
WakenedBy(b, parent_id) ==
  {h \in {p[2] : p \in {q \in b.children : q[1] = parent_id}} :
     /\ h \in DOMAIN b.orders
     /\ b.orders[h].waiting_parent
     /\ b.orders[h].parent = parent_id
     /\ b.orders[h].activation \in {FirstFill, FullFill}}

\* Fault: siblings that still wait for a parent are spared.
ActiveSiblingsOf(b, oco_id, order_id) ==
  {h \in {p[2] : p \in {q \in b.oco : q[1] = oco_id}} :
     /\ oco_id >= 0
     /\ h \in DOMAIN b.orders
     /\ b.orders[h].id # order_id
     /\ b.orders[h].active}

\* cancel_oco_siblings: the orders a fill in this group cancels.
SiblingsOf(b, oco_id, order_id) ==
  {h \in {p[2] : p \in {q \in b.oco : q[1] = oco_id}} :
     /\ oco_id >= 0
     /\ h \in DOMAIN b.orders
     /\ b.orders[h].id # order_id
     /\ b.orders[h].oco = oco_id}

\* Fault: an order survives its expiry bar.
DueAfterExpiry(b, bar) ==
  {h \in {p[2] : p \in {q \in b.expiry : q[1] < bar}} : h \in DOMAIN b.orders}

\* append_due_expiry_handles and the checks of the expiry loop.
DueExpiry(b, bar) ==
  {h \in {p[2] : p \in {q \in b.expiry : q[1] <= bar}} :
     /\ h \in DOMAIN b.orders
     /\ b.orders[h].expires >= 0
     /\ bar >= b.orders[h].expires}

\* A set of handles in the order of their sequences: the i-th has i - 1 before
\* it.
Ascending(S) ==
  [i \in 1..Cardinality(S) |->
     CHOOSE h \in S : Cardinality({g \in S : g < h}) = i - 1]

\* find_pending: the order an external id resolves to, if there is one.
Resolves(b, id) == id \in DOMAIN b.forward /\ b.forward[id] \in DOMAIN b.orders

-----------------------------------------------------------------------------
Init ==
  /\ book = EmptyBook
  /\ next_order_sequence = 0
  /\ next_bar = 0
  /\ phase = "idle"
  /\ sent = 0
  /\ matching_candidates = << >>
  /\ cursor = 1
  /\ position = 0
  /\ liquidated = FALSE
  /\ liquidity = [capacity |-> 0, consumed |-> 0]
  /\ placed = << >>
  /\ filled = << >>
  /\ quantity = << >>

history == <<placed, filled, quantity>>
matching == <<matching_candidates, cursor, liquidity>>

\* The scratch of the matching loop is dead once the bar is over: the next one
\* starts by clearing it.
NoMatching ==
  /\ matching_candidates' = << >>
  /\ cursor' = 1
  /\ liquidity' = [capacity |-> 0, consumed |-> 0]

(* The start of a bar, before its commands *)

CanStep == phase = "idle" /\ next_bar < Bars

\* A liquidated session consumes its bars and does nothing else.
StepLiquidated ==
  /\ CanStep
  /\ liquidated
  /\ next_bar' = next_bar + 1
  /\ UNCHANGED <<book, next_order_sequence, phase, sent, matching, position,
                 liquidated, history>>

\* liquidate, called inside the bar: the positions go, the orders stay.
Liquidate == liquidated' = TRUE /\ position' = 0

\* The bar liquidates intrabar or after funding, and ends there.  Maintenance
\* margin is positive only for an open position.
LiquidatedAtOpen ==
  /\ CanStep
  /\ ~liquidated
  /\ position # 0
  /\ Liquidate
  /\ next_bar' = next_bar + 1
  /\ UNCHANGED <<book, next_order_sequence, phase, sent, matching, history>>

\* The account survives the mark; GTD expiry precedes the bar's commands.
OpenBar ==
  /\ CanStep
  /\ ~liquidated
  /\ book' = Released(book, DueExpiry(book, next_bar))
  /\ phase' = "commands"
  /\ UNCHANGED <<next_order_sequence, next_bar, sent, matching, position,
                 liquidated, history>>

(* The commands of the bar, one after another *)

Command(action) ==
  {c \in Commands : phase = "commands" /\ sent < MaxCommands /\ c.action = action}

Sent ==
  /\ sent' = sent + 1
  /\ UNCHANGED <<next_bar, phase, matching, position, liquidated, filled>>

\* Fault: the sequence is not checked before it is increased.
InsertUnchecked(b, c, ids, names) ==
  /\ next_order_sequence' = next_order_sequence + 1
  /\ book' = Inserted(b, next_order_sequence, BuildOrder(c), ids)
  /\ placed' = With(placed, next_order_sequence,
                     [order |-> BuildOrder(c), names |-> names, bar |-> next_bar])
  /\ quantity' = With(quantity, next_order_sequence, [asked |-> c.qty, traded |-> 0])

\* insert_order: the sequence is drawn first and lost when the arena is full.
\* ids are bound to the order; names is for the history only.
InsertOrder(b, c, ids, names) ==
  LET h == next_order_sequence
      o == BuildOrder(c) IN
  IF next_order_sequence = MaxSequence
    THEN book' = b /\ UNCHANGED <<next_order_sequence, placed, quantity>>
    ELSE /\ next_order_sequence' = next_order_sequence + 1
         /\ IF Cardinality(DOMAIN b.orders) < MaxLive
              THEN /\ book' = Inserted(b, h, o, ids)
                   /\ placed' = With(placed, h, [order |-> o, names |-> names,
                                                bar |-> next_bar])
                   /\ quantity' = With(quantity, h, [asked |-> c.qty, traded |-> 0])
              ELSE book' = b /\ UNCHANGED <<placed, quantity>>

Place(c) ==
  /\ IF ValidOrder(c)
       THEN InsertOrder(book, c, {c.id}, {c.id})
       ELSE UNCHANGED <<book, next_order_sequence, placed, quantity>>
  /\ Sent

Cancel(c) ==
  /\ book' = IF Resolves(book, c.target)
               THEN Released(book, {book.forward[c.target]}) ELSE book
  /\ UNCHANGED <<next_order_sequence, placed, quantity>>
  /\ Sent

\* A positive quantity replaces what is left of the order's; the rest of an
\* amend is price.
Amend(c) ==
  /\ IF Resolves(book, c.target) /\ c.qty > 0
       THEN LET h == book.forward[c.target] IN
            /\ book' = [book EXCEPT !.orders[h].qty = c.qty]
            /\ quantity' = [quantity EXCEPT ![h].asked = quantity[h].traded + c.qty]
       ELSE UNCHANGED <<book, quantity>>
  /\ UNCHANGED <<next_order_sequence, placed>>
  /\ Sent

\* Fault: only the two ids of the command survive a replacement.
IdsOfCommand(h, c) == {c.target, c.id}

\* aliases_for, with the ids of the command: what the replacement answers to.
IdsPassedOn(h, c) ==
  {p[1] : p \in {q \in book.reverse : q[2] = h}} \cup {c.target, c.id}

\* History: the ids order h was given that no newer order has been given.
NamesLeft(h) ==
  {n \in placed[h].names :
     \A later \in DOMAIN placed : later > h => n \notin placed[later].names}

\* The target is released first, whatever becomes of its replacement, and all
\* the ids it answered to go to the replacement.
Replace(c) ==
  /\ IF ~Resolves(book, c.target)
       THEN UNCHANGED <<book, next_order_sequence, placed, quantity>>
       ELSE LET h == book.forward[c.target] IN
            IF ValidOrder(c)
              THEN InsertOrder(Released(book, {h}), c, IdsPassedOn(h, c),
                               NamesLeft(h) \cup {c.target, c.id})
              ELSE /\ book' = Released(book, {h})
                   /\ UNCHANGED <<next_order_sequence, placed, quantity>>
  /\ Sent

\* Side 0 and negative parent and oco ids match every order.
CancelAll(c) ==
  /\ book' = Released(book,
       {h \in book.live :
          LET o == book.orders[h] IN
          /\ c.side \in {0, o.side}
          /\ c.parent < 0 \/ c.parent = o.parent
          /\ c.oco < 0 \/ c.oco = o.oco})
  /\ UNCHANGED <<next_order_sequence, placed, quantity>>
  /\ Sent

(* Matching *)

\* begin_bar of the execution model, and the snapshot of the active orders.
BeginMatching ==
  /\ phase = "commands"
  /\ \E cap \in Capacities : liquidity' = [capacity |-> cap, consumed |-> 0]
  /\ matching_candidates' = Ascending(book.active)
  /\ cursor' = 1
  /\ phase' = "matching"
  /\ UNCHANGED <<book, next_order_sequence, next_bar, sent, position,
                 liquidated, history>>

\* The order under the cursor; a candidate released earlier in the bar has
\* gone stale.
Candidate == matching_candidates[cursor]

Matching == phase = "matching" /\ cursor <= Len(matching_candidates)

Eligible == Matching /\ Candidate \in DOMAIN book.orders /\ book.orders[Candidate].active

SkipStale ==
  /\ Matching
  /\ ~Eligible
  /\ cursor' = cursor + 1
  /\ UNCHANGED <<book, next_order_sequence, next_bar, phase, sent,
                 matching_candidates, liquidity, position, liquidated, history>>

\* The candidate is done with for this bar without a fill.
Unfilled(b) ==
  /\ book' = b
  /\ cursor' = cursor + 1
  /\ UNCHANGED <<next_order_sequence, next_bar, phase, sent,
                 matching_candidates, liquidity, position, liquidated, history>>

\* The position has nothing for a reduce-only order to reduce.
NothingToReduce(o) == o.reduce_only /\ (position = 0 \/ position * o.side > 0)

Abs(n) == IF n < 0 THEN -n ELSE n

\* Fault: a reduce-only order asks for all of its quantity.
RequestedUnclipped(o) == o.qty

Requested(o) == IF o.reduce_only THEN Min({o.qty, Abs(position)}) ELSE o.qty
Available    == liquidity.capacity - liquidity.consumed
FillQty(o)   == Min({Requested(o), Available})
IsPartial(o) == FillQty(o) < Requested(o)

\* The bar does not reach the order's price, or no liquidity is left for it:
\* an immediate order is cancelled, a resting one stays.
NoFill ==
  /\ Eligible
  /\ LET o == book.orders[Candidate] IN
       Unfilled(IF Keeps(o) THEN book ELSE Released(book, {Candidate}))

CancelReduceOnly ==
  /\ Eligible
  /\ NothingToReduce(book.orders[Candidate])
  /\ Unfilled(Released(book, {Candidate}))

\* A fill-or-kill order the bar could fill only in part.
KillPartial ==
  /\ Eligible
  /\ LET o == book.orders[Candidate] IN
       /\ ~NothingToReduce(o)
       /\ o.tif = "FOK"
       /\ FillQty(o) > 0
       /\ IsPartial(o)
  /\ Unfilled(Released(book, {Candidate}))

Fillable(o) ==
  /\ ~NothingToReduce(o)
  /\ FillQty(o) > 0
  /\ o.tif = "FOK" => ~IsPartial(o)

\* The margin check refuses the fill.
RejectMargin ==
  /\ Eligible
  /\ Fillable(book.orders[Candidate])
  /\ Unfilled(Released(book, {Candidate}))

\* Fault: what is left of an order is asked for in full again.
AfterFillUnreduced(b, h, o) ==
  IF IsPartial(o) /\ o.tif # "IOC" THEN b ELSE Released(b, {h})

\* What the fill of h leaves of it: a partial IOC remainder is cancelled, a
\* resting remainder waits with the quantity that is left.
AfterFill(b, h, o) ==
  IF IsPartial(o) /\ o.tif # "IOC"
    THEN [b EXCEPT !.orders[h].qty = @ - FillQty(o)]
    ELSE Released(b, {h})

\* Fault: the children a fill wakes up wait for the next bar.
ContinuedNextBar(kids) == matching_candidates

\* Children woken by a fill are considered after the bar's own candidates.
Continued(kids) == matching_candidates \o Ascending(kids)

\* The history of fills, with one of h added.
Recorded(h, o) ==
  LET first == IF h \in DOMAIN filled THEN filled[h].first ELSE next_order_sequence
  IN With(filled, h, [first |-> first, last |-> next_order_sequence,
                      full |-> ~IsPartial(o)])

Fill ==
  /\ Eligible
  /\ LET h    == Candidate
         o    == book.orders[h]
         kids == WakenedBy(book, o.id)
         b1   == Activated(book, kids)
         b2   == Released(b1, SiblingsOf(b1, o.oco, o.id))
     IN /\ Fillable(o)
        /\ book' = AfterFill(b2, h, o)
        /\ matching_candidates' = Continued(kids)
        /\ position' = position + o.side * FillQty(o)
        /\ liquidity' = [liquidity EXCEPT !.consumed = @ + FillQty(o)]
        /\ filled' = Recorded(h, o)
        /\ quantity' = [quantity EXCEPT ![h].traded = @ + FillQty(o)]
  /\ cursor' = cursor + 1
  /\ UNCHANGED <<next_order_sequence, next_bar, phase, sent, liquidated, placed>>

\* The execution model refuses the bar's volume or a fill's price: the step
\* returns an error with everything done so far in place, and the bar is still
\* the next one.
FailStep ==
  /\ phase = "commands" \/ Eligible
  /\ phase' = "idle"
  /\ NoMatching
  /\ UNCHANGED <<book, next_order_sequence, next_bar, sent, position,
                 liquidated, history>>

\* The bar completes; an open position may be liquidated after its orders.
EndBar ==
  /\ phase = "matching"
  /\ cursor > Len(matching_candidates)
  /\ phase' = "idle"
  /\ next_bar' = next_bar + 1
  /\ \/ UNCHANGED <<position, liquidated>>
     \/ position # 0 /\ Liquidate
  /\ NoMatching
  /\ UNCHANGED <<book, next_order_sequence, sent, history>>

Reset ==
  /\ phase = "idle"
  /\ book' = EmptyBook
  /\ next_order_sequence' = 0
  /\ next_bar' = 0
  /\ NoMatching
  /\ position' = 0
  /\ liquidated' = FALSE
  /\ placed' = << >>
  /\ filled' = << >>
  /\ quantity' = << >>
  /\ sent' = 0
  /\ UNCHANGED phase

Next ==
  \/ StepLiquidated
  \/ LiquidatedAtOpen
  \/ OpenBar
  \/ \E c \in Command("PLACE")      : Place(c)
  \/ \E c \in Command("CANCEL")     : Cancel(c)
  \/ \E c \in Command("AMEND")      : Amend(c)
  \/ \E c \in Command("REPLACE")    : Replace(c)
  \/ \E c \in Command("CANCEL_ALL") : CancelAll(c)
  \/ BeginMatching
  \/ SkipStale
  \/ NoFill
  \/ CancelReduceOnly
  \/ KillPartial
  \/ RejectMargin
  \/ Fill
  \/ FailStep
  \/ EndBar
  \/ Reset

Spec == Init /\ [][Next]_vars
-----------------------------------------------------------------------------
(* Properties *)

\* The types of the session's fields.
TypeOK ==
  /\ DOMAIN book.orders \subseteq 0..MaxSequence
  /\ \A h \in DOMAIN book.orders : book.orders[h] \in Order
  /\ next_order_sequence \in 0..MaxSequence
  /\ next_bar \in 0..Bars
  /\ phase \in {"idle", "commands", "matching"}
  /\ sent \in 0..MaxCommands
  /\ matching_candidates \in Seq(0..MaxSequence)
  /\ cursor \in 1..(Len(matching_candidates) + 1)
  /\ position \in Int
  /\ liquidated \in BOOLEAN
  /\ liquidity \in [capacity : Nat, consumed : Nat]

\* validate_lifecycle_indexes, which the code leaves out of production runs:
\* between any two operations each index holds exactly the live orders it
\* would hold if it were rebuilt from the arena.
IndexesAgree ==
  LET orders == book.orders IN
  /\ book.states = [h \in DOMAIN orders |-> IndexState(orders[h])]
  /\ book.live = DOMAIN orders
  /\ book.active = {h \in DOMAIN orders : orders[h].active}
  /\ book.expiry = UNION {KeyedBy(orders[h].expires, h) : h \in DOMAIN orders}
  /\ book.children = UNION {KeyedBy(orders[h].parent, h) : h \in DOMAIN orders}
  /\ book.oco = UNION {KeyedBy(orders[h].oco, h) : h \in DOMAIN orders}

\* ExternalOrderAliases::validate: the two directions of the alias index agree
\* and name live orders only.
AliasesAgree ==
  /\ \A n \in DOMAIN book.forward : book.forward[n] \in DOMAIN book.orders
  /\ book.reverse = {<<n, book.forward[n]>> : n \in DOMAIN book.forward}

\* An id leads to the newest order it was given to, through any chain of
\* replacements: a live order answers to each of its ids, except to one that
\* a newer order has been given since.
NewestOrderAnswers ==
  /\ \A n \in DOMAIN book.forward : n \in placed[book.forward[n]].names
  /\ \A h \in DOMAIN book.orders :
       \A n \in {m \in placed[h].names : m >= 0} :
         \/ n \in DOMAIN book.forward /\ book.forward[n] = h
         \/ \E later \in DOMAIN placed : later > h /\ n \in placed[later].names

\* While a bar is matched, every active order (the children a fill has just
\* woken included) is a candidate exactly once; those the cursor has passed
\* are resting orders, so that no immediate order outlives the bar; and of
\* two orders that never waited for a parent the older comes first.
EveryActiveOrderMatched ==
  phase = "matching" =>
    /\ \A h \in book.active :
         \E i \in DOMAIN matching_candidates :
           /\ matching_candidates[i] = h
           /\ i < cursor => Keeps(book.orders[h])
    /\ \A i, j \in DOMAIN matching_candidates : i < j =>
         LET a == matching_candidates[i]
             b == matching_candidates[j] IN
         /\ a # b
         /\ placed[b].order.activation = Immediate => a < b

\* Of two orders of one OCO group with ids of their own, the second fills only
\* if it was placed after the first had filled for the last time: siblings
\* that were alive together never both fill.
OcoSiblingsExclusive ==
  \A h, g \in DOMAIN filled :
    /\ placed[h].order.oco >= 0
    /\ placed[h].order.oco = placed[g].order.oco
    /\ placed[h].order.id # placed[g].order.id
    => filled[h].last <= g \/ filled[g].last <= h

\* An order that waits for a parent fills only after an order with the
\* parent's id has filled, at a time when the child had been placed.
ChildFillsAfterParent ==
  \A h \in DOMAIN filled :
    placed[h].order.activation # Immediate =>
      \E p \in DOMAIN filled :
        /\ placed[p].order.id = placed[h].order.parent
        /\ filled[p].last > h

\* Once the commands of a bar begin, a live order whose expiry the clock has
\* reached was placed in this very bar: nothing older can fill at or after its
\* expiry bar, whatever failed steps came before.
ExpiredBeforeMatching ==
  phase # "idle" =>
    \A h \in DOMAIN book.orders :
      book.orders[h].expires \in 0..next_bar => placed[h].bar = next_bar

\* Over all the bars in which an order is filled in part, amended and passed
\* over, what it has traded and what is left of it make up what it was asked
\* to trade, so that it never trades more; and an order of a fill-or-kill
\* command trades all of that or nothing, unless the position it was to reduce
\* was smaller.
QuantitiesAccounted ==
  /\ \A h \in DOMAIN book.orders :
       book.orders[h].qty = quantity[h].asked - quantity[h].traded
  /\ \A h \in DOMAIN quantity :
       /\ quantity[h].traded <= quantity[h].asked
       /\ placed[h].order.tif = "FOK" /\ ~placed[h].order.reduce_only =>
            quantity[h].traded \in {0, quantity[h].asked}

\* A reduce-only fill brings the position closer to zero and never through it.
ReduceOnlyReduces ==
  [][ phase = "matching" /\ filled' # filled /\ book.orders[Candidate].reduce_only
        => Abs(position') < Abs(position) /\ position * position' >= 0 ]_vars

\* The enumeration's promise for a child ordered ON_PARENT_FULL_FILL: when it
\* is active, an order with its parent's id has filled in full.
FullFillChildWaits ==
  \A h \in book.active :
    book.orders[h].activation = FullFill =>
      \E p \in DOMAIN filled :
        placed[p].order.id = book.orders[h].parent /\ filled[p].full

\* The registry takes an active order of a liquidated account to LIQUIDATED:
\* none is left live once the account is liquidated.
LiquidationEndsOrders == liquidated /\ phase = "idle" => book.live = {}
=============================================================================
