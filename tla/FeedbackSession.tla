-------------------------- MODULE FeedbackSession --------------------------
(***************************************************************************)
(* Interactive execution of one bar at a time (feedback_session.rs) over   *)
(* the bar transaction of a full session (session/transaction.rs): a       *)
(* caller opens the next bar, steps it as often as it likes with different *)
(* commands, and commits or aborts it.  A step may fail anywhere after it  *)
(* has begun to change the session.                                        *)
(*                                                                         *)
(* Module OrderLifecycle has the lifecycle inside a bar.  Here an order    *)
(* fills wholly or not at all, money is abstracted to the effects it is    *)
(* computed from, and margin to the size of the position.                  *)
(***************************************************************************)
EXTENDS Integers, SequencesExt, FiniteSets

CONSTANTS
  Bars,         \* n_bars of the prepared market
  FundingBars,  \* the bars with a funding event
  Batches,      \* the command buffers a caller may send: sequences of sides
  MaxOrders,    \* bound: the sequence at which the model stops placing orders
  Versions,     \* the account versions wrap at this number (2^64)
  NoTransaction, NoAttempt

(* What a session consists of: see Fresh. *)
Effects ==
  [kind : {"mark", "funding", "fill", "liquidate"}, bar : Nat, order : Nat]
Orders  == [sequence : 1..MaxOrders, side : {-1, 1}]
Margins == [valid : BOOLEAN, bar : Nat, notional : Nat]
Sessions ==
  [next_bar : 0..Bars, effects : Seq(Seq(Effects)), position : Int,
   liquidated : BOOLEAN, orders : SUBSET Orders, sequence : 0..MaxOrders,
   margin_cache : Margins,
   snapshot : [valid : BOOLEAN, bar : Nat, version : 0..Versions - 1,
               effects : Seq(Seq(Effects)), margin : Margins],
   version : 0..Versions - 1]

ASSUME FeedbackAssumption ==
  /\ Bars \in Nat
  /\ FundingBars \subseteq Nat
  /\ Batches \subseteq Seq({-1, 1})
  /\ MaxOrders \in Nat
  /\ Versions \in Nat \ {0}
  /\ NoTransaction \notin [bar : Nat, checkpoint : Sessions]
  /\ NoAttempt \notin Seq(Effects)

VARIABLES
  session,      \* Option<FullSession>, see Fresh
  closed,       \* the option has been taken
  transaction,  \* the session's bar_transaction: the bar and its checkpoint
  begun         \* history: the whole session when the open bar was begun

vars == <<session, closed, transaction, begun>>

-----------------------------------------------------------------------------
(* The session, and one step of it, as pure operators *)

NoCache    == [valid |-> FALSE, bar |-> 0, notional |-> 0]
NoSnapshot == [valid |-> FALSE, bar |-> 0, version |-> 0, effects |-> << >>,
               margin |-> NoCache]

NextVersion(v) == (v + 1) % Versions

\* FullSession as new and reset leave it.
Fresh ==
  [next_bar     |-> 0,           \* last_bar + 1
   effects      |-> << >>,       \* what equity is the sum of, bar by bar
   position     |-> 0,
   liquidated   |-> FALSE,
   orders       |-> {},          \* the live orders: [sequence, side]
   sequence     |-> 0,           \* next_order_sequence
   margin_cache |-> NoCache,
   snapshot     |-> NoSnapshot,  \* derived_account_cache
   version      |-> 0]           \* derived_account_versions

Abs(n) == IF n < 0 THEN -n ELSE n

Effect(kind, bar, order) == [kind |-> kind, bar |-> bar, order |-> order]

\* One more effect of the current bar, with the version it bumps.
With(s, e) ==
  [s EXCEPT !.effects[Len(s.effects)] = Append(@, e), !.version = NextVersion(@)]

\* The clock of a new bar invalidates the derived account.
Clocked(s) ==
  [s EXCEPT !.version = NextVersion(@), !.snapshot = NoSnapshot, !.effects = Append(@, << >>)]

\* Every bar but the first marks the position to its close.
Marked(s, bar) ==
  IF bar > 0 THEN With(Clocked(s), Effect("mark", bar, 0)) ELSE Clocked(s)

Funded(s, bar) ==
  IF bar \in FundingBars THEN With(s, Effect("funding", bar, 0)) ELSE s

\* Fault: the cache is read whatever bar it was computed for.
MarginReadAnyBar(s, bar) ==
  IF s.margin_cache.valid THEN s
  ELSE [s EXCEPT !.margin_cache =
          [valid |-> TRUE, bar |-> bar, notional |-> Abs(s.position)]]

\* close_margin: the margin at the closes of this bar, computed at most once.
MarginRead(s, bar) ==
  IF s.margin_cache.valid /\ s.margin_cache.bar = bar THEN s
  ELSE [s EXCEPT !.margin_cache =
          [valid |-> TRUE, bar |-> bar, notional |-> Abs(s.position)]]

\* liquidate
Liquidated(s, bar) ==
  [With(s, Effect("liquidate", bar, 0)) EXCEPT
     !.liquidated = TRUE, !.position = 0,
     !.margin_cache.valid = FALSE, !.snapshot = NoSnapshot]

\* The PLACE commands of the batch, in order.
Placed(s, sides) ==
  LET room == Min({Len(sides), MaxOrders - s.sequence}) IN
  [s EXCEPT !.orders = @ \cup {[sequence |-> s.sequence + i, side |-> sides[i]] :
                                 i \in 1..room},
            !.sequence = @ + room]

\* Fault: the cached margin does not follow the position.
FilledUncached(s, o, bar) ==
  [With(MarginRead(s, bar), Effect("fill", bar, o.sequence)) EXCEPT
     !.position = @ + o.side, !.orders = @ \ {o}]

\* One fill: the margin check reads the cache, the fill then updates it.
Filled(s, o, bar) ==
  LET s1  == MarginRead(s, bar)
      new == s1.position + o.side
  IN [With(s1, Effect("fill", bar, o.sequence)) EXCEPT
        !.position = new,
        !.margin_cache.notional = @ + Abs(new) - Abs(s1.position),
        !.orders = @ \ {o}]

\* The orders of F in sequence order, each at the place its rank gives it.
InOrder(F) ==
  [i \in 1..Cardinality(F) |->
     CHOOSE o \in F : Cardinality({p \in F : p.sequence < o.sequence}) = i - 1]

\* The orders of F filled, one after the other.
AllFilled(s, F, bar) ==
  FoldLeft(LAMBDA t, o : Filled(t, o, bar), s, InOrder(F))

Completed(s, bar) == [s EXCEPT !.next_bar = bar + 1]

\* post_execution_account_snapshot, at the end of a completed step.
Snapshot(s, bar) ==
  LET s1 == IF s.liquidated THEN s ELSE MarginRead(s, bar) IN
  [s1 EXCEPT !.snapshot =
     [valid |-> TRUE, bar |-> bar, version |-> s1.version, effects |-> s1.effects,
      margin |-> IF s1.liquidated THEN NoCache ELSE s1.margin_cache]]

Ok(s)  == [ok |-> TRUE, session |-> s]
Err(s)  == [ok |-> FALSE, session |-> s]

\* Everything one call of step_with_buffers can end in: the bar of a liquidated
\* session; a liquidation before or after funding; an error of the execution
\* model before or between fills; a completed bar, with or without a
\* liquidation after its orders.  The margins after funding and after the
\* orders are read through the cache, the intrabar ones are not.
Outcomes(s, bar, sides) ==
  LET marked  == Marked(s, bar)
      funded  == MarginRead(Funded(marked, bar), bar)
      ready   == Placed(funded, sides)
      After(F) == AllFilled(ready, F, bar)
      exposed == {t \in {marked} : t.position # 0}
                   \cup {t \in {funded} : t.margin_cache.notional > 0}
      failed  == {ready} \cup {After(F) : F \in SUBSET ready.orders \ {ready.orders}}
      traded  == {MarginRead(After(F), bar) : F \in SUBSET ready.orders}
      ended   == traded \cup {Liquidated(t, bar) :
                                 t \in {u \in traded : u.margin_cache.notional > 0}}
  IN IF s.liquidated
       THEN {Ok(Completed(Clocked(s), bar))}
       ELSE {Ok(Completed(Liquidated(t, bar), bar)) : t \in exposed}
              \cup {Err(t) : t \in failed}
              \cup {Ok(Snapshot(Completed(t, bar), bar)) : t \in ended}

-----------------------------------------------------------------------------
(* The checkpoint *)

\* MutableBarCheckpoint::capture: the fields of a session that a step changes.
Captured(s) ==
  [next_bar |-> s.next_bar, effects |-> s.effects, position |-> s.position,
   liquidated |-> s.liquidated, orders |-> s.orders, sequence |-> s.sequence,
   margin_cache |-> s.margin_cache, snapshot |-> s.snapshot,
   version |-> s.version]

\* Fault: the margin cache is taken for scratch and not restored.
RestoredButCache(c, s) == [c EXCEPT !.margin_cache = s.margin_cache]

\* MutableBarCheckpoint::restore of checkpoint c over the session s.
Restored(c, s) ==
  [s EXCEPT !.next_bar = c.next_bar, !.effects = c.effects,
            !.position = c.position, !.liquidated = c.liquidated,
            !.orders = c.orders, !.sequence = c.sequence,
            !.margin_cache = c.margin_cache, !.snapshot = c.snapshot,
            !.version = c.version]

-----------------------------------------------------------------------------
Init ==
  /\ session = Fresh
  /\ closed = FALSE
  /\ transaction = NoTransaction
  /\ begun = Fresh

InTransaction == transaction # NoTransaction

\* begin: only the next canonical bar of the market can be opened.
Begin(bar) ==
  /\ ~closed
  /\ ~InTransaction
  /\ bar < Bars
  /\ bar = session.next_bar
  /\ transaction' = [bar |-> bar, checkpoint |-> Captured(session)]
  /\ begun' = session
  /\ UNCHANGED <<session, closed>>

\* Fault: a second step goes on from the first.
BaseAsStepped == session

\* retry_bar_transaction, when the open bar has been stepped already.
Base ==
  IF session.next_bar # transaction.bar
    THEN Restored(transaction.checkpoint, session) ELSE session

\* The first bar is the initial account snapshot: its commands are dropped.
Sides(sides) == IF transaction.bar = 0 THEN << >> ELSE sides

\* Fault: a failed step is left as it is.
KeptAfterError(out) == out.session

\* execute_step returns the session of a completed step and rewinds a failed
\* one.
AfterStep(out) ==
  IF out.ok THEN out.session ELSE Restored(transaction.checkpoint, out.session)

Step(sides) ==
  /\ ~closed
  /\ InTransaction
  /\ \E out \in Outcomes(Base, transaction.bar, Sides(sides)) :
       session' = AfterStep(out)
  /\ UNCHANGED <<closed, transaction, begun>>

Committable == InTransaction /\ session.next_bar = transaction.bar + 1

Commit ==
  /\ ~closed
  /\ Committable
  /\ transaction' = NoTransaction
  /\ UNCHANGED <<session, closed, begun>>

Abort ==
  /\ ~closed
  /\ InTransaction
  /\ session' = Restored(transaction.checkpoint, session)
  /\ transaction' = NoTransaction
  /\ UNCHANGED <<closed, begun>>

\* reset drops an open transaction; the versions are bumped, not restarted.
Reset ==
  /\ ~closed
  /\ session' = [Fresh EXCEPT !.version = NextVersion(session.version)]
  /\ transaction' = NoTransaction
  /\ begun' = Fresh
  /\ UNCHANGED closed

\* close drops the session, with its transaction, for good.
Close ==
  /\ ~closed
  /\ closed' = TRUE
  /\ session' = Fresh
  /\ transaction' = NoTransaction
  /\ begun' = Fresh

Next ==
  \/ \E bar \in 0..Bars : Begin(bar)
  \/ \E sides \in Batches : Step(sides)
  \/ Commit
  \/ Abort
  \/ Reset
  \/ Close

Spec == Init /\ [][Next]_vars

-----------------------------------------------------------------------------
(* Properties *)

\* The types of the session and of its transaction; an open transaction's bar
\* is the next one, or the last one after a step.
TypeOK ==
  /\ session \in Sessions /\ begun \in Sessions
  /\ closed \in BOOLEAN
  /\ transaction \in {NoTransaction} \cup [bar : 0..Bars - 1, checkpoint : Sessions]
  /\ Len(session.effects) = session.next_bar
  /\ InTransaction =>
       /\ transaction.checkpoint.next_bar = transaction.bar
       /\ session.next_bar \in {transaction.bar, transaction.bar + 1}

\* While an open bar has no completed step, the session is in every field what
\* it was when the bar was begun, whatever attempts have failed since.
FailedStepLeavesNoTrace ==
  InTransaction /\ session.next_bar = transaction.bar => session = begun

\* A margin cache that the next read would accept (its bar is the last one or
\* the open one) holds the margin of the position the session has.
MarginCacheCurrent ==
  session.margin_cache.valid
    /\ session.margin_cache.bar \in {session.next_bar - 1, session.next_bar}
    => session.margin_cache.notional = Abs(session.position)

\* A snapshot that post_execution_account_snapshot would serve from its cache
\* is the one it would recompute: every effect so far, and the margin of the
\* position at the closes of the bar it is asked for.
SnapshotCurrent ==
  /\ session.snapshot.valid
  /\ session.snapshot.bar + 1 = session.next_bar
  /\ session.snapshot.version = session.version
  => /\ session.snapshot.effects = session.effects
     /\ session.snapshot.margin =
          IF session.liquidated THEN NoCache
          ELSE [valid |-> TRUE, bar |-> session.next_bar - 1,
                notional |-> Abs(session.position)]

\* The session implements the history of atomic bars, reading its committed
\* bars off the checkpoint of the open one.
Atomic ==
  INSTANCE AtomicBars WITH
    history <- IF InTransaction THEN transaction.checkpoint.effects ELSE session.effects,
    open    <- InTransaction,
    attempt <- IF InTransaction /\ session.next_bar # transaction.bar
                 THEN session.effects[Len(session.effects)] ELSE NoAttempt
ImplementsAtomicBars == Atomic!ASpec
=============================================================================
