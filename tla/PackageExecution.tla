-------------------------- MODULE PackageExecution --------------------------
(***************************************************************************)
(* Same-account packages of market orders (quantbt-package/src/v2.rs and   *)
(* its caller in quantbt-execution/src/lib.rs).  Before each bar's step    *)
(* the package of that bar is planned against a projection of the account, *)
(* leg by leg, under one of four policies; the quantities the plan expects *)
(* to fill become market orders, and the session, which owns the account,  *)
(* marks itself and matches them on its own arithmetic.                    *)
(*                                                                         *)
(* Amounts are integers.  A price stands for price times contract size, a  *)
(* quantity counts the smallest unit, funding is the cost of one unit, and *)
(* rates are thousandths.  The planner forgives an amount of money that is *)
(* short by EPSILON, here Tolerance; the session forgives nothing.  The    *)
(* tolerances on quantities, all below the smallest unit, are left out.    *)
(***************************************************************************)
EXTENDS Integers, FiniteSets, SequencesExt

CONSTANTS
  Symbols,
  Market,           \* the bars: for each symbol its close, low, high, funding
  Intents,          \* the packages a tape may hold
  Capitals,         \* the equity a run may start with
  Leverage, FeeRate,            \* per symbol
  SlippageRate, MaintenanceRatio, \* of the account
  Tolerance         \* the planner's EPSILON, as an amount of money

ASSUME ToleranceAssumption == Tolerance \in Nat

Thousandths(amount, rate) == (amount * rate) \div 1000

\* PackageLegIntentV2.  fraction counts halves; age is in the unit of a
\* package's max_staleness.
LegIntent ==
  [symbol : Symbols, signed_qty : Int, source : {"fixed", "requested", "actual"},
   source_leg : Nat, ratio : Int, fraction : 0..2, step : Nat \ {0},
   min_qty : Nat, min_notional : Nat, age : Nat, venue : Nat]

ASSUME PackageAssumption ==
  \A i \in Intents : i.legs \in Seq(LegIntent) /\ i.legs # << >>

\* A market has finitely many symbols, and validate_request takes no package
\* at closes that are not positive.
ASSUME MarketAssumption ==
  /\ IsFiniteSet(Symbols)
  /\ Market \in Seq([Symbols -> [close : Nat, low : Nat, high : Nat,
                                 funding : Int]])

VARIABLES
  pc,          \* where the runner is within a bar
  bar,
  positions, equity, liquidated,  \* the session's account
  intent,      \* the package of the bar, or NoIntent
  plan,        \* the planner's working state
  leg,         \* the leg the planner is at
  outcome,     \* what the plan reports: final state, outstanding exposure
  cursor,      \* the command the session matches next
  rejected,    \* commands the session has rejected in this bar
  refusal,     \* history: by how much the first of them was short of margin
  before,      \* history: the positions the bar's orders start from
  path         \* history: the account the plan expects after each command

vars == <<pc, bar, positions, equity, liquidated, intent, plan, leg, outcome,
          cursor, rejected, refusal, before, path>>

NoIntent == [policy |-> "none"]
NoOutcome == [final |-> "none", outstanding |-> 0]
Aborted == [final |-> "aborted", outstanding |-> 0]

-----------------------------------------------------------------------------
(* Prices and margins *)

Quotes == Market[bar + 1]

Magnitude(q) == IF q < 0 THEN -q ELSE q
Sign(q) == IF q < 0 THEN -1 ELSE 1
Excess(x) == IF x > 0 THEN x ELSE 0

SumOver(f) == FoldFunction(+, 0, f)

\* total_initial_margin, compute_close_margin: at the closes of quotes q.
InitialMargin(q, units) ==
  SumOver([s \in Symbols |-> (Magnitude(units[s]) * q[s].close) \div Leverage[s]])

MaintenanceMargin(units) ==
  SumOver([s \in Symbols |->
             Thousandths(Magnitude(units[s]) * Quotes[s].close, MaintenanceRatio)])

\* The gain of the open positions from the previous close to this one.
PriceMove ==
  IF bar = 0 THEN 0
  ELSE SumOver([s \in Symbols |->
                  positions[s] * (Quotes[s].close - Market[bar][s].close)])

FundingCost == SumOver([s \in Symbols |-> positions[s] * Quotes[s].funding])

\* intrabar_liquidated: the account at the worst price of the bar.
IntrabarLiquidated(marked) ==
  LET Worst(s) == IF positions[s] > 0 THEN Quotes[s].low ELSE Quotes[s].high
      worst_equity == marked + SumOver([s \in Symbols |->
                        positions[s] * (Worst(s) - Quotes[s].close)])
      worst_maintenance == SumOver([s \in Symbols |->
        Thousandths(Magnitude(positions[s]) * Worst(s), MaintenanceRatio)])
  IN worst_maintenance > 0 /\ worst_equity <= worst_maintenance

BelowMaintenance(units, funds) ==
  MaintenanceMargin(units) > 0 /\ funds <= MaintenanceMargin(units)

\* Fault: the projection looks at the account before funding.
ProjectedUnfunded ==
  LET marked == equity + PriceMove IN
  [equity |-> marked,
   liquidated |-> liquidated \/ IntrabarLiquidated(marked)
                             \/ BelowMaintenance(positions, marked)]

\* project_pre_command_account_v1: what the step of the bar will have made of
\* the account by the time it looks at its commands.
Projected ==
  LET marked == equity + PriceMove
      funded == marked - FundingCost IN
  [equity |-> funded,
   liquidated |-> liquidated \/ IntrabarLiquidated(marked)
                             \/ BelowMaintenance(positions, funded)]

-----------------------------------------------------------------------------
(* The planner's arithmetic *)

\* quantize_signed, of n / d.
Quantized(n, d, step) == Sign(n) * ((Magnitude(n) \div (d * step)) * step)

\* A leg may only take its quantity from an earlier one.
Resolvable(l, k) == l.source = "fixed" \/ l.source_leg \in 1..(k - 1)

\* Fault: a hedge is sized by what its source was asked to trade.
ResolvedAsRequested(l, p) ==
  IF l.source = "fixed" THEN Quantized(l.signed_qty, 1, l.step)
  ELSE Quantized(p.requested[l.source_leg] * l.ratio, 1, l.step)

\* resolve_requested, for a leg that can be resolved.
Resolved(l, p) ==
  LET from == IF l.source = "requested" THEN p.requested ELSE p.filled IN
  IF l.source = "fixed" THEN Quantized(l.signed_qty, 1, l.step)
  ELSE Quantized(from[l.source_leg] * l.ratio, 1, l.step)

\* leg_reject_reason; fields that are not numbers are not modelled.
RejectReason(l, qty) ==
  CASE qty = 0                                        -> "invalid_leg"
    [] intent.max_staleness \in 0..(l.age - 1)        -> "stale_market"
    [] Magnitude(qty) < l.min_qty                     -> "min_qty"
    [] Magnitude(qty) * Quotes[l.symbol].close + Tolerance < l.min_notional
                                                      -> "min_notional"
    [] l.fraction = 0                                 -> "no_liquidity"
    [] OTHER                                          -> "accepted"

\* attempt_leg: an attempt of qty, of which halves / 2 is filled, on an account
\* with the given units and funds.  The demand may exceed the free margin by
\* Tolerance.
Attempt(l, qty, halves, units, funds) ==
  LET s == l.symbol
      close == Quotes[s].close
      actual == Quantized(qty * halves, 2, l.step)
      price == close + Sign(actual) * Thousandths(close, SlippageRate)
      new_units == [units EXCEPT ![s] = @ + actual]
      old_initial == (Magnitude(units[s]) * close) \div Leverage[s]
      new_initial == (Magnitude(new_units[s]) * price) \div Leverage[s]
      fee == Thousandths(Magnitude(actual) * price, FeeRate[s])
      demand == fee + Excess(new_initial - old_initial)
      free == funds - InitialMargin(Quotes, units)
      reason == IF RejectReason(l, qty) # "accepted" THEN RejectReason(l, qty)
                ELSE IF actual = 0 THEN "no_liquidity"
                ELSE IF price <= 0 THEN "invalid_leg"
                ELSE IF demand <= free + Tolerance THEN "accepted"
                ELSE "margin"
  IN [reason |-> reason, actual |-> actual, units |-> new_units,
      equity |-> funds + (actual * (close - price) - fee)]

-----------------------------------------------------------------------------
(* The planner: execute_package_market_v2 *)

EmptyPlan ==
  [units |-> << >>, equity |-> 0, requested |-> << >>, filled |-> << >>,
   compensation |-> << >>, accepted |-> << >>, residuals |-> {},
   commands |-> << >>]

FreshPlan(n, funds) ==
  [units |-> positions, equity |-> funds,
   requested |-> [k \in 1..n |-> 0], filled |-> [k \in 1..n |-> 0],
   compensation |-> [k \in 1..n |-> 0], accepted |-> [k \in 1..n |-> FALSE],
   residuals |-> {}, commands |-> << >>]

Residual(k, qty, reason) == [leg |-> k, quantity |-> qty, reason |-> reason]

Command(l, qty) == [symbol |-> l.symbol, qty |-> qty]

LegsInOrder(legs) ==
  \A k \in 2..Len(legs) : legs[k - 1].venue <= legs[k].venue

\* The package of this bar; the last bar is left for reconciliation.
MayHold == pc = "callback" /\ bar > 0 /\ bar + 1 < Len(Market)

\* Fault: what has been planned before the refusal is still sent.
RefusedInPart ==
  /\ outcome' = Aborted
  /\ pc' = "step"
  /\ UNCHANGED <<plan, path>>

\* A package that is refused as a whole leaves no plan and no commands.
Refused ==
  /\ outcome' = Aborted
  /\ pc' = "step"
  /\ plan' = EmptyPlan
  /\ path' = << >>

NoPackage ==
  /\ pc = "callback"
  /\ pc' = "step"
  /\ UNCHANGED <<bar, positions, equity, liquidated, intent, plan, leg,
                 outcome, cursor, rejected, refusal, before, path>>

\* abort_package_market_v2: the account will not survive to its commands.
AbortPackage(i) ==
  /\ MayHold
  /\ Projected.liquidated
  /\ intent' = i
  /\ Refused
  /\ UNCHANGED <<bar, positions, equity, liquidated, leg, cursor, rejected,
                 refusal, before>>

\* validate_request: no equity is an error of the run, not of the package.
FailRun(i) ==
  /\ MayHold
  /\ ~Projected.liquidated
  /\ Projected.equity <= 0
  /\ intent' = i
  /\ pc' = "failed"
  /\ UNCHANGED <<bar, positions, equity, liquidated, plan, leg, outcome,
                 cursor, rejected, refusal, before, path>>

Refusable(i) ==
  \/ ~LegsInOrder(i.legs)
  \/ i.policy = "atomic" /\ \E k \in DOMAIN i.legs : i.legs[k].fraction # 2

RefusePackage(i) ==
  /\ MayHold
  /\ ~Projected.liquidated
  /\ Projected.equity > 0
  /\ Refusable(i)
  /\ intent' = i
  /\ Refused
  /\ UNCHANGED <<bar, positions, equity, liquidated, leg, cursor, rejected,
                 refusal, before>>

StartPlan(i) ==
  /\ MayHold
  /\ ~Projected.liquidated
  /\ Projected.equity > 0
  /\ ~Refusable(i)
  /\ intent' = i
  /\ plan' = FreshPlan(Len(i.legs), Projected.equity)
  /\ leg' = 1
  /\ path' = <<[units |-> positions, equity |-> Projected.equity]>>
  /\ pc' = "plan"
  /\ UNCHANGED <<bar, positions, equity, liquidated, outcome, cursor, rejected,
                 refusal, before>>

\* The plan with leg k traded as attempt a.
Traded(p, k, a) ==
  [p EXCEPT !.units = a.units, !.equity = a.equity,
            !.commands = Append(@, Command(intent.legs[k], a.actual))]

\* The plan with leg k asked for value and filled as attempt a.
Accepted(p, k, value, a) ==
  [Traded(p, k, a) EXCEPT
     !.requested[k] = value, !.filled[k] = a.actual, !.accepted[k] = TRUE,
     !.residuals = IF a.actual = value THEN @
                   ELSE @ \cup {Residual(k, value - a.actual, "partial_fill")}]

PathAfter(a) == Append(path, [units |-> a.units, equity |-> a.equity])

Planning == pc = "plan" /\ leg \in DOMAIN intent.legs

\* One leg of an atomic package: all of it, or the package is off.  The code
\* writes the commands of the package after its last leg; until then a refusal
\* drops them with the plan.
PlanAtomicLeg ==
  LET l == intent.legs[leg]
      value == Resolved(l, plan)
      a == Attempt(l, value, l.fraction, plan.units, plan.equity)
  IN
  /\ Planning
  /\ intent.policy = "atomic"
  /\ \/ /\ Resolvable(l, leg) => a.reason # "accepted" \/ a.actual # value
        /\ Refused
        /\ UNCHANGED leg
     \/ /\ Resolvable(l, leg)
        /\ a.reason = "accepted"
        /\ a.actual = value
        /\ plan' = Accepted(plan, leg, value, a)
        /\ path' = PathAfter(a)
        /\ leg' = leg + 1
        /\ UNCHANGED <<pc, outcome>>
  /\ UNCHANGED <<bar, positions, equity, liquidated, intent, cursor, rejected,
                 refusal, before>>

\* A hedge is not tried when its primary has not been taken.
PrimaryRejected ==
  intent.policy = "hedge_after_primary" /\ leg > 1 /\ ~plan.accepted[1]

\* One leg of a package of any other policy: what can be had of it.
PlanLeg ==
  LET l == intent.legs[leg]
      value == Resolved(l, plan)
      a == Attempt(l, value, l.fraction, plan.units, plan.equity)
  IN
  /\ Planning
  /\ intent.policy # "atomic"
  /\ leg' = leg + 1
  /\ \/ /\ ~Resolvable(l, leg)
        /\ plan' = [plan EXCEPT !.residuals = @ \cup
             {Residual(leg, Quantized(l.signed_qty, 1, l.step), "rejected")}]
        /\ UNCHANGED path
     \/ /\ Resolvable(l, leg)
        /\ PrimaryRejected \/ a.reason # "accepted"
        /\ plan' = [plan EXCEPT !.requested[leg] = value,
                      !.residuals = @ \cup {Residual(leg, value, "rejected")}]
        /\ UNCHANGED path
     \/ /\ Resolvable(l, leg)
        /\ ~PrimaryRejected
        /\ a.reason = "accepted"
        /\ plan' = Accepted(plan, leg, value, a)
        /\ path' = PathAfter(a)
  /\ UNCHANGED <<pc, bar, positions, equity, liquidated, intent, outcome,
                 cursor, rejected, refusal, before>>

Planned == pc = "plan" /\ leg \notin DOMAIN intent.legs

AnyAccepted == \E k \in DOMAIN plan.accepted : plan.accepted[k]

\* Fault: the legs are netted against each other.
OutstandingNetted ==
  Magnitude(SumOver([k \in DOMAIN intent.legs |->
    (plan.filled[k] + plan.compensation[k])
      * Quotes[intent.legs[k].symbol].close]))

\* outstanding_gross_notional: gross over the legs, never netted.
Outstanding ==
  SumOver([k \in DOMAIN intent.legs |->
    Magnitude(plan.filled[k] + plan.compensation[k])
      * Quotes[intent.legs[k].symbol].close])

\* The end of the first pass: aborted, filled, left with a residual, or on to
\* the unwinding of what has been filled.
FinishPlan ==
  /\ Planned
  /\ \/ /\ ~AnyAccepted
        /\ outcome' = Aborted
        /\ pc' = "step"
        /\ UNCHANGED leg
     \/ /\ AnyAccepted
        /\ plan.residuals = {}
        /\ outcome' = [final |-> "completed_hedged", outstanding |-> 0]
        /\ pc' = "step"
        /\ UNCHANGED leg
     \/ /\ AnyAccepted
        /\ plan.residuals # {}
        /\ intent.residual_policy = "record"
        /\ outcome' = [final |-> "completed_with_residual",
                       outstanding |-> Outstanding]
        /\ pc' = "step"
        /\ UNCHANGED leg
     \/ /\ AnyAccepted
        /\ plan.residuals # {}
        /\ intent.residual_policy = "unwind"
        /\ pc' = "unwind"
        /\ leg' = Len(intent.legs)
        /\ UNCHANGED outcome
  /\ UNCHANGED <<bar, positions, equity, liquidated, intent, plan, cursor,
                 rejected, refusal, before, path>>

\* The unwinding of one leg, from the last to the first.  A leg that cannot be
\* unwound is passed over and stays outstanding.
UnwindLeg ==
  LET l == intent.legs[leg]
      a == Attempt(l, -plan.filled[leg], 2, plan.units, plan.equity)
  IN
  /\ pc = "unwind"
  /\ leg \in DOMAIN intent.legs
  /\ leg' = leg - 1
  /\ \/ /\ ~plan.accepted[leg] \/ a.reason # "accepted"
        /\ UNCHANGED <<plan, path>>
     \/ /\ plan.accepted[leg]
        /\ a.reason = "accepted"
        /\ plan' = [Traded(plan, leg, a) EXCEPT
                      !.compensation[leg] = @ + a.actual,
                      !.residuals = @ \cup {Residual(leg, a.actual, "unwound")}]
        /\ path' = PathAfter(a)
  /\ UNCHANGED <<pc, bar, positions, equity, liquidated, intent, outcome,
                 cursor, rejected, refusal, before>>

FinishUnwind ==
  /\ pc = "unwind"
  /\ leg \notin DOMAIN intent.legs
  /\ outcome' = [final |-> IF Outstanding <= Tolerance THEN "completed_hedged"
                           ELSE "completed_with_residual",
                 outstanding |-> Outstanding]
  /\ pc' = "step"
  /\ UNCHANGED <<bar, positions, equity, liquidated, intent, plan, leg, cursor,
                 rejected, refusal, before, path>>
-----------------------------------------------------------------------------
(* The session: step_with_buffers *)

\* The session is stepped with the orders of the plan, if there is one.
Cleared == [s \in Symbols |-> 0]

\* A liquidated account takes no part in the bar.
StepLiquidated ==
  /\ pc = "step"
  /\ liquidated
  /\ pc' = "closed"
  /\ UNCHANGED <<bar, positions, equity, liquidated, intent, plan, leg,
                 outcome, cursor, rejected, refusal, before, path>>

Marked == equity + PriceMove

StepLiquidates ==
  /\ pc = "step"
  /\ ~liquidated
  /\ \/ IntrabarLiquidated(Marked)
     \/ BelowMaintenance(positions, Marked - FundingCost)
  /\ liquidated' = TRUE
  /\ equity' = 0
  /\ positions' = Cleared
  /\ pc' = "closed"
  /\ UNCHANGED <<bar, intent, plan, leg, outcome, cursor, rejected, refusal,
                 before, path>>

StepOpens ==
  /\ pc = "step"
  /\ ~liquidated
  /\ ~IntrabarLiquidated(Marked)
  /\ ~BelowMaintenance(positions, Marked - FundingCost)
  /\ equity' = Marked - FundingCost
  /\ before' = positions
  /\ cursor' = 1
  /\ pc' = "match"
  /\ UNCHANGED <<bar, positions, liquidated, intent, plan, leg, outcome,
                 rejected, refusal, path>>

\* compile_package_commands_v2: a market order, good till cancelled, with the
\* side and the size of the command.
Compiled(c) ==
  [symbol |-> c.symbol, side |-> Sign(c.qty), qty |-> Magnitude(c.qty)]

\* The matching loop on one market order: preview_fill at the close, the
\* margin check, and the account after the fill.  The planner would have let
\* pass what is tolerable.
Fill(q, o, units, funds) ==
  LET s == o.symbol
      close == q[s].close
      price == close + o.side * Thousandths(close, SlippageRate)
      delta == o.qty * o.side
      turnover == o.qty * price
      fee == Thousandths(turnover, FeeRate[s])
      old_initial == (Magnitude(units[s]) * close) \div Leverage[s]
      new_initial == (Magnitude(units[s] + delta) * price) \div Leverage[s]
      required == fee + Excess(new_initial - old_initial)
      free == funds - InitialMargin(q, units)
  IN [allowed |-> required <= free,
      tolerable |-> required <= free + Tolerance,
      units |-> [units EXCEPT ![s] = @ + delta],
      equity |-> funds + (delta * (close - price) - fee)]

MatchOrder ==
  /\ pc = "match"
  /\ cursor \in DOMAIN plan.commands
  /\ cursor' = cursor + 1
  /\ LET f == Fill(Quotes, Compiled(plan.commands[cursor]), positions, equity) IN
     \/ /\ f.allowed
        /\ positions' = f.units
        /\ equity' = f.equity
        /\ UNCHANGED <<rejected, refusal>>
     \/ /\ ~f.allowed
        /\ rejected' = rejected + 1
        /\ refusal' = IF refusal # "none" THEN refusal
                      ELSE IF f.tolerable THEN "tolerable" ELSE "beyond"
        /\ UNCHANGED <<positions, equity>>
  /\ UNCHANGED <<pc, bar, liquidated, intent, plan, leg, outcome, before,
                 path>>

\* Every order of the bar has been matched.
Settled == pc = "match" /\ cursor \notin DOMAIN plan.commands

NextBar ==
  /\ bar' = bar + 1
  /\ pc' = IF bar + 1 < Len(Market) THEN "callback" ELSE "done"
  /\ intent' = NoIntent
  /\ plan' = EmptyPlan
  /\ leg' = 0
  /\ outcome' = NoOutcome
  /\ cursor' = 1
  /\ rejected' = 0
  /\ refusal' = "none"
  /\ before' = << >>
  /\ path' = << >>

\* The end of the step: liquidation after orders, and on to the next bar.
CloseBar ==
  \/ /\ Settled
     /\ BelowMaintenance(positions, equity)
     /\ liquidated' = TRUE
     /\ equity' = 0
     /\ positions' = Cleared
     /\ NextBar
  \/ /\ Settled
     /\ ~BelowMaintenance(positions, equity)
     /\ NextBar
     /\ UNCHANGED <<liquidated, equity, positions>>
  \/ /\ pc = "closed"
     /\ NextBar
     /\ UNCHANGED <<liquidated, equity, positions>>

Init ==
  /\ pc = "callback"
  /\ bar = 0
  /\ positions = Cleared
  /\ equity \in Capitals
  /\ liquidated = FALSE
  /\ intent = NoIntent
  /\ plan = EmptyPlan
  /\ leg = 0
  /\ outcome = NoOutcome
  /\ cursor = 1
  /\ rejected = 0
  /\ refusal = "none"
  /\ before = << >>
  /\ path = << >>

Next ==
  \/ NoPackage
  \/ \E i \in Intents :
       AbortPackage(i) \/ FailRun(i) \/ RefusePackage(i) \/ StartPlan(i)
  \/ PlanAtomicLeg \/ PlanLeg \/ FinishPlan \/ UnwindLeg \/ FinishUnwind
  \/ StepLiquidated \/ StepLiquidates \/ StepOpens \/ MatchOrder \/ CloseBar

Spec == Init /\ [][Next]_vars

-----------------------------------------------------------------------------
(* Properties *)

\* Type invariant.  The plan keeps one entry per leg of its package, commands
\* have a size, and the planner and the session stay within their sequences.
\* Money is left out: no property rests on its type.
TypeOK ==
  /\ pc \in {"callback", "plan", "unwind", "step", "match", "closed", "done",
             "failed"}
  /\ positions \in [Symbols -> Int]
  /\ liquidated \in BOOLEAN
  /\ intent \in Intents \cup {NoIntent}
  /\ plan.commands \in Seq([symbol : Symbols, qty : Int \ {0}])
  /\ cursor \in 1..(Len(plan.commands) + 1)
  /\ pc \in {"plan", "unwind"} =>
       /\ intent \in Intents
       /\ leg \in 0..(Len(intent.legs) + 1)
       /\ plan.units \in [Symbols -> Int]
       /\ plan.requested \in [DOMAIN intent.legs -> Int]
       /\ plan.filled \in [DOMAIN intent.legs -> Int]
       /\ plan.compensation \in [DOMAIN intent.legs -> Int]
       /\ plan.accepted \in [DOMAIN intent.legs -> BOOLEAN]

\* What the planner expects is what the session does.  A planned package never
\* meets a liquidation before its orders; order by order, the session's account
\* is the one the plan has foreseen, to the account after the last order; and
\* should the session reject an order where it still is, the free margin was
\* short by Tolerance at most: the planner and the session part nowhere else.
PreviewIsCommitted ==
  /\ pc = "closed" => plan.commands = << >>
  /\ pc = "match" /\ plan.commands # << >> /\ refusal = "none" =>
       positions = path[cursor].units /\ equity = path[cursor].equity
  /\ Settled /\ plan.commands # << >> /\ refusal = "none" =>
       positions = plan.units /\ equity = plan.equity
  /\ refusal \in {"none", "tolerable"}
  /\ refusal = "none" => rejected = 0

\* The orders of the bar have met no free margin that only the planner's
\* tolerance stretched far enough.
NoneTolerated == refusal # "tolerable"

\* The session's account has moved by all that every leg asked for.
AllLegsTraded ==
  \A s \in Symbols :
    positions[s] = before[s] + SumOver([k \in DOMAIN intent.legs |->
      IF intent.legs[k].symbol = s THEN plan.requested[k] ELSE 0])

\* An atomic package moves the session's account by all that every leg asked
\* for, or, when it reports that it was aborted, not at all: neither a leg
\* refused after others were planned, nor an order the session would reject,
\* leaves a part of the package in the account, unless the planner passed that
\* order by its tolerance.
AtomicAllOrNothing ==
  Settled /\ intent.policy = "atomic" =>
    IF outcome = Aborted
    THEN positions = before
    ELSE NoneTolerated => AllLegsTraded

\* The contract's promise for an atomic package: all or nothing.
AtomicPackageWhole ==
  Settled /\ intent.policy = "atomic" /\ outcome # Aborted => AllLegsTraded

\* A package that ended with a residual does not hide what it leaves in the
\* session's account: the exposure it reports as outstanding covers every
\* position it has moved, whichever part of the unwinding failed, unless an
\* order was refused that the planner passed by its tolerance.
OutstandingCoversExposure ==
  Settled /\ plan.residuals # {} /\ outcome # Aborted /\ NoneTolerated =>
    SumOver([s \in Symbols |->
      Magnitude(positions[s] - before[s]) * Quotes[s].close])
      <= outcome.outstanding

\* A leg sized by an actual fill never trades more than its ratio of what that
\* leg has filled, and no leg of a hedged package trades before its primary.
HedgeWithinPrimary ==
  pc \in {"plan", "unwind"} =>
    \A k \in DOMAIN plan.accepted :
      plan.accepted[k] =>
        /\ intent.policy = "hedge_after_primary" => plan.accepted[1]
        /\ intent.legs[k].source = "actual" =>
             LET source == intent.legs[k].source_leg IN
             /\ plan.accepted[source]
             /\ Magnitude(plan.filled[k])
                  <= Magnitude(intent.legs[k].ratio * plan.filled[source])
=============================================================================
