------------------------- MODULE MCPackageExecution -------------------------
(* Two symbols, two bars that may hold a package, and a market that turns. *)
EXTENDS PackageExecution

Quote(close, low, high, funding) ==
  [close |-> close, low |-> low, high |-> high, funding |-> funding]

\* Prices are multiples of 100: every rate below divides them exactly.
FourBars ==
  <<[A |-> Quote(100, 100, 100, 0), B |-> Quote(100, 100, 100, 0)],
    [A |-> Quote(100, 100, 100, 0), B |-> Quote(200, 100, 200, 0)],
    [A |-> Quote(200, 100, 200, 20), B |-> Quote(200, 200, 400, -20)],
    [A |-> Quote(100, 100, 200, 0), B |-> Quote(200, 200, 200, 10)]>>

PerSymbol == [A |-> 10, B |-> 2]
Fees == [A |-> 100, B |-> 0]

Leg(symbol, qty) ==
  [symbol |-> symbol, signed_qty |-> qty, source |-> "fixed", source_leg |-> 0,
   ratio |-> 1, fraction |-> 2, step |-> 1, min_qty |-> 0, min_notional |-> 0,
   age |-> 0, venue |-> 1]

\* A primary leg, and the same leg filled in half, too stale to trade, or too
\* small to be unwound after a partial fill.
Primaries ==
  {Leg("A", 2), [Leg("A", 2) EXCEPT !.fraction = 1],
   [Leg("A", 2) EXCEPT !.fraction = 1, !.min_qty = 2],
   [Leg("A", -2) EXCEPT !.age = 1]}

Hedge == [Leg("B", -2) EXCEPT !.source = "actual", !.source_leg = 1,
            !.ratio = -1]

\* Its hedge, and legs that are larger, coarser, illiquid, too small, out of
\* order, taken from a leg that is not there, or on the primary's symbol.
Seconds ==
  {Hedge, [Hedge EXCEPT !.source = "requested", !.ratio = -2],
   [Hedge EXCEPT !.step = 2], [Hedge EXCEPT !.fraction = 0],
   [Hedge EXCEPT !.min_notional = 300], [Leg("B", 2) EXCEPT !.venue = 0],
   [Hedge EXCEPT !.source_leg = 2], Leg("A", -2)}

\* A leg that undoes a part of the primary after the hedge, or none.
Thirds ==
  {<< >>, <<[Leg("A", 1) EXCEPT !.source = "actual", !.source_leg = 2]>>}

\* The planner treats best_effort as it treats sequential.
Policies == {"atomic", "sequential", "hedge_after_primary"}

Packages ==
  [policy : Policies, residual_policy : {"record", "unwind"},
   max_staleness : {0},
   legs : {<<p, q>> \o t : p \in Primaries, q \in Seconds, t \in Thirds}]
=============================================================================
