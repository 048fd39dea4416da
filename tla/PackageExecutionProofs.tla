----------------------- MODULE PackageExecutionProofs -----------------------
(***************************************************************************)
(* Theorems about PackageExecution: what the planner has previewed is what *)
(* the session commits.                                                    *)
(***************************************************************************)
EXTENDS PackageExecution, DataLemmas, TLAPS

(* Arithmetic of quantities *)

\* quantize_signed rounds a quantity towards zero.
LEMMA QuantizedBound ==
  ASSUME NEW n \in Int, NEW d \in Nat \ {0}, NEW step \in Nat \ {0}
  PROVE  /\ Quantized(n, d, step) \in Int
         /\ d * Magnitude(Quantized(n, d, step)) <= Magnitude(n)
<1> DEFINE m == Magnitude(n)
           k == m \div (d * step)
<1>1. m \in Nat /\ d * step \in Nat \ {0}
  BY DEF Magnitude
<1>2. k \in Nat /\ (d * step) * k <= m
  BY <1>1
<1>3. k * step \in Nat /\ d * (k * step) = (d * step) * k
  BY <1>2
<1>4. Quantized(n, d, step) = k * step \/ Quantized(n, d, step) = -(k * step)
  BY <1>1, <1>2, <1>3 DEF Quantized, Sign
<1>5. Magnitude(Quantized(n, d, step)) = k * step
  BY <1>3, <1>4 DEF Magnitude
<1> QED
  BY <1>2, <1>3, <1>4, <1>5

\* A quantity of halves is at most half of them.
LEMMA HalvesBound ==
  ASSUME NEW n \in Int, NEW step \in Nat \ {0}
  PROVE  /\ Quantized(n, 2, step) \in Int
         /\ Magnitude(Quantized(n, 2, step)) + Magnitude(Quantized(n, 2, step))
              <= Magnitude(n)
<1>1. 2 \in Nat \ {0}
  OBVIOUS
<1>2. /\ Quantized(n, 2, step) \in Int
      /\ 2 * Magnitude(Quantized(n, 2, step)) <= Magnitude(n)
  BY <1>1, QuantizedBound, Zenon
<1> DEFINE q == Quantized(n, 2, step)
<1> HIDE DEF q
<1>3. Magnitude(q) \in Int /\ Magnitude(n) \in Int
  BY <1>2 DEF Magnitude, q
<1>4. 2 * Magnitude(q) = Magnitude(q) + Magnitude(q)
  BY <1>3
<1> QED BY <1>2, <1>4 DEF q

\* A signed quantity is its side times its size (compile_package_commands_v2).
LEMMA SideTimesSize ==
  ASSUME NEW n \in Int
  PROVE  Magnitude(n) * Sign(n) = n
  BY DEF Magnitude, Sign

-----------------------------------------------------------------------------
(* A leg the planner accepts is an order the session fills, with the same   *)
(* account after it.                                                        *)

\* The session's fill of command c takes an account to another one, if it is
\* allowed, and if it is not, it is short by Tolerance at most.
Foreseen(q, c, units, funds, new_units, new_funds) ==
  LET f == Fill(q, Compiled(c), units, funds) IN
  f.tolerable /\ f.units = new_units /\ f.equity = new_funds

\* Attempt a of l on the account of the plan is filled alike by the session.
FilledAlike(l, qty, halves, a) ==
  /\ a.actual = Quantized(qty * halves, 2, l.step)
  /\ a.actual \in Int \ {0}
  /\ Foreseen(Quotes, Command(l, a.actual), plan.units, plan.equity, a.units, a.equity)
  /\ a.units = [plan.units EXCEPT ![l.symbol] = @ + a.actual]
  /\ RejectReason(l, qty) = "accepted"

LEMMA AttemptFills ==
  ASSUME NEW l \in LegIntent, NEW qty \in Int, NEW halves \in 0..2,
         plan.units \in [Symbols -> Int],
         NEW a, a = Attempt(l, qty, halves, plan.units, plan.equity),
         a.reason = "accepted"
  PROVE  FilledAlike(l, qty, halves, a)
<1> DEFINE actual == Quantized(qty * halves, 2, l.step)
           s == l.symbol
           price == Quotes[s].close + Sign(actual) * Thousandths(Quotes[s].close, SlippageRate)
           new == [plan.units EXCEPT ![s] = @ + actual]
           fee == Thousandths(Magnitude(actual) * price, FeeRate[s])
           demand == fee + Excess((Magnitude(new[s]) * price) \div Leverage[s]
                             - (Magnitude(plan.units[s]) * Quotes[s].close) \div Leverage[s])
<1>1. l.step \in Nat \ {0} /\ qty * halves \in Int
  BY DEF LegIntent
<1>2. actual \in Int
  BY <1>1, HalvesBound
<1>3. /\ a.actual = actual
      /\ a.units = new
      /\ a.equity = plan.equity + (actual * (Quotes[s].close - price) - fee)
  BY DEF Attempt
<1>4. /\ RejectReason(l, qty) = "accepted"
      /\ actual # 0
      /\ demand <= plan.equity - InitialMargin(Quotes, plan.units) + Tolerance
  BY Zenon DEF Attempt
<1> DEFINE o == Compiled(Command(l, actual))
<1>5. o.symbol = s /\ o.side = Sign(actual) /\ o.qty = Magnitude(actual)
  BY DEF Compiled, Command
<1>6. o.qty * o.side = actual
  BY <1>2, <1>5, SideTimesSize
<1>7. s \in Symbols /\ new[s] = plan.units[s] + actual
  BY DEF LegIntent
<1> HIDE DEF actual, o
<1>8. Fill(Quotes, o, plan.units, plan.equity)
        = [allowed |-> demand <= plan.equity - InitialMargin(Quotes, plan.units),
           tolerable |->
             demand <= plan.equity - InitialMargin(Quotes, plan.units) + Tolerance,
           units |-> new,
           equity |-> plan.equity + (actual * (Quotes[s].close - price) - fee)]
  BY <1>5, <1>6, <1>7, Zenon DEF Fill
<1> DEFINE f == Fill(Quotes, o, plan.units, plan.equity)
<1>9. f.tolerable /\ f.units = a.units /\ f.equity = a.equity
  <2>1. /\ f.tolerable = (demand <= plan.equity - InitialMargin(Quotes, plan.units)
                                  + Tolerance)
        /\ f.units = new
        /\ f.equity = plan.equity + (actual * (Quotes[s].close - price) - fee)
    <3> HIDE DEF new, price, fee, demand
    <3> QED BY <1>8
  <2> HIDE DEF f, new, price, fee, demand
  <2> QED BY <1>3, <1>4, <2>1, Zenon
<1>10. Foreseen(Quotes, Command(l, actual), plan.units, plan.equity, a.units, a.equity)
  BY <1>9 DEF Foreseen, o
<1> QED
  BY <1>2, <1>3, <1>4, <1>10 DEF actual, FilledAlike

-----------------------------------------------------------------------------
(* The inductive invariant *)

PlanCommand == [symbol : Symbols, qty : Int \ {0}]

Point(units, funds) == [units |-> units, equity |-> funds]

\* The fields of the plan, whatever their values.
Shape ==
  plan = [units |-> plan.units, equity |-> plan.equity,
          requested |-> plan.requested, filled |-> plan.filled,
          compensation |-> plan.compensation, accepted |-> plan.accepted,
          residuals |-> plan.residuals, commands |-> plan.commands]

\* A sequence, of whatever elements.
Sq(s) == s \in Seq({s[i] : i \in DOMAIN s})

\* The path holds one account before each command of the plan and one after
\* the last; the session goes along it from fill to fill.
OnPath ==
  /\ Sq(path)
  /\ Len(path) = Len(plan.commands) + 1
  /\ path[Len(path)] = Point(plan.units, plan.equity)
  /\ \A k \in 1..Len(plan.commands) :
       Foreseen(Quotes, plan.commands[k], path[k].units, path[k].equity,
                path[k + 1].units, path[k + 1].equity)

\* The path starts at the account the step will have when it opens.
Ahead ==
  /\ ~Projected.liquidated
  /\ path[1] = Point(positions, Projected.equity)

\* Where the account of the session and the path of the plan stand.
Foretold ==
  /\ refusal \in {"none", "tolerable"}
  /\ refusal = "none" => rejected = 0
  /\ pc # "match" => cursor = 1 /\ refusal = "none"
  /\ pc \in {"callback", "closed"} => plan.commands = << >>
  /\ pc \in {"plan", "unwind"} => OnPath /\ Ahead
  /\ pc = "step" => plan.commands = << >> \/ (OnPath /\ Ahead)
  /\ pc = "match" =>
       \/ plan.commands = << >>
       \/ /\ OnPath
          /\ refusal = "none" =>
               path[cursor].units = positions /\ path[cursor].equity = equity

\* No hedge beyond its primary, and nothing filled of what is not accepted.
Hedged ==
  pc \in {"plan", "unwind"} =>
    \A k \in DOMAIN intent.legs :
      /\ ~plan.accepted[k] => plan.filled[k] = 0
      /\ plan.accepted[k] =>
           /\ pc = "plan" => k < leg
           /\ intent.policy = "hedge_after_primary" => plan.accepted[1]
           /\ intent.legs[k].source = "actual" =>
                LET source == intent.legs[k].source_leg IN
                /\ source \in DOMAIN intent.legs
                /\ source < k
                /\ plan.accepted[source]
                /\ Magnitude(plan.filled[k])
                     <= Magnitude(intent.legs[k].ratio * plan.filled[source])

IInv == TypeOK /\ Shape /\ Foretold /\ Hedged

-----------------------------------------------------------------------------
(* Sequences *)

LEMMA Appended ==
  ASSUME NEW s, Sq(s), NEW e
  PROVE  /\ Sq(Append(s, e))
         /\ Len(Append(s, e)) = Len(s) + 1
         /\ \A i \in 1..Len(s) : Append(s, e)[i] = s[i]
         /\ Append(s, e)[Len(s) + 1] = e
<1> DEFINE T == {s[i] : i \in DOMAIN s} \cup {e}
           t == Append(s, e)
<1>1. s \in Seq(T) /\ e \in T
  BY DEF Sq
<1>2. /\ t \in Seq(T)
      /\ Len(t) = Len(s) + 1
      /\ \A i \in 1..Len(s) : t[i] = s[i]
      /\ t[Len(s) + 1] = e
  BY <1>1
<1> HIDE DEF T, t
<1>3. t \in Seq({t[i] : i \in DOMAIN t})
  BY <1>2
<1> QED
  BY <1>2, <1>3 DEF Sq, t

LEMMA AppendNotEmpty ==
  ASSUME NEW S, NEW s \in Seq(S), NEW e
  PROVE  Append(s, e) # << >>
<1> DEFINE T == S \cup {e}
<1>1. s \in Seq(T) /\ e \in T
  OBVIOUS
<1> HIDE DEF T
<1> QED BY <1>1

LEMMA Singleton ==
  ASSUME NEW e
  PROVE  Sq(<<e>>) /\ Len(<<e>>) = 1 /\ <<e>>[1] = e
  BY DEF Sq

LEMMA PointFields ==
  \A units, funds : Point(units, funds).units = units /\ Point(units, funds).equity = funds
  BY DEF Point

\* A plan that is traded against a path is a longer path.
LEMMA PathExtends ==
  ASSUME OnPath, plan.commands \in Seq(PlanCommand), NEW c \in PlanCommand,
         Foreseen(Quotes, c, plan.units, plan.equity, plan'.units, plan'.equity),
         plan'.commands = Append(plan.commands, c),
         path' = Append(path, Point(plan'.units, plan'.equity)),
         UNCHANGED bar
  PROVE  /\ OnPath'
         /\ path'[1] = path[1]
         /\ plan'.commands \in Seq(PlanCommand)
<1> DEFINE n == Len(plan.commands)
<1>1. n \in Nat /\ Len(path) = n + 1
  BY DEF OnPath
<1>2. /\ plan'.commands \in Seq(PlanCommand)
      /\ Len(plan'.commands) = n + 1
      /\ \A k \in 1..n : plan'.commands[k] = plan.commands[k]
      /\ plan'.commands[n + 1] = c
  OBVIOUS
<1>3. /\ Sq(path')
      /\ Len(path') = n + 2
      /\ \A k \in 1..(n + 1) : path'[k] = path[k]
      /\ path'[n + 2] = Point(plan'.units, plan'.equity)
  BY <1>1, Appended DEF OnPath
<1>4. Quotes' = Quotes
  BY DEF Quotes
<1>5. ASSUME NEW k \in 1..(n + 1)
      PROVE  Foreseen(Quotes', plan'.commands[k], path'[k].units, path'[k].equity,
                      path'[k + 1].units, path'[k + 1].equity)
  <2>1. CASE k \in 1..n
    <3>1. k + 1 \in 1..(n + 1) /\ k \in 1..(n + 1)
      BY <1>1, <2>1
    <3> QED
      BY <1>2, <1>3, <1>4, <2>1, <3>1 DEF OnPath
  <2>2. CASE k = n + 1
    <3>1. path[n + 1] = Point(plan.units, plan.equity)
      BY <1>1 DEF OnPath
    <3>2. path'[k] = path[n + 1] /\ path'[k + 1] = Point(plan'.units, plan'.equity)
      BY <1>1, <1>3, <2>2
    <3>3. /\ path'[k].units = plan.units /\ path'[k].equity = plan.equity
          /\ path'[k + 1].units = plan'.units /\ path'[k + 1].equity = plan'.equity
      BY <3>1, <3>2, PointFields
    <3>4. plan'.commands[k] = c
      BY <1>2, <2>2
    <3> QED
      BY <1>4, <3>3, <3>4
  <2>3. k \in 1..n \/ k = n + 1
    BY <1>1
  <2> QED BY <2>1, <2>2, <2>3, Zenon
<1>6. path'[Len(path')] = Point(plan'.units, plan'.equity)
  BY <1>3
<1>7. OnPath'
  BY <1>1, <1>2, <1>3, <1>5, <1>6 DEF OnPath
<1> QED
  BY <1>1, <1>2, <1>3, <1>7

-----------------------------------------------------------------------------
(* The planner's steps *)

LEMMA InitIInv ==
  ASSUME Init
  PROVE  IInv
<1>1. Shape /\ plan.commands = << >>
  BY DEF Init, Shape, EmptyPlan
<1>2. positions \in [Symbols -> Int]
  BY DEF Init, Cleared
<1>3. cursor \in 1..(Len(plan.commands) + 1)
  BY <1>1 DEF Init
<1>4. TypeOK
  <2>1. plan.commands \in Seq([symbol : Symbols, qty : Int \ {0}])
    BY <1>1
  <2>2. /\ pc = "callback" /\ liquidated = FALSE /\ intent = NoIntent
    BY DEF Init
  <2> QED BY <1>2, <1>3, <2>1, <2>2 DEF TypeOK
<1>5. Foretold /\ Hedged
  BY <1>1 DEF Init, Foretold, Hedged
<1> QED BY <1>1, <1>4, <1>5 DEF IInv

LEMMA EmptyShape ==
  ASSUME plan' = EmptyPlan
  PROVE  Shape' /\ plan'.commands = << >>
  BY DEF Shape, EmptyPlan

\* A package that is refused leaves nothing to send.
LEMMA RefusedKeeps ==
  ASSUME IInv, Refused, pc # "match", intent' \in Intents,
         UNCHANGED <<positions, liquidated, cursor, rejected, refusal>>
  PROVE  IInv'
<1>1. plan' = EmptyPlan /\ pc' = "step" /\ cursor = 1 /\ rejected = 0 /\ refusal = "none"
  BY DEF Refused, IInv, Foretold
<1>2. Shape' /\ plan'.commands = << >>
  BY <1>1, EmptyShape
<1>3. TypeOK'
  BY <1>1, <1>2 DEF IInv, TypeOK
<1>4. Foretold'
  BY <1>1, <1>2 DEF Foretold
<1>5. Hedged'
  BY <1>1 DEF Hedged
<1> QED BY <1>2, <1>3, <1>4, <1>5 DEF IInv

LEMMA NoPackageKeeps ==
  ASSUME IInv, NoPackage
  PROVE  IInv'
<1>1. /\ pc = "callback" /\ pc' = "step"
      /\ UNCHANGED <<positions, liquidated, intent, plan, cursor, rejected, refusal>>
  BY DEF NoPackage
<1>2. plan'.commands = << >> /\ cursor = 1 /\ rejected = 0 /\ refusal = "none"
  BY <1>1 DEF IInv, Foretold
<1>3. TypeOK' /\ Shape'
  BY <1>1 DEF IInv, TypeOK, Shape
<1>4. Foretold' /\ Hedged'
  BY <1>1, <1>2 DEF Foretold, Hedged
<1> QED BY <1>3, <1>4 DEF IInv

LEMMA FailRunKeeps ==
  ASSUME IInv, NEW i \in Intents, FailRun(i)
  PROVE  IInv'
<1>1. /\ pc = "callback" /\ pc' = "failed" /\ intent' = i
      /\ UNCHANGED <<positions, liquidated, plan, cursor, rejected, refusal>>
  BY DEF FailRun, MayHold
<1>2. plan'.commands = << >> /\ cursor = 1 /\ rejected = 0 /\ refusal = "none"
  BY <1>1 DEF IInv, Foretold
<1>3. TypeOK' /\ Shape'
  BY <1>1 DEF IInv, TypeOK, Shape
<1>4. Foretold' /\ Hedged'
  BY <1>1, <1>2 DEF Foretold, Hedged
<1> QED BY <1>3, <1>4 DEF IInv

\* Legs are numbered from one.
LEMMA LegsTyped ==
  ASSUME NEW i \in Intents
  PROVE  /\ Len(i.legs) \in Nat \ {0}
         /\ DOMAIN i.legs = 1..Len(i.legs)
         /\ \A k \in DOMAIN i.legs : i.legs[k] \in LegIntent
  BY PackageAssumption

\* The plan starts at the account its orders will meet.
LEMMA StartPlanKeeps ==
  ASSUME IInv, NEW i \in Intents, StartPlan(i)
  PROVE  IInv'
<1> DEFINE n == Len(i.legs)
           funds == Projected.equity
<1>1. /\ pc = "callback" /\ pc' = "plan" /\ intent' = i /\ leg' = 1
      /\ ~Projected.liquidated
      /\ plan' = FreshPlan(n, funds)
      /\ path' = <<Point(positions, funds)>>
      /\ UNCHANGED <<bar, positions, equity, liquidated, cursor, rejected, refusal>>
  BY DEF StartPlan, MayHold, Point
<1>2. /\ n \in Nat \ {0}
      /\ DOMAIN i.legs = 1..n
  BY LegsTyped
<1>3. Projected' = Projected
  BY <1>1 DEF Projected, PriceMove, FundingCost, IntrabarLiquidated,
     BelowMaintenance, MaintenanceMargin, Quotes
<1>4. /\ plan'.units = positions /\ plan'.equity = funds
      /\ plan'.commands = << >>
      /\ plan'.requested = [k \in 1..n |-> 0]
      /\ plan'.filled = [k \in 1..n |-> 0]
      /\ plan'.compensation = [k \in 1..n |-> 0]
      /\ plan'.accepted = [k \in 1..n |-> FALSE]
      /\ Shape'
  BY <1>1 DEF FreshPlan, Shape
<1>5. cursor = 1 /\ rejected = 0 /\ refusal = "none" /\ positions \in [Symbols -> Int]
  BY <1>1 DEF IInv, TypeOK, Foretold
<1>6. TypeOK'
  <2>1. /\ plan'.units \in [Symbols -> Int]
        /\ plan'.requested \in [DOMAIN i.legs -> Int]
        /\ plan'.filled \in [DOMAIN i.legs -> Int]
        /\ plan'.compensation \in [DOMAIN i.legs -> Int]
        /\ plan'.accepted \in [DOMAIN i.legs -> BOOLEAN]
    BY <1>2, <1>4, <1>5
  <2>2. leg' \in 0..(n + 1)
    BY <1>1, <1>2
  <2>3. plan'.commands \in Seq(PlanCommand) /\ cursor' \in 1..(Len(plan'.commands) + 1)
    BY <1>1, <1>4, <1>5
  <2> QED BY <1>1, <2>1, <2>2, <2>3 DEF IInv, TypeOK, PlanCommand
<1>7. OnPath'
  <2>1. Sq(path') /\ Len(path') = 1 /\ path'[1] = Point(positions, funds)
    BY <1>1, Singleton
  <2> QED BY <1>4, <2>1 DEF OnPath
<1>8. Ahead'
  <2>1. path'[1] = Point(positions, funds)
    BY <1>1, Singleton
  <2> QED BY <1>1, <1>3, <2>1 DEF Ahead
<1>9. Foretold'
  BY <1>1, <1>5, <1>7, <1>8 DEF Foretold
<1>10. Hedged'
  BY <1>1, <1>2, <1>4 DEF Hedged
<1> QED BY <1>4, <1>6, <1>9, <1>10 DEF IInv

\* The quantity of a leg that can be resolved.
LEMMA ResolvedTyped ==
  ASSUME TypeOK, Planning, Resolvable(intent.legs[leg], leg)
  PROVE  /\ Resolved(intent.legs[leg], plan) \in Int
         /\ intent.legs[leg].source = "actual" =>
              LET l == intent.legs[leg] IN
              /\ l.source_leg \in 1..(leg - 1)
              /\ Magnitude(Resolved(l, plan))
                   <= Magnitude(l.ratio * plan.filled[l.source_leg])
<1> DEFINE l == intent.legs[leg]
           j == l.source_leg
<1>1. /\ intent \in Intents /\ leg \in DOMAIN intent.legs
      /\ plan.requested \in [DOMAIN intent.legs -> Int]
      /\ plan.filled \in [DOMAIN intent.legs -> Int]
  BY DEF TypeOK, Planning
<1>2. /\ DOMAIN intent.legs = 1..Len(intent.legs)
      /\ l \in LegIntent
  BY <1>1, LegsTyped
<1>3. /\ l.signed_qty \in Int /\ l.ratio \in Int /\ l.step \in Nat \ {0}
      /\ l.source \in {"fixed", "requested", "actual"}
  BY <1>2 DEF LegIntent
<1> HIDE DEF l
<1>4. CASE l.source = "fixed"
  <2>1. Resolved(l, plan) = Quantized(l.signed_qty, 1, l.step)
    BY <1>4 DEF Resolved
  <2> QED BY <1>3, <1>4, <2>1, QuantizedBound, SMTT(20) DEF l
<1>5. CASE l.source # "fixed"
  <2>1. j \in 1..(leg - 1)
    BY <1>5 DEF Resolvable, l
  <2>2. j \in DOMAIN intent.legs
    BY <1>1, <1>2, <2>1
  <2>3. CASE l.source = "requested"
    <3>1. Resolved(l, plan) = Quantized(plan.requested[j] * l.ratio, 1, l.step)
      BY <2>3 DEF Resolved
    <3>2. plan.requested[j] * l.ratio \in Int
      BY <1>1, <1>3, <2>2
    <3> QED BY <1>3, <2>3, <3>1, <3>2, QuantizedBound DEF l
  <2>4. CASE l.source = "actual"
    <3>1. Resolved(l, plan) = Quantized(plan.filled[j] * l.ratio, 1, l.step)
      BY <2>4 DEF Resolved
    <3>2. plan.filled[j] * l.ratio \in Int
      BY <1>1, <1>3, <2>2
    <3>3. plan.filled[j] * l.ratio = l.ratio * plan.filled[j]
      BY <1>1, <1>3, <2>2
    <3>4. /\ Resolved(l, plan) \in Int
          /\ 1 * Magnitude(Resolved(l, plan)) <= Magnitude(plan.filled[j] * l.ratio)
      BY <1>3, <3>1, <3>2, QuantizedBound
    <3>5. Magnitude(Resolved(l, plan)) \in Int
      BY <3>4 DEF Magnitude
    <3> QED BY <2>1, <3>3, <3>4, <3>5 DEF l
  <2> QED BY <1>3, <1>5, <2>3, <2>4
<1> QED BY <1>4, <1>5

\* The fields of a plan that has traded, and of one that has accepted a leg.
LEMMA TradedFields ==
  ASSUME Shape, NEW k, NEW a
  PROVE  Traded(plan, k, a)
         = [units |-> a.units, equity |-> a.equity,
            requested |-> plan.requested, filled |-> plan.filled,
            compensation |-> plan.compensation, accepted |-> plan.accepted,
            residuals |-> plan.residuals,
            commands |-> Append(plan.commands, Command(intent.legs[k], a.actual))]
<1>1. ASSUME NEW p, p = Traded(plan, k, a)
      PROVE  p = [units |-> a.units, equity |-> a.equity,
                  requested |-> plan.requested, filled |-> plan.filled,
                  compensation |-> plan.compensation, accepted |-> plan.accepted,
                  residuals |-> plan.residuals,
                  commands |-> Append(plan.commands, Command(intent.legs[k], a.actual))]
  BY <1>1 DEF Shape, Traded
<1> QED BY <1>1

AcceptedAs(p, k, value, a) ==
  /\ p = [units |-> a.units, equity |-> a.equity,
          requested |-> [plan.requested EXCEPT ![k] = value],
          filled |-> [plan.filled EXCEPT ![k] = a.actual],
          compensation |-> plan.compensation,
          accepted |-> [plan.accepted EXCEPT ![k] = TRUE],
          residuals |-> p.residuals,
          commands |-> Append(plan.commands, Command(intent.legs[k], a.actual))]
  /\ a.actual = value => p.residuals = plan.residuals

LEMMA AcceptedFields ==
  ASSUME Shape, NEW k, NEW value, NEW a
  PROVE  AcceptedAs(Accepted(plan, k, value, a), k, value, a)
<1> DEFINE t == Traded(plan, k, a)
           r == IF a.actual = value THEN t.residuals
                ELSE t.residuals \cup {Residual(k, value - a.actual, "partial_fill")}
<1> PICK p : p = Accepted(plan, k, value, a)
  OBVIOUS
<1>1. t = [units |-> a.units, equity |-> a.equity,
           requested |-> plan.requested, filled |-> plan.filled,
           compensation |-> plan.compensation, accepted |-> plan.accepted,
           residuals |-> plan.residuals,
           commands |-> Append(plan.commands, Command(intent.legs[k], a.actual))]
  BY TradedFields
<1>2. p = [t EXCEPT !.requested[k] = value, !.filled[k] = a.actual,
                    !.accepted[k] = TRUE, !.residuals = r]
  BY DEF Accepted
<1>3. a.actual = value => r = plan.residuals
  BY <1>1
<1> HIDE DEF t, r
<1>4. AcceptedAs(p, k, value, a)
  BY <1>1, <1>2, <1>3 DEF AcceptedAs
<1> QED BY <1>4

\* What accepting a leg makes of the plan.
Taken(l, value, a) ==
  /\ value \in Int
  /\ FilledAlike(l, value, l.fraction, a)
  /\ plan'.units = a.units /\ plan'.equity = a.equity
  /\ plan'.requested = [plan.requested EXCEPT ![leg] = value]
  /\ plan'.filled = [plan.filled EXCEPT ![leg] = a.actual]
  /\ plan'.compensation = plan.compensation
  /\ plan'.accepted = [plan.accepted EXCEPT ![leg] = TRUE]
  /\ plan'.commands = Append(plan.commands, Command(l, a.actual))
  /\ Shape'
  /\ a.actual = value => plan'.residuals = plan.residuals

LEMMA LegTaken ==
  ASSUME IInv, Planning,
         Resolvable(intent.legs[leg], leg),
         NEW value, value = Resolved(intent.legs[leg], plan),
         NEW a, a = Attempt(intent.legs[leg], value, intent.legs[leg].fraction,
                            plan.units, plan.equity),
         a.reason = "accepted",
         plan' = Accepted(plan, leg, value, a)
  PROVE  Taken(intent.legs[leg], value, a)
<1> DEFINE l == intent.legs[leg]
           h == l.fraction
<1>1. /\ intent \in Intents /\ leg \in DOMAIN intent.legs
      /\ plan.units \in [Symbols -> Int]
  BY DEF Planning, IInv, TypeOK
<1>2. l \in LegIntent
  BY <1>1, LegsTyped
<1>3. h \in 0..2
  BY <1>2 DEF LegIntent
<1>4. value \in Int
  BY ResolvedTyped DEF IInv
<1> HIDE DEF l
<1>5. a = Attempt(l, value, h, plan.units, plan.equity)
  BY DEF l
<1>6. FilledAlike(l, value, h, a)
  <2> HIDE DEF h
  <2>1. a.reason = "accepted"
    OBVIOUS
  <2> QED BY <1>1, <1>2, <1>3, <1>4, <1>5, <2>1, AttemptFills, Zenon
<1>7. Shape
  BY DEF IInv
<1>8. AcceptedAs(plan', leg, value, a)
  BY <1>7, AcceptedFields
<1>9. /\ plan'.units = a.units /\ plan'.equity = a.equity
      /\ plan'.requested = [plan.requested EXCEPT ![leg] = value]
      /\ plan'.filled = [plan.filled EXCEPT ![leg] = a.actual]
      /\ plan'.compensation = plan.compensation
      /\ plan'.accepted = [plan.accepted EXCEPT ![leg] = TRUE]
      /\ plan'.commands = Append(plan.commands, Command(l, a.actual))
      /\ Shape'
      /\ a.actual = value => plan'.residuals = plan.residuals
  <2>1. PICK r :
          /\ plan' = [units |-> a.units, equity |-> a.equity,
                      requested |-> [plan.requested EXCEPT ![leg] = value],
                      filled |-> [plan.filled EXCEPT ![leg] = a.actual],
                      compensation |-> plan.compensation,
                      accepted |-> [plan.accepted EXCEPT ![leg] = TRUE],
                      residuals |-> r,
                      commands |-> Append(plan.commands, Command(l, a.actual))]
          /\ r = plan'.residuals
          /\ a.actual = value => r = plan.residuals
    BY <1>8 DEF AcceptedAs, l
  <2> QED BY <2>1 DEF Shape
<1> QED BY <1>4, <1>6, <1>9, Zenon DEF Taken, l, h

\* A function with one value replaced keeps its type.
LEMMA UpdateTyped ==
  ASSUME NEW D, NEW R, NEW f \in [D -> R], NEW i, NEW v \in R
  PROVE  [f EXCEPT ![i] = v] \in [D -> R]
OBVIOUS

\* A leg that is accepted: the path of the plan grows by its order.
LEMMA LegAccepted ==
  ASSUME IInv, Planning,
         Resolvable(intent.legs[leg], leg), ~PrimaryRejected,
         NEW value, value = Resolved(intent.legs[leg], plan),
         NEW a, a = Attempt(intent.legs[leg], value, intent.legs[leg].fraction,
                            plan.units, plan.equity),
         a.reason = "accepted",
         plan' = Accepted(plan, leg, value, a),
         path' = PathAfter(a),
         leg' = leg + 1,
         UNCHANGED <<pc, bar, positions, equity, liquidated, intent, cursor,
                     rejected, refusal>>
  PROVE  IInv'
<1> DEFINE l == intent.legs[leg]
           c == Command(l, a.actual)
           n == Len(intent.legs)
<1>1. /\ pc = "plan" /\ intent \in Intents
      /\ leg \in DOMAIN intent.legs
      /\ positions \in [Symbols -> Int]
      /\ plan.units \in [Symbols -> Int]
      /\ plan.requested \in [DOMAIN intent.legs -> Int]
      /\ plan.filled \in [DOMAIN intent.legs -> Int]
      /\ plan.compensation \in [DOMAIN intent.legs -> Int]
      /\ plan.accepted \in [DOMAIN intent.legs -> BOOLEAN]
      /\ plan.commands \in Seq(PlanCommand)
  BY DEF Planning, IInv, TypeOK, PlanCommand
<1>2. /\ DOMAIN intent.legs = 1..n /\ n \in Nat \ {0}
      /\ l \in LegIntent
  BY <1>1, LegsTyped
<1>3. /\ l.symbol \in Symbols /\ l.fraction \in 0..2 /\ l.step \in Nat \ {0}
  BY <1>2 DEF LegIntent
<1> DEFINE h == l.fraction
<1>4. Taken(l, value, a)
  BY LegTaken
<1> HIDE DEF l, h
<1>5. /\ value \in Int
      /\ a.actual = Quantized(value * h, 2, l.step)
      /\ a.actual \in Int \ {0}
      /\ Foreseen(Quotes, c, plan.units, plan.equity, a.units, a.equity)
      /\ a.units = [plan.units EXCEPT ![l.symbol] = @ + a.actual]
      /\ RejectReason(l, value) = "accepted"
  BY <1>4, Zenon DEF Taken, FilledAlike, h
<1>6. c \in PlanCommand
  BY <1>3, <1>5 DEF Command, PlanCommand
<1>9. /\ plan'.units = a.units /\ plan'.equity = a.equity
      /\ plan'.requested = [plan.requested EXCEPT ![leg] = value]
      /\ plan'.filled = [plan.filled EXCEPT ![leg] = a.actual]
      /\ plan'.compensation = plan.compensation
      /\ plan'.accepted = [plan.accepted EXCEPT ![leg] = TRUE]
      /\ plan'.commands = Append(plan.commands, c)
      /\ Shape'
  BY <1>4 DEF Taken
<1>21. h \in 0..2
  BY <1>3 DEF h
<1> HIDE DEF c, n
<1>10. OnPath /\ Ahead /\ cursor = 1 /\ rejected = 0 /\ refusal = "none"
  BY <1>1 DEF IInv, Foretold
<1>11. path' = Append(path, Point(a.units, a.equity))
  BY DEF PathAfter, Point
<1>12. OnPath' /\ path'[1] = path[1] /\ plan'.commands \in Seq(PlanCommand)
  <2>1. UNCHANGED bar
    OBVIOUS
  <2>2. /\ Foreseen(Quotes, c, plan.units, plan.equity, plan'.units, plan'.equity)
        /\ path' = Append(path, Point(plan'.units, plan'.equity))
    BY <1>5, <1>9, <1>11
  <2>3. OnPath /\ plan.commands \in Seq(PlanCommand)
    BY <1>1, <1>10
  <2>4. plan'.commands = Append(plan.commands, c)
    BY <1>9
  <2> QED BY <1>6, <2>1, <2>2, <2>3, <2>4, PathExtends
<1>13. TypeOK'
  <2>1. a.units \in [Symbols -> Int]
    BY <1>1, <1>3, <1>5
  <2>2. cursor' \in 1..(Len(plan'.commands) + 1)
    BY <1>10, <1>12
  <2>3. leg' \in 0..(n + 1)
    BY <1>1, <1>2
  <2>4. /\ plan'.requested \in [DOMAIN intent.legs -> Int]
        /\ plan'.filled \in [DOMAIN intent.legs -> Int]
        /\ plan'.accepted \in [DOMAIN intent.legs -> BOOLEAN]
    <3>1. value \in Int /\ a.actual \in Int
      BY <1>5
    <3>2. [plan.requested EXCEPT ![leg] = value] \in [DOMAIN intent.legs -> Int]
      BY <1>1, <3>1, UpdateTyped
    <3>3. [plan.filled EXCEPT ![leg] = a.actual] \in [DOMAIN intent.legs -> Int]
      BY <1>1, <3>1, UpdateTyped
    <3>4. [plan.accepted EXCEPT ![leg] = TRUE] \in [DOMAIN intent.legs -> BOOLEAN]
      BY <1>1, Zenon
    <3> QED BY <1>9, <3>2, <3>3, <3>4, Zenon
  <2>5. liquidated \in BOOLEAN
    BY DEF IInv, TypeOK
  <2> QED
    BY <1>1, <1>9, <1>12, <2>1, <2>2, <2>3, <2>4, <2>5 DEF TypeOK, PlanCommand, n
<1>14. Foretold'
  <2>1. Projected' = Projected
    BY DEF Projected, PriceMove, FundingCost, IntrabarLiquidated,
       BelowMaintenance, MaintenanceMargin, Quotes
  <2>2. Ahead'
    BY <1>10, <1>12, <2>1 DEF Ahead
  <2> QED BY <1>1, <1>10, <1>12, <2>2 DEF Foretold
<1>15. Hedged'
  <2>1. SUFFICES ASSUME NEW k \in DOMAIN intent.legs
                 PROVE  /\ ~plan'.accepted[k] => plan'.filled[k] = 0
                        /\ plan'.accepted[k] =>
                             /\ k < leg + 1
                             /\ intent.policy = "hedge_after_primary" => plan'.accepted[1]
                             /\ intent.legs[k].source = "actual" =>
                                  LET source == intent.legs[k].source_leg IN
                                  /\ source \in DOMAIN intent.legs
                                  /\ source < k
                                  /\ plan'.accepted[source]
                                  /\ Magnitude(plan'.filled[k])
                                       <= Magnitude(intent.legs[k].ratio * plan'.filled[source])
    BY <1>1 DEF Hedged
  <2>2. CASE k # leg
    <3>1. /\ plan'.accepted[k] = plan.accepted[k]
          /\ plan'.filled[k] = plan.filled[k]
      BY <1>1, <1>9, <2>2
    <3>2. ~plan.accepted[k] => plan.filled[k] = 0
      BY <1>1 DEF IInv, Hedged
    <3>3. ASSUME plan.accepted[k]
          PROVE  /\ k < leg
                 /\ intent.policy = "hedge_after_primary" => plan.accepted[1]
      BY <1>1, <3>3 DEF IInv, Hedged
    <3>4. 1 \in DOMAIN intent.legs /\ leg \in Int
      BY <1>1, <1>2 DEF n
    <3>5. plan.accepted[1] => plan'.accepted[1]
      BY <1>1, <1>9, <3>4
    <3>6. ASSUME plan.accepted[k], intent.legs[k].source = "actual"
          PROVE  LET source == intent.legs[k].source_leg IN
                 /\ source \in DOMAIN intent.legs
                 /\ source < k
                 /\ plan'.accepted[source]
                 /\ plan'.filled[source] = plan.filled[source]
                 /\ Magnitude(plan.filled[k])
                      <= Magnitude(intent.legs[k].ratio * plan.filled[source])
      <4> DEFINE source == intent.legs[k].source_leg
      <4>1. /\ source \in DOMAIN intent.legs
            /\ source < k
            /\ plan.accepted[source]
            /\ Magnitude(plan.filled[k])
                 <= Magnitude(intent.legs[k].ratio * plan.filled[source])
        BY <1>1, <3>6 DEF IInv, Hedged
      <4>2. source # leg
        BY <1>1, <1>2, <3>3, <3>6, <4>1
      <4>3. plan'.accepted[source] = plan.accepted[source]
            /\ plan'.filled[source] = plan.filled[source]
        BY <1>1, <1>9, <4>1, <4>2
      <4> QED BY <4>1, <4>3
    <3> QED
      <4>1. ~plan'.accepted[k] => plan'.filled[k] = 0
        BY <3>1, <3>2, Zenon
      <4>2. plan'.accepted[k] => k < leg
        BY <3>1, <3>3, Zenon
      <4>3. k < leg => k < leg + 1
        BY <1>2, <3>4
      <4>4. plan'.accepted[k] => (intent.policy = "hedge_after_primary" => plan'.accepted[1])
        BY <3>1, <3>3, <3>5, Zenon
      <4>5. plan'.accepted[k] =>
              (intent.legs[k].source = "actual" =>
                 LET source == intent.legs[k].source_leg IN
                 /\ source \in DOMAIN intent.legs
                 /\ source < k
                 /\ plan'.accepted[source]
                 /\ Magnitude(plan'.filled[k])
                      <= Magnitude(intent.legs[k].ratio * plan'.filled[source]))
        BY <3>1, <3>6, Zenon
      <4> QED BY <4>1, <4>2, <4>3, <4>4, <4>5, Zenon
  <2>3. CASE k = leg
    <3>1. plan'.accepted[k] = TRUE /\ plan'.filled[k] = a.actual
      BY <1>1, <1>9, <2>3
    <3>2. intent.policy = "hedge_after_primary" => plan'.accepted[1]
      <4>1. CASE leg = 1
        BY <2>3, <3>1, <4>1
      <4>2. CASE leg # 1
        <5>1. intent.policy = "hedge_after_primary" => plan.accepted[1]
          BY <1>1, <1>2, <4>2, SMTT(20) DEF PrimaryRejected
        <5>2. 1 \in DOMAIN intent.legs
          BY <1>2
        <5>3. plan'.accepted[1] = plan.accepted[1]
          BY <1>1, <1>9, <4>2, <5>2, Zenon
        <5> QED BY <5>1, <5>3
      <4> QED BY <4>1, <4>2
    <3>3. ASSUME l.source = "actual"
          PROVE  LET source == l.source_leg IN
                 /\ source \in DOMAIN intent.legs
                 /\ source < leg
                 /\ plan'.accepted[source]
                 /\ Magnitude(a.actual) <= Magnitude(l.ratio * plan'.filled[source])
      <4> DEFINE source == l.source_leg
      <4>1. /\ source \in 1..(leg - 1)
            /\ Magnitude(value) <= Magnitude(l.ratio * plan.filled[source])
        BY <3>3, ResolvedTyped DEF IInv, l
      <4>2. source \in DOMAIN intent.legs /\ source < leg
        BY <1>1, <1>2, <4>1, SMTT(20) DEF n
      <4>3. plan'.filled[source] = plan.filled[source]
            /\ plan'.accepted[source] = plan.accepted[source]
        <5>1. source # leg
          BY <1>1, <1>2, <4>1 DEF n
        <5> HIDE DEF source
        <5> QED BY <1>1, <1>9, <4>2, <5>1
      <4>4. value # 0
        BY <1>5 DEF RejectReason
      <4>5. l.ratio \in Int /\ plan.filled[source] \in Int
        BY <1>1, <1>2, <4>2 DEF LegIntent
      <4>6. plan.filled[source] # 0
        BY <1>5, <4>1, <4>4, <4>5 DEF Magnitude
      <4>7. plan.accepted[source]
        BY <1>1, <4>2, <4>6 DEF IInv, Hedged
      <4>8. Magnitude(a.actual) <= Magnitude(value)
        <5>1. h = 0 \/ h = 1 \/ h = 2
          BY <1>21
        <5>2. Magnitude(value * h) <= 2 * Magnitude(value)
          BY <1>5, <5>1 DEF Magnitude
        <5>3. l.step \in Nat \ {0} /\ value * h \in Int
          BY <1>3, <1>5, <1>21
        <5>4. Magnitude(a.actual) + Magnitude(a.actual) <= Magnitude(value * h)
          BY <1>5, <5>3, HalvesBound, Zenon
        <5>5. Magnitude(a.actual) \in Int /\ Magnitude(value * h) \in Int
              /\ Magnitude(value) \in Int
          BY <1>5, <5>3 DEF Magnitude
        <5> QED BY <5>2, <5>4, <5>5
      <4>9. Magnitude(a.actual) \in Int /\ Magnitude(value) \in Int
            /\ Magnitude(l.ratio * plan.filled[source]) \in Int
        BY <1>5, <4>5 DEF Magnitude
      <4> QED BY <4>1, <4>2, <4>3, <4>7, <4>8, <4>9
    <3>4. leg < leg + 1
      BY <1>1, <1>2
    <3> QED BY <2>3, <3>1, <3>2, <3>3, <3>4 DEF l
  <2> QED BY <2>2, <2>3
<1> QED BY <1>9, <1>13, <1>14, <1>15 DEF IInv

\* A leg that is passed over changes no more than what was asked and left over.
LEMMA LegPassed ==
  ASSUME IInv, Planning, Shape',
         plan'.requested \in [DOMAIN intent.legs -> Int],
         UNCHANGED <<plan.units, plan.equity, plan.filled, plan.compensation,
                     plan.accepted, plan.commands>>,
         leg' = leg + 1,
         UNCHANGED <<pc, bar, positions, equity, liquidated, intent, cursor,
                     rejected, refusal, path>>
  PROVE  IInv'
<1> DEFINE n == Len(intent.legs)
<1>1. pc = "plan" /\ intent \in Intents /\ leg \in DOMAIN intent.legs
  BY DEF Planning, IInv, TypeOK
<1>2. DOMAIN intent.legs = 1..n /\ n \in Nat \ {0}
  BY <1>1, LegsTyped
<1>3. leg' \in 0..(n + 1) /\ leg \in Int
  BY <1>1, <1>2
<1>4. TypeOK'
  BY <1>1, <1>3 DEF IInv, TypeOK
<1>5. Foretold'
  <2>1. OnPath /\ Ahead /\ cursor = 1 /\ rejected = 0 /\ refusal = "none"
    BY <1>1 DEF IInv, Foretold
  <2>2. Projected' = Projected
    BY DEF Projected, PriceMove, FundingCost, IntrabarLiquidated,
       BelowMaintenance, MaintenanceMargin, Quotes
  <2>3. Ahead'
    BY <2>1, <2>2 DEF Ahead
  <2>4. OnPath'
    BY <2>1 DEF OnPath, Sq, Quotes
  <2> QED BY <1>1, <2>1, <2>3, <2>4 DEF Foretold
<1>6. Hedged'
  <2>1. \A k \in DOMAIN intent.legs : k < leg => k < leg'
    BY <1>2, <1>3
  <2> QED BY <1>1, <2>1 DEF IInv, Hedged
<1> QED BY <1>4, <1>5, <1>6 DEF IInv

LEMMA PlanAtomicLegKeeps ==
  ASSUME IInv, PlanAtomicLeg
  PROVE  IInv'
<1> DEFINE l == intent.legs[leg]
           value == Resolved(l, plan)
           a == Attempt(l, value, l.fraction, plan.units, plan.equity)
<1>1. /\ Planning
      /\ intent.policy = "atomic"
      /\ UNCHANGED <<bar, positions, equity, liquidated, intent, cursor,
                     rejected, refusal, before>>
      /\ \/ Refused
         \/ /\ Resolvable(l, leg)
            /\ a.reason = "accepted"
            /\ plan' = Accepted(plan, leg, value, a)
            /\ path' = PathAfter(a)
            /\ leg' = leg + 1
            /\ UNCHANGED pc
  BY DEF PlanAtomicLeg
<1>2. pc = "plan" /\ intent \in Intents
  BY <1>1 DEF Planning, IInv, TypeOK
<1>3. CASE Refused
  BY <1>1, <1>2, <1>3, RefusedKeeps
<1>4. CASE /\ Resolvable(l, leg)
           /\ a.reason = "accepted"
           /\ plan' = Accepted(plan, leg, value, a)
           /\ path' = PathAfter(a)
           /\ leg' = leg + 1
           /\ UNCHANGED pc
  <2>1. ~PrimaryRejected
    BY <1>1 DEF PrimaryRejected
  <2> QED BY <1>1, <1>4, <2>1, LegAccepted
<1> QED BY <1>1, <1>3, <1>4

LEMMA PlanLegKeeps ==
  ASSUME IInv, PlanLeg
  PROVE  IInv'
<1> DEFINE l == intent.legs[leg]
           value == Resolved(l, plan)
           a == Attempt(l, value, l.fraction, plan.units, plan.equity)
           r1 == plan.residuals \cup
                   {Residual(leg, Quantized(l.signed_qty, 1, l.step), "rejected")}
           r2 == plan.residuals \cup {Residual(leg, value, "rejected")}
<1>1. /\ Planning
      /\ leg' = leg + 1
      /\ UNCHANGED <<pc, bar, positions, equity, liquidated, intent, cursor,
                     rejected, refusal>>
      /\ \/ plan' = [plan EXCEPT !.residuals = r1] /\ UNCHANGED path
         \/ /\ Resolvable(l, leg)
            /\ plan' = [plan EXCEPT !.requested[leg] = value, !.residuals = r2]
            /\ UNCHANGED path
         \/ /\ Resolvable(l, leg)
            /\ ~PrimaryRejected
            /\ a.reason = "accepted"
            /\ plan' = Accepted(plan, leg, value, a)
            /\ path' = PathAfter(a)
  BY DEF PlanLeg
<1>2. Shape /\ plan.requested \in [DOMAIN intent.legs -> Int]
  BY <1>1 DEF IInv, TypeOK, Planning
<1>3. CASE plan' = [plan EXCEPT !.residuals = r1] /\ UNCHANGED path
  <2> HIDE DEF r1
  <2>1. /\ Shape'
        /\ UNCHANGED <<plan.units, plan.equity, plan.requested, plan.filled,
                       plan.compensation, plan.accepted, plan.commands>>
    BY <1>2, <1>3 DEF Shape
  <2> QED BY <1>1, <1>2, <1>3, <2>1, LegPassed
<1>4. CASE /\ Resolvable(l, leg)
           /\ plan' = [plan EXCEPT !.requested[leg] = value, !.residuals = r2]
           /\ UNCHANGED path
  <2>1. value \in Int
    BY <1>1, <1>4, ResolvedTyped DEF IInv
  <2> HIDE DEF value, r2
  <2>2. /\ Shape'
        /\ plan'.requested = [plan.requested EXCEPT ![leg] = value]
        /\ UNCHANGED <<plan.units, plan.equity, plan.filled,
                       plan.compensation, plan.accepted, plan.commands>>
    BY <1>2, <1>4 DEF Shape
  <2>3. plan'.requested \in [DOMAIN intent.legs -> Int]
    BY <1>2, <2>1, <2>2
  <2> QED BY <1>1, <1>4, <2>2, <2>3, LegPassed
<1>5. CASE /\ Resolvable(l, leg)
           /\ ~PrimaryRejected
           /\ a.reason = "accepted"
           /\ plan' = Accepted(plan, leg, value, a)
           /\ path' = PathAfter(a)
  BY <1>1, <1>5, LegAccepted
<1> QED BY <1>1, <1>3, <1>4, <1>5

\* The first pass ends: the plan and its path stand.
LEMMA PlanStands ==
  ASSUME IInv, pc \in {"plan", "unwind"}, pc' \in {"step", "unwind"},
         pc' = "unwind" => leg' \in 0..(Len(intent.legs) + 1),
         UNCHANGED <<bar, positions, equity, liquidated, intent, plan, cursor,
                     rejected, refusal, path>>
  PROVE  IInv'
<1>1. TypeOK' /\ Shape'
  BY DEF IInv, TypeOK, Shape
<1>2. Foretold'
  <2>1. OnPath /\ Ahead /\ cursor = 1 /\ rejected = 0 /\ refusal = "none"
    BY DEF IInv, Foretold
  <2>2. Projected' = Projected
    BY DEF Projected, PriceMove, FundingCost, IntrabarLiquidated,
       BelowMaintenance, MaintenanceMargin, Quotes
  <2>3. Ahead' /\ OnPath'
    BY <2>1, <2>2 DEF Ahead, OnPath, Sq, Quotes
  <2> QED BY <2>1, <2>3 DEF Foretold
<1>3. Hedged'
  BY DEF IInv, Hedged
<1> QED BY <1>1, <1>2, <1>3 DEF IInv

LEMMA FinishPlanKeeps ==
  ASSUME IInv, FinishPlan
  PROVE  IInv'
<1>1. /\ pc = "plan"
      /\ pc' = "step" \/ (pc' = "unwind" /\ leg' = Len(intent.legs))
      /\ UNCHANGED <<bar, positions, equity, liquidated, intent, plan, cursor,
                     rejected, refusal, path>>
  BY DEF FinishPlan, Planned
<1>2. Len(intent.legs) \in Nat
  BY <1>1, LegsTyped DEF IInv, TypeOK
<1>3. pc' = "unwind" => leg' \in 0..(Len(intent.legs) + 1)
  BY <1>1, <1>2
<1> QED BY <1>1, <1>3, PlanStands

LEMMA FinishUnwindKeeps ==
  ASSUME IInv, FinishUnwind
  PROVE  IInv'
<1>1. /\ pc = "unwind" /\ pc' = "step"
      /\ UNCHANGED <<bar, positions, equity, liquidated, intent, plan, cursor,
                     rejected, refusal, path>>
  BY DEF FinishUnwind
<1> QED BY <1>1, PlanStands

\* What unwinding a leg makes of the plan.
Unwound(l, a) ==
  /\ FilledAlike(l, -plan.filled[leg], 2, a)
  /\ plan'.units = a.units /\ plan'.equity = a.equity
  /\ plan'.requested = plan.requested
  /\ plan'.filled = plan.filled
  /\ plan'.accepted = plan.accepted
  /\ plan'.compensation = [plan.compensation EXCEPT ![leg] = @ + a.actual]
  /\ plan'.commands = Append(plan.commands, Command(l, a.actual))
  /\ Shape'

UnwoundPlan(a, r) ==
  [Traded(plan, leg, a) EXCEPT
     !.compensation[leg] = @ + a.actual, !.residuals = r]

LEMMA LegUnwound ==
  ASSUME IInv, pc = "unwind", leg \in DOMAIN intent.legs,
         NEW a, a = Attempt(intent.legs[leg], -plan.filled[leg], 2, plan.units,
                            plan.equity),
         a.reason = "accepted",
         NEW r,
         plan' = UnwoundPlan(a, r)
  PROVE  Unwound(intent.legs[leg], a)
<1> DEFINE l == intent.legs[leg]
           qty == -plan.filled[leg]
           c == Command(l, a.actual)
<1>1. /\ intent \in Intents
      /\ plan.units \in [Symbols -> Int]
      /\ plan.filled \in [DOMAIN intent.legs -> Int]
  BY DEF IInv, TypeOK
<1>2. l \in LegIntent /\ qty \in Int
  BY <1>1, LegsTyped
<1>3. FilledAlike(l, qty, 2, a)
  <2>1. 2 \in 0..2
    OBVIOUS
  <2> HIDE DEF l, qty
  <2>2. a = Attempt(l, qty, 2, plan.units, plan.equity) /\ a.reason = "accepted"
    BY DEF l, qty
  <2> QED BY <1>1, <1>2, <2>1, <2>2, AttemptFills
<1>4. Traded(plan, leg, a)
       = [units |-> a.units, equity |-> a.equity,
          requested |-> plan.requested, filled |-> plan.filled,
          compensation |-> plan.compensation, accepted |-> plan.accepted,
          residuals |-> plan.residuals, commands |-> Append(plan.commands, c)]
  BY TradedFields DEF IInv
<1> HIDE DEF c
<1>5. /\ plan'.units = a.units /\ plan'.equity = a.equity
      /\ plan'.requested = plan.requested
      /\ plan'.filled = plan.filled
      /\ plan'.accepted = plan.accepted
      /\ plan'.compensation = [plan.compensation EXCEPT ![leg] = @ + a.actual]
      /\ plan'.commands = Append(plan.commands, c)
      /\ Shape'
  <2> DEFINE t == Traded(plan, leg, a)
  <2>1. plan' = [t EXCEPT !.compensation[leg] = t.compensation[leg] + a.actual,
                          !.residuals = r]
    BY DEF UnwoundPlan
  <2>2. t = [units |-> a.units, equity |-> a.equity,
             requested |-> plan.requested, filled |-> plan.filled,
             compensation |-> plan.compensation, accepted |-> plan.accepted,
             residuals |-> plan.residuals, commands |-> Append(plan.commands, c)]
    BY <1>4
  <2> HIDE DEF t
  <2>3. plan' = [units |-> a.units, equity |-> a.equity,
                 requested |-> plan.requested, filled |-> plan.filled,
                 compensation |-> [plan.compensation EXCEPT ![leg] = @ + a.actual],
                 accepted |-> plan.accepted, residuals |-> r,
                 commands |-> Append(plan.commands, c)]
    BY <2>1, <2>2
  <2> QED BY <2>3 DEF Shape
<1> QED BY <1>3, <1>5, Zenon DEF Unwound, l, qty, c

\* An unwinding order is one more order on the path.
LEMMA UnwindLegKeeps ==
  ASSUME IInv, UnwindLeg
  PROVE  IInv'
<1> DEFINE l == intent.legs[leg]
           qty == -plan.filled[leg]
           a == Attempt(l, qty, 2, plan.units, plan.equity)
           c == Command(l, a.actual)
           n == Len(intent.legs)
           r == plan.residuals \cup {Residual(leg, a.actual, "unwound")}
<1>1. /\ pc = "unwind" /\ leg \in DOMAIN intent.legs /\ leg' = leg - 1
      /\ UNCHANGED <<pc, bar, positions, equity, liquidated, intent, cursor,
                     rejected, refusal>>
      /\ \/ UNCHANGED <<plan, path>>
         \/ /\ a.reason = "accepted"
            /\ plan' = [Traded(plan, leg, a) EXCEPT
                          !.compensation[leg] = @ + a.actual, !.residuals = r]
            /\ path' = PathAfter(a)
  BY DEF UnwindLeg, Traded
<1>2. /\ intent \in Intents
      /\ plan.units \in [Symbols -> Int]
      /\ plan.filled \in [DOMAIN intent.legs -> Int]
      /\ plan.compensation \in [DOMAIN intent.legs -> Int]
      /\ plan.commands \in Seq(PlanCommand)
  BY <1>1 DEF IInv, TypeOK, PlanCommand
<1>3. DOMAIN intent.legs = 1..n /\ n \in Nat \ {0} /\ l \in LegIntent
  BY <1>1, <1>2, LegsTyped
<1>4. pc' = "unwind" /\ leg' \in 0..(n + 1)
  BY <1>1, <1>3
<1>5. CASE UNCHANGED <<plan, path>>
  BY <1>1, <1>4, <1>5, PlanStands
<1>6. CASE /\ a.reason = "accepted"
           /\ plan' = [Traded(plan, leg, a) EXCEPT
                         !.compensation[leg] = @ + a.actual, !.residuals = r]
           /\ path' = PathAfter(a)
  <2>1. Unwound(l, a)
    <3>1. plan' = UnwoundPlan(a, r)
      BY <1>6 DEF UnwoundPlan
    <3> QED BY <1>1, <1>6, <3>1, LegUnwound
  <2>3. /\ a.actual \in Int \ {0}
        /\ Foreseen(Quotes, c, plan.units, plan.equity, a.units, a.equity)
        /\ a.units = [plan.units EXCEPT ![l.symbol] = @ + a.actual]
    <3> HIDE DEF l, qty, a
    <3> QED BY <2>1, Zenon DEF Unwound, FilledAlike
  <2>4. l.symbol \in Symbols
    BY <1>3 DEF LegIntent
  <2>5. c \in PlanCommand
    <3> HIDE DEF l, a
    <3> QED BY <2>3, <2>4 DEF Command, PlanCommand
  <2> HIDE DEF a
  <2> HIDE DEF l, r
  <2>7. /\ plan'.units = a.units /\ plan'.equity = a.equity
        /\ plan'.requested = plan.requested
        /\ plan'.filled = plan.filled
        /\ plan'.accepted = plan.accepted
        /\ plan'.compensation = [plan.compensation EXCEPT ![leg] = @ + a.actual]
        /\ plan'.commands = Append(plan.commands, c)
        /\ Shape'
    BY <2>1 DEF Unwound
  <2> HIDE DEF c
  <2>8. OnPath /\ Ahead /\ cursor = 1 /\ rejected = 0 /\ refusal = "none"
    BY <1>1 DEF IInv, Foretold
  <2>9. OnPath' /\ path'[1] = path[1] /\ plan'.commands \in Seq(PlanCommand)
    <3>1. path' = Append(path, Point(plan'.units, plan'.equity))
      BY <1>6, <2>7 DEF PathAfter, Point
    <3>2. Foreseen(Quotes, c, plan.units, plan.equity, plan'.units, plan'.equity)
      BY <2>3, <2>7
    <3> QED BY <1>1, <1>2, <2>5, <2>7, <2>8, <3>1, <3>2, PathExtends
  <2>10. TypeOK'
    <3>1. plan'.units \in [Symbols -> Int]
      BY <1>2, <2>3, <2>4, <2>7
    <3>2. plan'.compensation \in [DOMAIN intent.legs -> Int]
      BY <1>1, <1>2, <2>3, <2>7
    <3>3. cursor' \in 1..(Len(plan'.commands) + 1)
      BY <1>1, <2>8, <2>9
    <3> QED BY <1>1, <1>4, <2>7, <2>9, <3>1, <3>2, <3>3 DEF IInv, TypeOK, PlanCommand
  <2>11. Foretold'
    <3>1. Projected' = Projected
      BY <1>1 DEF Projected, PriceMove, FundingCost, IntrabarLiquidated,
         BelowMaintenance, MaintenanceMargin, Quotes
    <3>2. Ahead'
      BY <1>1, <2>8, <2>9, <3>1 DEF Ahead
    <3> QED BY <1>1, <2>8, <2>9, <3>2 DEF Foretold
  <2>12. Hedged'
    BY <1>1, <2>7 DEF IInv, Hedged
  <2> QED BY <2>7, <2>10, <2>11, <2>12 DEF IInv
<1> QED BY <1>1, <1>5, <1>6

-----------------------------------------------------------------------------
(* The session's steps *)

LEMMA ClearedTyped == Cleared \in [Symbols -> Int]
  BY DEF Cleared

\* The projection is what the step will find.
LEMMA ProjectedAccount ==
  /\ Projected.equity = Marked - FundingCost
  /\ Projected.liquidated =
       (liquidated \/ IntrabarLiquidated(Marked)
          \/ BelowMaintenance(positions, Marked - FundingCost))
  BY DEF Projected, Marked

\* No plan meets a liquidation.
LEMMA StepClosesKeeps ==
  ASSUME IInv, StepLiquidated \/ StepLiquidates
  PROVE  IInv'
<1>1. /\ pc = "step" /\ pc' = "closed"
      /\ liquidated \/ IntrabarLiquidated(Marked)
           \/ BelowMaintenance(positions, Marked - FundingCost)
      /\ UNCHANGED <<bar, intent, plan, leg, cursor, rejected, refusal, path>>
      /\ positions' \in {positions, Cleared}
      /\ liquidated' \in {liquidated, TRUE}
  BY DEF StepLiquidated, StepLiquidates
<1>2. plan.commands = << >> /\ cursor = 1 /\ rejected = 0 /\ refusal = "none"
  BY <1>1, ProjectedAccount DEF IInv, Foretold, Ahead
<1>3. TypeOK' /\ Shape'
  BY <1>1, ClearedTyped DEF IInv, TypeOK, Shape
<1>4. Foretold' /\ Hedged'
  BY <1>1, <1>2 DEF Foretold, Hedged
<1> QED BY <1>3, <1>4 DEF IInv

\* The step opens at the head of the path.
LEMMA StepOpensKeeps ==
  ASSUME IInv, StepOpens
  PROVE  IInv'
<1>1. /\ pc = "step" /\ pc' = "match" /\ cursor' = 1
      /\ equity' = Marked - FundingCost
      /\ UNCHANGED <<bar, positions, liquidated, intent, plan, leg, rejected, refusal,
                     path>>
  BY DEF StepOpens
<1>2. rejected = 0 /\ refusal = "none" /\ (plan.commands = << >> \/ (OnPath /\ Ahead))
  BY <1>1 DEF IInv, Foretold
<1>3. TypeOK' /\ Shape'
  <2>1. plan.commands \in Seq(PlanCommand)
    BY DEF IInv, TypeOK, PlanCommand
  <2>2. cursor' \in 1..(Len(plan.commands) + 1)
    BY <1>1, <2>1
  <2> QED BY <1>1, <2>2 DEF IInv, TypeOK, Shape
<1>4. Foretold'
  <2>1. ASSUME OnPath, Ahead
        PROVE  OnPath' /\ path'[cursor'].units = positions'
               /\ path'[cursor'].equity = equity'
    <3>1. OnPath'
      BY <1>1, <2>1 DEF OnPath, Sq, Quotes
    <3>2. path'[cursor'] = Point(positions', equity')
      BY <1>1, <2>1, ProjectedAccount DEF Ahead
    <3> QED BY <3>1, <3>2, PointFields
  <2> QED BY <1>1, <1>2, <2>1 DEF Foretold
<1>5. Hedged'
  BY <1>1 DEF Hedged
<1> QED BY <1>3, <1>4, <1>5 DEF IInv

\* An order of the plan that is filled moves the account one step on the path;
\* one that is rejected was short by Tolerance at most, or is not the first.
LEMMA MatchOrderKeeps ==
  ASSUME IInv, MatchOrder
  PROVE  IInv'
<1> DEFINE c == plan.commands[cursor]
           f == Fill(Quotes, Compiled(c), positions, equity)
           n == Len(plan.commands)
<1>1. /\ pc = "match" /\ pc' = "match" /\ cursor \in DOMAIN plan.commands
      /\ cursor' = cursor + 1
      /\ UNCHANGED <<bar, liquidated, intent, plan, leg, path>>
      /\ \/ /\ positions' = f.units /\ equity' = f.equity
            /\ UNCHANGED <<rejected, refusal>>
         \/ /\ UNCHANGED <<positions, equity>>
            /\ refusal' = IF refusal # "none" THEN refusal
                          ELSE IF f.tolerable THEN "tolerable" ELSE "beyond"
  BY DEF MatchOrder
<1>2. /\ plan.commands \in Seq(PlanCommand)
      /\ positions \in [Symbols -> Int]
  BY DEF IInv, TypeOK, PlanCommand
<1>3. n \in Nat /\ cursor \in 1..n /\ c \in PlanCommand /\ plan.commands # << >>
  BY <1>1, <1>2
<1>4. /\ OnPath /\ refusal \in {"none", "tolerable"} /\ (refusal = "none" => rejected = 0)
      /\ refusal = "none" =>
           path[cursor].units = positions /\ path[cursor].equity = equity
  BY <1>1, <1>3 DEF IInv, Foretold
<1>5. ASSUME refusal = "none"
      PROVE  /\ f.tolerable
             /\ f.units = path[cursor + 1].units
             /\ f.equity = path[cursor + 1].equity
  <2>1. Foreseen(Quotes, c, path[cursor].units, path[cursor].equity,
                 path[cursor + 1].units, path[cursor + 1].equity)
    BY <1>3, <1>4 DEF OnPath
  <2> QED BY <1>4, <1>5, <2>1 DEF Foreseen
<1>6. f.units \in [Symbols -> Int]
  <2> DEFINE o == Compiled(c)
  <2>1. o.symbol \in Symbols /\ o.qty \in Int /\ o.side \in Int
    BY <1>3 DEF Compiled, PlanCommand, Magnitude, Sign
  <2> HIDE DEF o
  <2>2. o.qty * o.side \in Int
    BY <2>1
  <2>3. Fill(Quotes, o, positions, equity).units
         = [positions EXCEPT ![o.symbol] = @ + o.qty * o.side]
    BY DEF Fill
  <2> QED BY <1>2, <2>1, <2>2, <2>3 DEF o
<1> HIDE DEF f
<1>7. /\ refusal' \in {"none", "tolerable"}
      /\ refusal' = "none" =>
           /\ rejected' = 0
           /\ positions' = path[cursor + 1].units
           /\ equity' = path[cursor + 1].equity
  BY <1>1, <1>4, <1>5
<1>8. TypeOK' /\ Shape'
  <2>1. cursor' \in 1..(n + 1)
    BY <1>1, <1>3
  <2>2. positions' \in [Symbols -> Int]
    BY <1>1, <1>2, <1>6
  <2> QED BY <1>1, <2>1, <2>2 DEF IInv, TypeOK, Shape
<1>9. Foretold'
  <2>1. OnPath'
    BY <1>1, <1>4 DEF OnPath, Sq, Quotes
  <2> QED BY <1>1, <1>7, <2>1 DEF Foretold
<1>10. Hedged'
  BY <1>1 DEF Hedged
<1> QED BY <1>8, <1>9, <1>10 DEF IInv

LEMMA CloseBarKeeps ==
  ASSUME IInv, CloseBar
  PROVE  IInv'
<1>1. /\ pc' \in {"callback", "done"}
      /\ intent' = NoIntent /\ plan' = EmptyPlan
      /\ cursor' = 1 /\ rejected' = 0 /\ refusal' = "none"
      /\ positions' \in {positions, Cleared}
      /\ liquidated' \in {liquidated, TRUE}
  BY DEF CloseBar, NextBar
<1>2. Shape' /\ plan'.commands = << >>
  BY <1>1, EmptyShape
<1>3. TypeOK'
  <2>1. cursor' \in 1..(Len(plan'.commands) + 1)
        /\ plan'.commands \in Seq([symbol : Symbols, qty : Int \ {0}])
    BY <1>1, <1>2
  <2> QED BY <1>1, <2>1, ClearedTyped DEF IInv, TypeOK
<1>4. Foretold' /\ Hedged'
  BY <1>1, <1>2 DEF Foretold, Hedged
<1> QED BY <1>2, <1>3, <1>4 DEF IInv

LEMMA StutterKeeps ==
  ASSUME IInv, UNCHANGED vars
  PROVE  IInv'
<1>1. Projected' = Projected
  BY DEF vars, Projected, PriceMove, FundingCost, IntrabarLiquidated,
     BelowMaintenance, MaintenanceMargin, Quotes
<1>2. (OnPath => OnPath') /\ (Ahead => Ahead')
  BY <1>1 DEF vars, OnPath, Ahead, Sq, Quotes
<1>3. Foretold'
  BY <1>2 DEF vars, IInv, Foretold
<1>4. TypeOK' /\ Shape' /\ Hedged'
  BY DEF vars, IInv, TypeOK, Shape, Hedged
<1> QED BY <1>3, <1>4 DEF IInv

LEMMA NextKeeps ==
  ASSUME IInv, [Next]_vars
  PROVE  IInv'
<1>1. CASE NoPackage
  BY <1>1, NoPackageKeeps
<1>2. ASSUME NEW i \in Intents, AbortPackage(i) \/ RefusePackage(i)
      PROVE  IInv'
  BY <1>2, RefusedKeeps DEF AbortPackage, RefusePackage, MayHold
<1>3. ASSUME NEW i \in Intents, FailRun(i)
      PROVE  IInv'
  BY <1>3, FailRunKeeps
<1>4. ASSUME NEW i \in Intents, StartPlan(i)
      PROVE  IInv'
  BY <1>4, StartPlanKeeps
<1>5. CASE PlanAtomicLeg
  BY <1>5, PlanAtomicLegKeeps
<1>6. CASE PlanLeg
  BY <1>6, PlanLegKeeps
<1>7. CASE FinishPlan
  BY <1>7, FinishPlanKeeps
<1>8. CASE UnwindLeg
  BY <1>8, UnwindLegKeeps
<1>9. CASE FinishUnwind
  BY <1>9, FinishUnwindKeeps
<1>10. CASE StepLiquidated \/ StepLiquidates
  BY <1>10, StepClosesKeeps
<1>11. CASE StepOpens
  BY <1>11, StepOpensKeeps
<1>12. CASE MatchOrder
  BY <1>12, MatchOrderKeeps
<1>13. CASE CloseBar
  BY <1>13, CloseBarKeeps
<1>14. CASE UNCHANGED vars
  BY <1>14, StutterKeeps
<1> QED
  BY <1>1, <1>2, <1>3, <1>4, <1>5, <1>6, <1>7, <1>8, <1>9, <1>10, <1>11,
     <1>12, <1>13, <1>14 DEF Next

LEMMA Inductive == Spec => []IInv
<1>1. Init => IInv
  BY InitIInv
<1>2. IInv /\ [Next]_vars => IInv'
  BY NextKeeps
<1> QED BY <1>1, <1>2, PTL DEF Spec

-----------------------------------------------------------------------------
(* The books of a package: the positions of the plan are the account's plus *)
(* the sums of what its legs have traded.                                   *)

\* What the legs on symbol s make of the amounts, one per leg.
OnSymbol(s, amounts) ==
  SumOver([k \in DOMAIN intent.legs |->
             IF intent.legs[k].symbol = s THEN amounts[k] ELSE 0])

\* What a leg has left behind: its fill and its unwinding.
Net == [k \in DOMAIN intent.legs |-> plan.filled[k] + plan.compensation[k]]

Balanced ==
  \A s \in Symbols : plan.units[s] = positions[s] + OnSymbol(s, Net)

\* Every leg planned so far has got exactly what it asked for.
Exact ==
  /\ plan.residuals = {}
  /\ \A k \in DOMAIN intent.legs :
       plan.filled[k] = plan.requested[k] /\ plan.compensation[k] = 0

\* The positions a plan moves away from start, at the closes of the bar.
Moved(start) ==
  SumOver([s \in Symbols |->
             Magnitude(plan.units[s] - start[s]) * Quotes[s].close])

\* A plan that is not aborted, on the account it starts from.
Final(start) ==
  /\ plan.commands # << >>
  /\ intent.policy = "atomic" =>
       \A s \in Symbols : plan.units[s] = start[s] + OnSymbol(s, plan.requested)
  /\ plan.residuals # {} => Moved(start) <= outcome.outstanding

Unplanned == intent = NoIntent /\ plan = EmptyPlan /\ outcome = NoOutcome

Booked ==
  /\ bar \in Nat
  /\ pc = "callback" => Unplanned
  /\ pc \in {"plan", "unwind"} =>
       /\ bar + 1 < Len(Market)
       /\ plan.commands # << >> <=> AnyAccepted
       /\ pc = "unwind" => AnyAccepted
       /\ Balanced
       /\ intent.policy = "atomic" => pc = "plan" /\ Exact
  /\ pc = "step" =>
       \/ Unplanned
       \/ outcome = Aborted /\ plan.commands = << >>
       \/ outcome # Aborted /\ Final(positions)
  /\ pc = "match" =>
       /\ plan.commands = << >> => positions = before
       /\ \/ Unplanned
          \/ outcome = Aborted /\ plan.commands = << >>
          \/ outcome # Aborted /\ Final(before)

LEMMA SumIsTotal ==
  ASSUME NEW f
  PROVE  SumOver(f) = Total(f)
  BY DEF SumOver, Total

\* The amounts of the legs on one symbol.
Column(on, amounts, s) ==
  [k \in DOMAIN amounts |-> IF on[k] = s THEN amounts[k] ELSE 0]

LEMMA ColumnTyped ==
  ASSUME NEW K, IsFiniteSet(K), NEW on, NEW d \in [K -> Int], NEW s
  PROVE  Column(on, d, s) \in [K -> Int] /\ Total(Column(on, d, s)) \in Int
<1> PICK f : f = Column(on, d, s)
  OBVIOUS
<1>1. f \in [K -> Int]
  BY DEF Column
<1>2. Total(f) \in Int
  BY <1>1, TotalInt
<1> QED BY <1>1, <1>2

\* One amount changes the sum of its own symbol and no other.
LEMMA ColumnUpdate ==
  ASSUME NEW K, IsFiniteSet(K), NEW on,
         NEW d \in [K -> Int], NEW e \in [K -> Int],
         NEW x \in K, \A y \in K \ {x} : e[y] = d[y], NEW s
  PROVE  Total(Column(on, e, s))
           = Total(Column(on, d, s)) + (IF on[x] = s THEN e[x] - d[x] ELSE 0)
<1> PICK f : f = Column(on, d, s)
  OBVIOUS
<1> PICK g : g = Column(on, e, s)
  OBVIOUS
<1>1. /\ f \in [K -> Int] /\ g \in [K -> Int] /\ Total(f) \in Int
      /\ f[x] = (IF on[x] = s THEN d[x] ELSE 0)
      /\ g[x] = (IF on[x] = s THEN e[x] ELSE 0)
      /\ \A y \in K \ {x} : g[y] = f[y]
  <2>1. f \in [K -> Int] /\ g \in [K -> Int] /\ Total(f) \in Int
    BY ColumnTyped
  <2>2. /\ f = [k \in K |-> IF on[k] = s THEN d[k] ELSE 0]
        /\ g = [k \in K |-> IF on[k] = s THEN e[k] ELSE 0]
    BY DEF Column
  <2> QED BY <2>1, <2>2
<1>2. Total(g) = Total(f) + g[x] - f[x]
  BY <1>1, TotalUpdate
<1>3. CASE on[x] = s
  BY <1>1, <1>2, <1>3
<1>4. CASE on[x] # s
  <2>1. f[x] = 0 /\ g[x] = 0
    BY <1>1, <1>4
  <2> QED BY <1>1, <1>2, <1>4, <2>1
<1> QED BY <1>3, <1>4

LEMMA WeightedTriangle ==
  ASSUME NEW a \in Int, NEW b \in Int, NEW w \in Nat
  PROVE  /\ Magnitude(a) * w \in Nat
         /\ Magnitude(a + b) * w <= Magnitude(a) * w + Magnitude(b) * w
<1>1. /\ Magnitude(a) \in Nat /\ Magnitude(b) \in Nat /\ Magnitude(a + b) \in Nat
      /\ Magnitude(a + b) <= Magnitude(a) + Magnitude(b)
  BY DEF Magnitude
<1>2. \A x, y, z \in Nat : x <= y + z => x * w <= y * w + z * w
  <2>1. ASSUME NEW x \in Nat, NEW y \in Nat, NEW z \in Nat, x <= y + z
        PROVE  x * w <= y * w + z * w
    <3>1. x * w <= (y + z) * w
      <4>1. PICK t \in Nat : y + z = x + t
        BY <2>1
      <4>2. (x + t) * w = x * w + t * w /\ t * w \in Nat /\ x * w \in Nat
        OBVIOUS
      <4> QED BY <4>1, <4>2
    <3>2. (y + z) * w = y * w + z * w
      OBVIOUS
    <3> QED BY <3>1, <3>2
  <2> QED BY <2>1
<1>3. Magnitude(a) * w \in Nat
  BY <1>1
<1> QED BY <1>1, <1>2, <1>3

\* Amounts netted by symbol never weigh more than each on its own.
LEMMA NettedWithinGross ==
  ASSUME NEW K, IsFiniteSet(K), NEW S, IsFiniteSet(S),
         NEW d \in [K -> Int], NEW on \in [K -> S], NEW w \in [S -> Nat]
  PROVE  Total([s \in S |-> Magnitude(Total(Column(on, d, s))) * w[s]])
           <= Total([k \in K |-> Magnitude(d[k]) * w[on[k]]])
<1> DEFINE Part(T) == [k \in K |-> IF k \in T THEN d[k] ELSE 0]
           Nett(e) == [s \in S |-> Magnitude(Total(Column(on, e, s))) * w[s]]
           Gross(e) == [k \in K |-> Magnitude(e[k]) * w[on[k]]]
           G == {T \in SUBSET K : Total(Nett(Part(T))) <= Total(Gross(Part(T)))}
<1>1. ASSUME NEW e \in [K -> Int]
      PROVE  Nett(e) \in [S -> Int] /\ Gross(e) \in [K -> Int]
  <2>1. \A s \in S : Magnitude(Total(Column(on, e, s))) * w[s] \in Int
    <3>1. ASSUME NEW s \in S PROVE Magnitude(Total(Column(on, e, s))) * w[s] \in Int
      <4>1. Total(Column(on, e, s)) \in Int /\ w[s] \in Nat
        BY ColumnTyped
      <4> QED BY <4>1, WeightedTriangle
    <3> QED BY <3>1
  <2>2. \A k \in K : Magnitude(e[k]) * w[on[k]] \in Int
    BY WeightedTriangle
  <2> QED BY <2>1, <2>2
<1>2. ASSUME NEW T \in SUBSET K, \A R \in SUBSET T : R # T => R \in G
      PROVE  T \in G
  <2>1. CASE T = {}
    <3> PICK e : e = Part(T)
      OBVIOUS
    <3>1. e \in [K -> Int] /\ \A k \in K : e[k] = 0
      BY <2>1
    <3>2. \A s \in S : Total(Column(on, e, s)) = 0
      <4>1. ASSUME NEW s \in S PROVE Total(Column(on, e, s)) = 0
        <5> PICK f : f = Column(on, e, s)
          OBVIOUS
        <5>1. f \in [K -> Int] /\ \A k \in K : f[k] = 0
          BY <3>1 DEF Column
        <5>2. Total(f) = 0
          BY <5>1, TotalZero
        <5> QED BY <5>2
      <4> QED BY <4>1
    <3> PICK n : n = Nett(e)
      OBVIOUS
    <3> PICK g : g = Gross(e)
      OBVIOUS
    <3>3. n \in [S -> Int] /\ g \in [K -> Int]
      BY <1>1, <3>1
    <3>4. \A s \in S : n[s] = 0
      BY <3>2 DEF Magnitude
    <3>5. \A k \in K : g[k] = 0
      BY <3>1 DEF Magnitude
    <3>6. Total(n) = 0
      BY <3>3, <3>4, TotalZero
    <3>7. Total(g) = 0
      BY <3>3, <3>5, TotalZero
    <3>8. Total(Nett(Part(T))) <= Total(Gross(Part(T)))
      BY <3>6, <3>7
    <3> QED BY <3>8
  <2>2. CASE T # {}
    <3> PICK x \in T : TRUE
      BY <2>2
    <3>1. PICK R : R = T \ {x}
      OBVIOUS
    <3>2. R \in G /\ x \in K
      BY <1>2, <3>1
    <3>3. PICK e : e = Part(R)
      OBVIOUS
    <3>4. PICK u : u = Part(T)
      OBVIOUS
    <3>5. /\ e \in [K -> Int] /\ u \in [K -> Int]
          /\ e[x] = 0 /\ u[x] = d[x]
          /\ \A k \in K \ {x} : u[k] = e[k]
      BY <3>1, <3>2, <3>3, <3>4
    <3>6. PICK y : y = on[x]
      OBVIOUS
    <3>7. y \in S /\ d[x] \in Int /\ w[y] \in Nat
      BY <3>2, <3>6
    <3>8. ASSUME NEW s \in S
          PROVE  /\ Total(Column(on, e, s)) \in Int
                 /\ Total(Column(on, u, s))
                      = Total(Column(on, e, s)) + (IF y = s THEN d[x] ELSE 0)
      <4>1. Total(Column(on, u, s))
              = Total(Column(on, e, s)) + (IF on[x] = s THEN u[x] - e[x] ELSE 0)
        BY <3>2, <3>5, ColumnUpdate
      <4>2. u[x] - e[x] = d[x]
        BY <3>5, <3>7
      <4> QED BY <3>5, <3>6, <4>1, <4>2, ColumnTyped
    <3>9. PICK n : n = Nett(e)
      OBVIOUS
    <3>10. PICK m : m = Nett(u)
      OBVIOUS
    <3>11. PICK g : g = Gross(e)
      OBVIOUS
    <3>12. PICK h : h = Gross(u)
      OBVIOUS
    <3>13. /\ n \in [S -> Int] /\ m \in [S -> Int]
           /\ g \in [K -> Int] /\ h \in [K -> Int]
      BY <1>1, <3>5, <3>9, <3>10, <3>11, <3>12
    <3>14. PICK t : t = Total(Column(on, e, y))
      OBVIOUS
    <3>15. /\ t \in Int
           /\ n[y] = Magnitude(t) * w[y]
           /\ m[y] = Magnitude(t + d[x]) * w[y]
           /\ \A s \in S \ {y} : m[s] = n[s]
      <4>1. Total(Column(on, u, y)) = t + d[x] /\ t \in Int
        BY <3>7, <3>8, <3>14
      <4>2. \A s \in S \ {y} : Total(Column(on, u, s)) = Total(Column(on, e, s))
        BY <3>8
      <4> QED BY <3>7, <3>9, <3>10, <3>14, <4>1, <4>2
    <3>16. /\ g[x] = 0
           /\ h[x] = Magnitude(d[x]) * w[y]
           /\ \A k \in K \ {x} : h[k] = g[k]
      <4>1. \A k \in K \ {x} : h[k] = g[k]
        BY <3>5, <3>11, <3>12
      <4>2. g[x] = Magnitude(0) * w[y] /\ h[x] = Magnitude(d[x]) * w[y]
        BY <3>2, <3>5, <3>6, <3>11, <3>12
      <4>3. g[x] = 0
        BY <3>7, <4>2 DEF Magnitude
      <4> QED BY <4>1, <4>2, <4>3
    <3>17. m[y] <= n[y] + h[x]
      BY <3>7, <3>15, <3>16, WeightedTriangle
    <3>18. Total(m) = Total(n) + m[y] - n[y] /\ Total(n) \in Int
      BY <3>7, <3>13, <3>15, TotalUpdate, TotalInt
    <3>19. Total(h) = Total(g) + h[x] - g[x] /\ Total(g) \in Int
      BY <3>2, <3>13, <3>16, TotalUpdate, TotalInt
    <3>20. Total(n) <= Total(g)
      BY <3>2, <3>3, <3>9, <3>11
    <3>21. m[y] \in Int /\ n[y] \in Int /\ h[x] \in Int
      BY <3>2, <3>7, <3>13
    <3>22. Total(m) <= Total(h)
      BY <3>16, <3>17, <3>18, <3>19, <3>20, <3>21
    <3> QED BY <3>4, <3>10, <3>12, <3>22
  <2> QED BY <2>1, <2>2
<1>3. SUBSET K \subseteq G
  <2> HIDE DEF G
  <2> QED BY <1>2, SubsetInduct
<1>4. Part(K) = d
  OBVIOUS
<1>5. Total(Nett(Part(K))) <= Total(Gross(Part(K)))
  BY <1>3
<1> QED BY <1>4, <1>5

-----------------------------------------------------------------------------
(* The books are kept *)

\* The symbols of the package's legs.
On == [k \in DOMAIN intent.legs |-> intent.legs[k].symbol]

LEMMA LegsFinite ==
  ASSUME intent \in Intents
  PROVE  IsFiniteSet(DOMAIN intent.legs) /\ On \in [DOMAIN intent.legs -> Symbols]
<1>1. /\ DOMAIN intent.legs = 1..Len(intent.legs) /\ Len(intent.legs) \in Nat
      /\ \A k \in DOMAIN intent.legs : intent.legs[k] \in LegIntent
  BY LegsTyped
<1>2. IsFiniteSet(1..Len(intent.legs))
  BY <1>1, FS_Interval
<1>3. \A k \in DOMAIN intent.legs : intent.legs[k].symbol \in Symbols
  BY <1>1 DEF LegIntent
<1> QED BY <1>1, <1>2, <1>3 DEF On

LEMMA OnSymbolIsColumn ==
  ASSUME NEW d \in [DOMAIN intent.legs -> Int], NEW s
  PROVE  OnSymbol(s, d) = Total(Column(On, d, s))
<1>1. [k \in DOMAIN intent.legs |-> IF intent.legs[k].symbol = s THEN d[k] ELSE 0]
        = Column(On, d, s)
  BY DEF Column, On
<1> QED BY <1>1, SumIsTotal DEF OnSymbol

LEMMA OnSymbolTyped ==
  ASSUME intent \in Intents, NEW d \in [DOMAIN intent.legs -> Int], NEW s
  PROVE  OnSymbol(s, d) \in Int
<1> QED BY LegsFinite, ColumnTyped, OnSymbolIsColumn

LEMMA OnSymbolUpdate ==
  ASSUME intent \in Intents,
         NEW d \in [DOMAIN intent.legs -> Int],
         NEW e \in [DOMAIN intent.legs -> Int],
         NEW x \in DOMAIN intent.legs,
         \A y \in DOMAIN intent.legs \ {x} : e[y] = d[y], NEW s
  PROVE  OnSymbol(s, e)
           = OnSymbol(s, d)
               + (IF intent.legs[x].symbol = s THEN e[x] - d[x] ELSE 0)
<1>1. /\ IsFiniteSet(DOMAIN intent.legs)
      /\ On[x] = intent.legs[x].symbol
  BY LegsFinite DEF On
<1>2. Total(Column(On, e, s))
        = Total(Column(On, d, s)) + (IF On[x] = s THEN e[x] - d[x] ELSE 0)
  BY <1>1, ColumnUpdate
<1> QED BY <1>1, <1>2, OnSymbolIsColumn

LEMMA NetTyped ==
  ASSUME TypeOK, pc \in {"plan", "unwind"}
  PROVE  Net \in [DOMAIN intent.legs -> Int]
  BY DEF TypeOK, Net

\* An order that a leg adds to the plan keeps its balance.
LEMMA TradeBalances ==
  ASSUME TypeOK, Balanced, pc \in {"plan", "unwind"},
         leg \in DOMAIN intent.legs, NEW q \in Int,
         plan'.units = [plan.units EXCEPT ![intent.legs[leg].symbol] = @ + q],
         \A k \in DOMAIN intent.legs :
           Net'[k] = IF k = leg THEN Net[k] + q ELSE Net[k],
         UNCHANGED <<positions, intent>>
  PROVE  Balanced'
<1>1. /\ intent \in Intents
      /\ positions \in [Symbols -> Int] /\ plan.units \in [Symbols -> Int]
      /\ Net \in [DOMAIN intent.legs -> Int]
  BY NetTyped DEF TypeOK
<1>2. PICK y : y = intent.legs[leg].symbol
  OBVIOUS
<1>3. PICK n : n = Net
  OBVIOUS
<1>4. PICK m : m = Net'
  OBVIOUS
<1>5. y \in Symbols
  <2>1. On \in [DOMAIN intent.legs -> Symbols] /\ On[leg] = y
    BY <1>1, <1>2, LegsFinite DEF On
  <2> QED BY <2>1
<1>6. /\ m \in [DOMAIN intent.legs -> Int] /\ n \in [DOMAIN intent.legs -> Int]
      /\ m[leg] = n[leg] + q /\ n[leg] \in Int
      /\ \A k \in DOMAIN intent.legs \ {leg} : m[k] = n[k]
  <2>1. n \in [DOMAIN intent.legs -> Int]
    BY <1>1, <1>3
  <2>2. \A k \in DOMAIN intent.legs : m[k] = IF k = leg THEN n[k] + q ELSE n[k]
    BY <1>3, <1>4
  <2>3. DOMAIN m = DOMAIN intent.legs /\ m = [k \in DOMAIN m |-> m[k]]
    BY <1>4 DEF Net
  <2>4. \A k \in DOMAIN intent.legs : n[k] \in Int /\ m[k] \in Int
    BY <2>1, <2>2
  <2>5. m \in [DOMAIN intent.legs -> Int]
    BY <2>3, <2>4, Zenon
  <2>6. n[leg] \in Int /\ m[leg] = n[leg] + q
    BY <2>2, <2>4
  <2>7. \A k \in DOMAIN intent.legs \ {leg} : m[k] = n[k]
    BY <2>2
  <2> QED BY <2>1, <2>5, <2>6, <2>7, Zenon
<1>7. ASSUME NEW s \in Symbols
      PROVE  plan'.units[s] = positions[s] + OnSymbol(s, m)
  <2>1. OnSymbol(s, m)
          = OnSymbol(s, n) + (IF y = s THEN m[leg] - n[leg] ELSE 0)
    BY <1>1, <1>2, <1>6, OnSymbolUpdate
  <2>2. OnSymbol(s, n) \in Int /\ m[leg] - n[leg] = q
    BY <1>1, <1>6, OnSymbolTyped
  <2>3. plan.units[s] = positions[s] + OnSymbol(s, n) /\ positions[s] \in Int
    BY <1>1, <1>3 DEF Balanced
  <2>4. CASE y = s
    <3>1. plan'.units[s] = plan.units[s] + q
      BY <1>1, <1>2, <1>5, <2>4
    <3> QED BY <2>1, <2>2, <2>3, <2>4, <3>1
  <2>5. CASE y # s
    <3>1. plan'.units[s] = plan.units[s]
      BY <1>1, <1>2, <1>5, <2>5
    <3> QED BY <2>1, <2>2, <2>3, <2>5, <3>1
  <2> QED BY <2>4, <2>5
<1>8. \A s \in Symbols : OnSymbol(s, Net)' = OnSymbol(s, m)
  BY <1>4 DEF OnSymbol
<1> QED BY <1>7, <1>8 DEF Balanced

\* The exposure a package reports as outstanding covers what it has moved.
LEMMA OutstandingCovers ==
  ASSUME TypeOK, Booked, pc \in {"plan", "unwind"}
  PROVE  Moved(positions) <= Outstanding
<1>1. /\ intent \in Intents /\ Balanced
      /\ positions \in [Symbols -> Int]
      /\ bar \in Nat /\ bar + 1 < Len(Market)
      /\ Net \in [DOMAIN intent.legs -> Int]
  BY NetTyped DEF TypeOK, Booked
<1> PICK K : K = DOMAIN intent.legs
  OBVIOUS
<1> PICK d : d = Net
  OBVIOUS
<1> PICK on : on = On
  OBVIOUS
<1> PICK w : w = [s \in Symbols |-> Quotes[s].close]
  OBVIOUS
<1>2. /\ IsFiniteSet(K) /\ IsFiniteSet(Symbols)
      /\ d \in [K -> Int] /\ on \in [K -> Symbols]
  BY <1>1, LegsFinite, MarketAssumption
<1>3. w \in [Symbols -> Nat]
  <2>1. bar + 1 \in 1..Len(Market)
    BY <1>1, MarketAssumption
  <2>2. Quotes \in [Symbols -> [close : Nat, low : Nat, high : Nat, funding : Int]]
    BY <2>1, MarketAssumption DEF Quotes
  <2> QED BY <2>2
<1>4. Total([s \in Symbols |-> Magnitude(Total(Column(on, d, s))) * w[s]])
        <= Total([k \in K |-> Magnitude(d[k]) * w[on[k]]])
  BY <1>2, <1>3, NettedWithinGross
<1>5. ASSUME NEW s \in Symbols
      PROVE  plan.units[s] - positions[s] = Total(Column(on, d, s))
  <2>1. OnSymbol(s, d) = Total(Column(on, d, s))
    BY <1>1, OnSymbolIsColumn
  <2>2. plan.units[s] = positions[s] + OnSymbol(s, d) /\ positions[s] \in Int
    BY <1>1 DEF Balanced
  <2>3. OnSymbol(s, d) \in Int
    BY <1>1, OnSymbolTyped
  <2> QED BY <2>1, <2>2, <2>3
<1>6. [s \in Symbols |-> Magnitude(plan.units[s] - positions[s]) * Quotes[s].close]
        = [s \in Symbols |-> Magnitude(Total(Column(on, d, s))) * w[s]]
  BY <1>5
<1>7. [k \in DOMAIN intent.legs |->
          Magnitude(plan.filled[k] + plan.compensation[k])
            * Quotes[intent.legs[k].symbol].close]
        = [k \in K |-> Magnitude(d[k]) * w[on[k]]]
  BY <1>2 DEF Net, On
<1> QED BY <1>4, <1>6, <1>7, SumIsTotal DEF Moved, Outstanding

LEMMA InitBooked ==
  ASSUME Init
  PROVE  Booked
  BY DEF Init, Booked, Unplanned

LEMMA AbortedApart ==
  /\ Aborted # NoOutcome
  /\ \A o : o.final = "completed_hedged" \/ o.final = "completed_with_residual"
       => o # Aborted
  BY DEF Aborted, NoOutcome

\* A package that is refused leaves no books.
LEMMA RefusedBooked ==
  ASSUME Booked, Refused, UNCHANGED bar
  PROVE  Booked'
<1>1. pc' = "step" /\ outcome' = Aborted /\ plan'.commands = << >>
  BY EmptyShape DEF Refused
<1> QED BY <1>1 DEF Booked

\* The books of a fresh plan are the account's.
LEMMA StartPlanBooked ==
  ASSUME IInv, Booked, NEW i \in Intents, StartPlan(i)
  PROVE  Booked'
<1> DEFINE n == Len(i.legs)
<1>1. /\ pc' = "plan" /\ intent' = i /\ bar + 1 < Len(Market)
      /\ plan' = FreshPlan(n, Projected.equity)
      /\ UNCHANGED <<bar, positions>>
  BY DEF StartPlan, MayHold
<1>2. DOMAIN i.legs = 1..n
  BY LegsTyped
<1>3. /\ plan'.units = positions
      /\ plan'.commands = << >> /\ plan'.residuals = {}
      /\ plan'.requested = [k \in 1..n |-> 0]
      /\ plan'.filled = [k \in 1..n |-> 0]
      /\ plan'.compensation = [k \in 1..n |-> 0]
      /\ plan'.accepted = [k \in 1..n |-> FALSE]
  BY <1>1 DEF FreshPlan
<1>4. ~AnyAccepted' /\ Exact'
  BY <1>1, <1>2, <1>3 DEF AnyAccepted, Exact
<1>5. Balanced'
  <2>1. ASSUME NEW s \in Symbols
        PROVE  OnSymbol(s, Net)' = 0
    <3>1. PICK f : f = [k \in 1..n |-> IF i.legs[k].symbol = s THEN 0 ELSE 0]
      OBVIOUS
    <3>2. OnSymbol(s, Net)' = SumOver(f)
      <4>1. Net' = [k \in 1..n |-> 0]
        BY <1>1, <1>2, <1>3 DEF Net
      <4> QED BY <1>1, <1>2, <3>1, <4>1 DEF OnSymbol
    <3>3. IsFiniteSet(1..n)
      BY <1>2, LegsTyped, FS_Interval
    <3>4. f \in [1..n -> Int] /\ \A k \in 1..n : f[k] = 0
      BY <3>1
    <3>5. Total(f) = 0
      BY <3>3, <3>4, TotalZero
    <3> QED BY <3>2, <3>5, SumIsTotal
  <2>2. \A s \in Symbols : positions[s] \in Int
    BY DEF IInv, TypeOK
  <2> QED BY <1>1, <1>3, <2>1, <2>2 DEF Balanced
<1> QED BY <1>1, <1>3, <1>4, <1>5 DEF Booked

\* A leg that is taken enters the books.
LEMMA TakenBooked ==
  ASSUME IInv, Booked, Planning, NEW value, NEW a,
         Taken(intent.legs[leg], value, a),
         intent.policy = "atomic" => a.actual = value,
         UNCHANGED <<pc, bar, positions, intent>>
  PROVE  Booked'
<1>1. /\ TypeOK /\ pc = "plan" /\ leg \in DOMAIN intent.legs
      /\ plan.requested \in [DOMAIN intent.legs -> Int]
      /\ plan.filled \in [DOMAIN intent.legs -> Int]
      /\ plan.compensation \in [DOMAIN intent.legs -> Int]
      /\ plan.accepted \in [DOMAIN intent.legs -> BOOLEAN]
      /\ plan.commands \in Seq(PlanCommand)
      /\ intent \in Intents
  BY DEF Planning, IInv, TypeOK, PlanCommand
<1>2. /\ a.actual \in Int
      /\ plan'.units = [plan.units EXCEPT ![intent.legs[leg].symbol] = @ + a.actual]
      /\ plan'.requested = [plan.requested EXCEPT ![leg] = value]
      /\ plan'.filled = [plan.filled EXCEPT ![leg] = a.actual]
      /\ plan'.compensation = plan.compensation
      /\ plan'.accepted = [plan.accepted EXCEPT ![leg] = TRUE]
      /\ plan'.commands = Append(plan.commands, Command(intent.legs[leg], a.actual))
      /\ a.actual = value => plan'.residuals = plan.residuals
  BY DEF Taken, FilledAlike
<1>3. plan.filled[leg] = 0
  <2>1. leg \in Int
    BY <1>1, LegsTyped
  <2>2. ~(leg < leg)
    BY <2>1
  <2> QED BY <1>1, <2>2 DEF IInv, Hedged
<1>4. Balanced'
  <2>1. ASSUME NEW k \in DOMAIN intent.legs
        PROVE  Net'[k] = IF k = leg THEN Net[k] + a.actual ELSE Net[k]
    <3>1. /\ Net'[k] = plan'.filled[k] + plan.compensation[k]
          /\ Net[k] = plan.filled[k] + plan.compensation[k]
      BY <1>2 DEF Net
    <3>2. plan'.filled[k] = IF k = leg THEN a.actual ELSE plan.filled[k]
      BY <1>1, <1>2
    <3> QED BY <1>1, <1>2, <1>3, <3>1, <3>2
  <2>2. Balanced
    BY <1>1 DEF Booked
  <2>3. pc \in {"plan", "unwind"}
    BY <1>1
  <2>4. UNCHANGED <<positions, intent>>
    OBVIOUS
  <2> QED BY <1>1, <1>2, <2>1, <2>2, <2>3, <2>4, TradeBalances
<1>5. AnyAccepted' /\ plan'.commands # << >>
  <2>1. leg \in DOMAIN plan'.accepted /\ plan'.accepted[leg]
    BY <1>1, <1>2
  <2>2. plan'.commands # << >>
    <3>1. plan.commands \in Seq(PlanCommand)
      BY <1>1
    <3>2. plan'.commands = Append(plan.commands, Command(intent.legs[leg], a.actual))
      BY <1>2
    <3> QED BY <3>1, <3>2, AppendNotEmpty, Zenon
  <2> QED BY <2>1, <2>2 DEF AnyAccepted
<1>6. ASSUME intent.policy = "atomic" PROVE Exact'
  <2>1. Exact /\ a.actual = value
    BY <1>1, <1>6 DEF Booked
  <2> QED BY <1>1, <1>2, <2>1 DEF Exact
<1> QED BY <1>1, <1>4, <1>5, <1>6 DEF Booked

\* A leg that is passed over leaves the books as they are.
LEMMA PassedBooked ==
  ASSUME IInv, Booked, Planning, intent.policy # "atomic",
         UNCHANGED <<plan.units, plan.filled, plan.compensation,
                     plan.accepted, plan.commands>>,
         UNCHANGED <<pc, bar, positions, intent>>
  PROVE  Booked'
<1>1. pc = "plan"
  BY DEF Planning
<1>2. Balanced'
  BY <1>1 DEF Booked, Balanced, OnSymbol, Net
<1>3. AnyAccepted' <=> AnyAccepted
  BY DEF AnyAccepted
<1> QED BY <1>1, <1>2, <1>3 DEF Booked

LEMMA PlanAtomicLegBooked ==
  ASSUME IInv, Booked, PlanAtomicLeg
  PROVE  Booked'
<1> DEFINE l == intent.legs[leg]
           value == Resolved(l, plan)
           a == Attempt(l, value, l.fraction, plan.units, plan.equity)
<1>1. /\ Planning
      /\ UNCHANGED <<bar, positions, intent>>
      /\ \/ Refused
         \/ /\ Resolvable(l, leg)
            /\ a.reason = "accepted"
            /\ a.actual = value
            /\ plan' = Accepted(plan, leg, value, a)
            /\ UNCHANGED pc
  BY DEF PlanAtomicLeg
<1>2. CASE Refused
  BY <1>1, <1>2, RefusedBooked
<1>3. CASE /\ Resolvable(l, leg)
           /\ a.reason = "accepted"
           /\ a.actual = value
           /\ plan' = Accepted(plan, leg, value, a)
           /\ UNCHANGED pc
  <2>1. Taken(l, value, a)
    BY <1>1, <1>3, LegTaken
  <2>2. UNCHANGED <<pc, bar, positions, intent>>
    BY <1>1, <1>3
  <2>3. a.actual = value /\ Planning
    BY <1>1, <1>3
  <2> HIDE DEF a, value
  <2> QED BY <2>1, <2>2, <2>3, TakenBooked
<1> QED BY <1>1, <1>2, <1>3

LEMMA PlanLegBooked ==
  ASSUME IInv, Booked, PlanLeg
  PROVE  Booked'
<1> DEFINE l == intent.legs[leg]
           value == Resolved(l, plan)
           a == Attempt(l, value, l.fraction, plan.units, plan.equity)
           r1 == plan.residuals \cup
                   {Residual(leg, Quantized(l.signed_qty, 1, l.step), "rejected")}
           r2 == plan.residuals \cup {Residual(leg, value, "rejected")}
<1>1. /\ Planning /\ intent.policy # "atomic"
      /\ UNCHANGED <<pc, bar, positions, intent>>
      /\ \/ plan' = [plan EXCEPT !.residuals = r1]
         \/ plan' = [plan EXCEPT !.requested[leg] = value, !.residuals = r2]
         \/ /\ Resolvable(l, leg)
            /\ a.reason = "accepted"
            /\ plan' = Accepted(plan, leg, value, a)
  BY DEF PlanLeg
<1>2. Shape
  BY DEF IInv
<1>3. CASE plan' = [plan EXCEPT !.residuals = r1]
  <2> HIDE DEF r1
  <2>1. UNCHANGED <<plan.units, plan.filled, plan.compensation, plan.accepted,
                    plan.commands>>
    BY <1>2, <1>3 DEF Shape
  <2> QED BY <1>1, <2>1, PassedBooked
<1>4. CASE plan' = [plan EXCEPT !.requested[leg] = value, !.residuals = r2]
  <2> HIDE DEF value, r2
  <2>1. UNCHANGED <<plan.units, plan.filled, plan.compensation, plan.accepted,
                    plan.commands>>
    BY <1>2, <1>4 DEF Shape
  <2> QED BY <1>1, <2>1, PassedBooked
<1>5. CASE /\ Resolvable(l, leg)
           /\ a.reason = "accepted"
           /\ plan' = Accepted(plan, leg, value, a)
  <2>1. Taken(l, value, a)
    BY <1>1, <1>5, LegTaken
  <2> HIDE DEF a, value
  <2> QED BY <1>1, <2>1, TakenBooked
<1> QED BY <1>1, <1>3, <1>4, <1>5

\* The package ends with all its books show.
LEMMA FinishPlanBooked ==
  ASSUME IInv, Booked, FinishPlan
  PROVE  Booked'
<1>1. /\ pc = "plan"
      /\ UNCHANGED <<bar, positions, intent, plan>>
      /\ \/ ~AnyAccepted /\ outcome' = Aborted /\ pc' = "step"
         \/ /\ AnyAccepted /\ plan.residuals = {} /\ pc' = "step"
            /\ outcome' = [final |-> "completed_hedged", outstanding |-> 0]
         \/ /\ AnyAccepted /\ plan.residuals # {} /\ pc' = "step"
            /\ outcome' = [final |-> "completed_with_residual",
                           outstanding |-> Outstanding]
         \/ AnyAccepted /\ plan.residuals # {} /\ pc' = "unwind"
  BY DEF FinishPlan, Planned
<1>2. /\ bar \in Nat /\ bar + 1 < Len(Market)
      /\ plan.commands # << >> <=> AnyAccepted
      /\ Balanced
      /\ intent.policy = "atomic" => Exact
  BY <1>1 DEF Booked
<1>3. Moved(positions) <= Outstanding
  BY <1>1, OutstandingCovers DEF IInv
<1>4. UNCHANGED <<Balanced, AnyAccepted, Moved(positions)>>
  BY <1>1 DEF Balanced, AnyAccepted, Moved, OnSymbol, Net, Quotes
<1>5. ASSUME AnyAccepted, pc' = "step", outcome' # Aborted,
             plan.residuals # {} => outcome'.outstanding = Outstanding
      PROVE  Final(positions)'
  <2>1. ASSUME intent.policy = "atomic", NEW s \in Symbols
        PROVE  plan.units[s] = positions[s] + OnSymbol(s, plan.requested)
    <3>1. plan.units[s] = positions[s] + OnSymbol(s, Net) /\ Exact
      BY <1>2, <2>1 DEF Balanced
    <3>2. OnSymbol(s, Net) = OnSymbol(s, plan.requested)
      <4>1. /\ plan.requested \in [DOMAIN intent.legs -> Int]
            /\ plan.filled \in [DOMAIN intent.legs -> Int]
            /\ Net \in [DOMAIN intent.legs -> Int]
        BY <1>1, NetTyped DEF IInv, TypeOK
      <4>2. Net = plan.requested
        <5>1. \A k \in DOMAIN intent.legs : Net[k] = plan.requested[k]
          BY <3>1, <4>1 DEF Exact, Net
        <5> QED BY <4>1, <5>1
      <4> QED BY <4>2
    <3> QED BY <3>1, <3>2
  <2>2. \A s : OnSymbol(s, plan.requested)' = OnSymbol(s, plan.requested)
    BY <1>1 DEF OnSymbol
  <2>3. intent'.policy = "atomic" =>
          \A s \in Symbols : plan'.units[s] = positions'[s] + OnSymbol(s, plan.requested)'
    BY <1>1, <2>1, <2>2
  <2>4. plan'.residuals # {} => Moved(positions)' <= outcome'.outstanding
    BY <1>1, <1>3, <1>4, <1>5
  <2> QED BY <1>1, <1>2, <1>5, <2>3, <2>4 DEF Final
<1>6. CASE ~AnyAccepted /\ outcome' = Aborted /\ pc' = "step"
  BY <1>1, <1>2, <1>6 DEF Booked
<1>7. CASE /\ AnyAccepted /\ pc' = "step"
           /\ \/ /\ plan.residuals = {}
                 /\ outcome' = [final |-> "completed_hedged", outstanding |-> 0]
              \/ outcome' = [final |-> "completed_with_residual",
                             outstanding |-> Outstanding]
  <2>1. /\ outcome' # Aborted
        /\ plan.residuals # {} => outcome'.outstanding = Outstanding
    BY <1>7, AbortedApart
  <2>2. Final(positions)'
    BY <1>5, <1>7, <2>1
  <2> QED BY <1>1, <1>2, <1>7, <2>1, <2>2 DEF Booked
<1>8. CASE AnyAccepted /\ plan.residuals # {} /\ pc' = "unwind"
  <2>1. intent.policy # "atomic"
    BY <1>2, <1>8 DEF Exact
  <2> QED BY <1>1, <1>2, <1>4, <1>8, <2>1 DEF Booked
<1> QED BY <1>1, <1>6, <1>7, <1>8

\* An unwinding order enters the books.
LEMMA UnwindLegBooked ==
  ASSUME IInv, Booked, UnwindLeg
  PROVE  Booked'
<1> DEFINE l == intent.legs[leg]
           a == Attempt(l, -plan.filled[leg], 2, plan.units, plan.equity)
           r == plan.residuals \cup {Residual(leg, a.actual, "unwound")}
<1>1. /\ pc = "unwind" /\ leg \in DOMAIN intent.legs
      /\ UNCHANGED <<pc, bar, positions, intent, outcome>>
      /\ \/ UNCHANGED plan
         \/ /\ a.reason = "accepted"
            /\ plan' = UnwoundPlan(a, r)
  BY DEF UnwindLeg, UnwoundPlan, Traded
<1>2. /\ bar \in Nat /\ bar + 1 < Len(Market)
      /\ plan.commands # << >> /\ AnyAccepted /\ Balanced
      /\ intent.policy # "atomic"
  BY <1>1 DEF Booked
<1>3. CASE UNCHANGED plan
  <2>1. Balanced' /\ AnyAccepted'
    BY <1>1, <1>2, <1>3 DEF Balanced, AnyAccepted, OnSymbol, Net
  <2> QED BY <1>1, <1>2, <1>3, <2>1 DEF Booked
<1>4. CASE a.reason = "accepted" /\ plan' = UnwoundPlan(a, r)
  <2>1. Unwound(l, a)
    BY <1>1, <1>4, LegUnwound
  <2> HIDE DEF a
  <2>2. /\ a.actual \in Int
        /\ plan'.units = [plan.units EXCEPT ![l.symbol] = @ + a.actual]
        /\ plan'.filled = plan.filled
        /\ plan'.accepted = plan.accepted
        /\ plan'.compensation = [plan.compensation EXCEPT ![leg] = @ + a.actual]
        /\ plan'.commands = Append(plan.commands, Command(l, a.actual))
    BY <2>1 DEF Unwound, FilledAlike
  <2>3. /\ TypeOK
        /\ plan.filled \in [DOMAIN intent.legs -> Int]
        /\ plan.compensation \in [DOMAIN intent.legs -> Int]
        /\ plan.commands \in Seq(PlanCommand)
    BY <1>1 DEF IInv, TypeOK, PlanCommand
  <2>4. ASSUME NEW k \in DOMAIN intent.legs
        PROVE  Net'[k] = IF k = leg THEN Net[k] + a.actual ELSE Net[k]
    <3>1. /\ Net'[k] = plan.filled[k] + plan'.compensation[k]
          /\ Net[k] = plan.filled[k] + plan.compensation[k]
      BY <1>1, <2>2 DEF Net
    <3>2. plan'.compensation[k] = IF k = leg THEN plan.compensation[k] + a.actual
                                  ELSE plan.compensation[k]
      BY <1>1, <2>2, <2>3
    <3> QED BY <2>2, <2>3, <3>1, <3>2
  <2>5. Balanced'
    <3>1. pc \in {"plan", "unwind"} /\ UNCHANGED <<positions, intent>>
      BY <1>1
    <3> QED BY <1>1, <1>2, <2>2, <2>3, <2>4, <3>1, TradeBalances
  <2>6. AnyAccepted' /\ plan'.commands # << >>
    BY <1>2, <2>2, <2>3, AppendNotEmpty DEF AnyAccepted
  <2> QED BY <1>1, <1>2, <2>5, <2>6 DEF Booked
<1> QED BY <1>1, <1>3, <1>4

LEMMA FinishUnwindBooked ==
  ASSUME IInv, Booked, FinishUnwind
  PROVE  Booked'
<1>1. /\ pc = "unwind" /\ pc' = "step"
      /\ outcome' = [final |-> IF Outstanding <= Tolerance THEN "completed_hedged"
                               ELSE "completed_with_residual",
                     outstanding |-> Outstanding]
      /\ UNCHANGED <<bar, positions, intent, plan>>
  BY DEF FinishUnwind
<1>2. /\ bar \in Nat /\ plan.commands # << >> /\ intent.policy # "atomic"
  BY <1>1 DEF Booked
<1>3. Moved(positions) <= Outstanding
  BY <1>1, OutstandingCovers DEF IInv
<1>4. Moved(positions)' = Moved(positions)
  BY <1>1 DEF Moved, Quotes
<1>5. outcome'.outstanding = Outstanding /\ outcome' # Aborted
  BY <1>1, AbortedApart
<1>6. Final(positions)'
  BY <1>1, <1>2, <1>3, <1>4, <1>5 DEF Final
<1> QED BY <1>1, <1>2, <1>5, <1>6 DEF Booked

LEMMA StepOpensBooked ==
  ASSUME Booked, StepOpens
  PROVE  Booked'
<1>1. /\ pc = "step" /\ pc' = "match" /\ before' = positions
      /\ UNCHANGED <<bar, positions, intent, plan, outcome>>
  BY DEF StepOpens
<1>2. Final(positions) => Final(before)'
  <2>1. Moved(before)' = Moved(positions)
    BY <1>1 DEF Moved, Quotes
  <2>2. \A s : OnSymbol(s, plan.requested)' = OnSymbol(s, plan.requested)
    BY <1>1 DEF OnSymbol
  <2> QED BY <1>1, <2>1, <2>2 DEF Final
<1> QED BY <1>1, <1>2 DEF Booked, Unplanned

LEMMA MatchOrderBooked ==
  ASSUME IInv, Booked, MatchOrder
  PROVE  Booked'
<1>1. /\ pc = "match" /\ pc' = "match" /\ cursor \in DOMAIN plan.commands
      /\ UNCHANGED <<bar, intent, plan, outcome, before>>
  BY DEF MatchOrder
<1>2. plan.commands # << >>
  BY <1>1 DEF IInv, TypeOK
<1>3. Final(before) => Final(before)'
  <2>1. Moved(before)' = Moved(before)
    BY <1>1 DEF Moved, Quotes
  <2>2. \A s : OnSymbol(s, plan.requested)' = OnSymbol(s, plan.requested)
    BY <1>1 DEF OnSymbol
  <2> QED BY <1>1, <2>1, <2>2 DEF Final
<1> QED BY <1>1, <1>2, <1>3 DEF Booked, Unplanned

LEMMA BookedNext ==
  ASSUME IInv, Booked, [Next]_vars
  PROVE  Booked'
<1>1. CASE NoPackage
  BY <1>1 DEF NoPackage, Booked, Unplanned
<1>2. ASSUME NEW i \in Intents, AbortPackage(i) \/ RefusePackage(i)
      PROVE  Booked'
  BY <1>2, RefusedBooked DEF AbortPackage, RefusePackage
<1>3. ASSUME NEW i \in Intents, FailRun(i)
      PROVE  Booked'
  BY <1>3 DEF FailRun, Booked
<1>4. ASSUME NEW i \in Intents, StartPlan(i)
      PROVE  Booked'
  BY <1>4, StartPlanBooked
<1>5. CASE PlanAtomicLeg
  BY <1>5, PlanAtomicLegBooked
<1>6. CASE PlanLeg
  BY <1>6, PlanLegBooked
<1>7. CASE FinishPlan
  BY <1>7, FinishPlanBooked
<1>8. CASE UnwindLeg
  BY <1>8, UnwindLegBooked
<1>9. CASE FinishUnwind
  BY <1>9, FinishUnwindBooked
<1>10. CASE StepLiquidated \/ StepLiquidates
  BY <1>10 DEF StepLiquidated, StepLiquidates, Booked
<1>11. CASE StepOpens
  BY <1>11, StepOpensBooked
<1>12. CASE MatchOrder
  BY <1>12, MatchOrderBooked
<1>13. CASE CloseBar
  BY <1>13 DEF CloseBar, NextBar, Booked, Unplanned
<1>14. CASE UNCHANGED vars
  <2>1. UNCHANGED <<Balanced, AnyAccepted, Exact, Final(positions), Final(before),
                    Unplanned>>
    BY <1>14 DEF vars, Balanced, AnyAccepted, Exact, Final, Moved, OnSymbol, Net,
       Quotes, Unplanned
  <2> QED BY <1>14, <2>1 DEF vars, Booked
<1> QED
  BY <1>1, <1>2, <1>3, <1>4, <1>5, <1>6, <1>7, <1>8, <1>9, <1>10, <1>11,
     <1>12, <1>13, <1>14 DEF Next

LEMMA BookedAlways == Spec => []Booked
<1>1. Init => Booked
  BY InitBooked
<1>2. IInv /\ Booked /\ [Next]_vars => Booked'
  BY BookedNext
<1> QED BY <1>1, <1>2, Inductive, PTL DEF Spec

-----------------------------------------------------------------------------
(* The theorems *)

\* Types of the planner and the session, for any market, tape and account.
THEOREM TypeCorrect == Spec => []TypeOK
<1>1. IInv => TypeOK
  BY DEF IInv
<1> QED BY <1>1, Inductive, PTL

\* What the planner has previewed is what the session commits, order by order:
\* the two copies of the account's arithmetic (project_pre_command_account_v1
\* and attempt_leg against step_with_buffers) agree, whatever the prices, the
\* rates and the packages, and the two margin checks part by Tolerance at most,
\* whatever Tolerance is.
THEOREM PreviewCommits == Spec => []PreviewIsCommitted
<1>1. IInv => PreviewIsCommitted
  <2> SUFFICES ASSUME IInv
               PROVE  PreviewIsCommitted
    OBVIOUS
  <2>1. /\ pc = "closed" => plan.commands = << >>
        /\ refusal \in {"none", "tolerable"} /\ (refusal = "none" => rejected = 0)
        /\ pc = "match" /\ plan.commands # << >> => OnPath
        /\ pc = "match" /\ plan.commands # << >> /\ refusal = "none" =>
             positions = path[cursor].units /\ equity = path[cursor].equity
    BY DEF IInv, Foretold
  <2>2. ASSUME Settled, plan.commands # << >>, refusal = "none"
        PROVE  positions = plan.units /\ equity = plan.equity
    <3> DEFINE n == Len(plan.commands)
    <3>1. /\ OnPath
          /\ path[cursor].units = positions /\ path[cursor].equity = equity
      BY <2>1, <2>2 DEF Settled
    <3>2. /\ plan.commands \in Seq(PlanCommand)
          /\ cursor \in 1..(n + 1) /\ cursor \notin DOMAIN plan.commands
      BY <2>2 DEF IInv, TypeOK, Settled, PlanCommand
    <3>3. cursor = n + 1
      BY <3>2
    <3>4. path[cursor] = Point(plan.units, plan.equity)
      BY <3>1, <3>3 DEF OnPath
    <3> QED BY <3>1, <3>4, PointFields
  <2> QED BY <2>1, <2>2 DEF PreviewIsCommitted
<1> QED BY <1>1, Inductive, PTL

\* No hedge runs ahead of its primary or beyond its ratio of what the primary
\* has filled (resolve_requested, the primary's rejection in the planner).
THEOREM HedgeBounded == Spec => []HedgeWithinPrimary
<1>1. IInv => HedgeWithinPrimary
  BY DEF IInv, TypeOK, Hedged, HedgeWithinPrimary
<1> QED BY <1>1, Inductive, PTL

\* A bar's orders have been matched, and the account is where its plan is, if
\* none of them was passed by the planner's tolerance only.
LEMMA SettledBooks ==
  ASSUME IInv, Booked, PreviewIsCommitted, Settled
  PROVE  \/ Unplanned
         \/ outcome = Aborted /\ positions = before
         \/ /\ outcome # Aborted /\ Final(before)
            /\ NoneTolerated => positions = plan.units
<1>1. pc = "match"
  BY DEF Settled
<1>2. NoneTolerated => refusal = "none"
  BY DEF PreviewIsCommitted, NoneTolerated
<1> QED BY <1>1, <1>2 DEF Booked, PreviewIsCommitted, Final

\* An atomic package is all in the session's account or not at all, for legs
\* of any number and size on any symbols, unless an order was passed by the
\* planner's tolerance only (execute_package_market_v2 under the atomic policy,
\* and the session's matching of its commands).
THEOREM AtomicIsAllOrNothing == Spec => []AtomicAllOrNothing
<1>1. IInv /\ Booked /\ PreviewIsCommitted => AtomicAllOrNothing
  <2> SUFFICES ASSUME IInv, Booked, PreviewIsCommitted, Settled,
                      intent.policy = "atomic"
               PROVE  IF outcome = Aborted THEN positions = before
                      ELSE NoneTolerated =>
                             \A s \in Symbols :
                               positions[s] = before[s] + OnSymbol(s, plan.requested)
    BY DEF AtomicAllOrNothing, AllLegsTraded, OnSymbol
  <2>1. ~Unplanned
    BY DEF Unplanned, NoIntent
  <2> QED BY <2>1, SettledBooks DEF Final
<1> QED BY <1>1, Inductive, BookedAlways, PreviewCommits, PTL

\* The exposure a package reports as outstanding covers every position it has
\* moved, unless an order was passed by the planner's tolerance only: the legs
\* are summed gross (outstanding_gross_notional), and netting them by symbol
\* cannot make the positions larger than that sum.
THEOREM OutstandingCoversAll == Spec => []OutstandingCoversExposure
<1>1. IInv /\ Booked /\ PreviewIsCommitted => OutstandingCoversExposure
  <2> SUFFICES ASSUME IInv, Booked, PreviewIsCommitted, Settled,
                      plan.residuals # {}, outcome # Aborted, NoneTolerated
               PROVE  SumOver([s \in Symbols |->
                        Magnitude(positions[s] - before[s]) * Quotes[s].close])
                        <= outcome.outstanding
    BY DEF OutstandingCoversExposure
  <2>1. ~Unplanned
    BY DEF Unplanned, EmptyPlan
  <2>2. Moved(before) <= outcome.outstanding /\ positions = plan.units
    BY <2>1, SettledBooks DEF Final
  <2> QED BY <2>2 DEF Moved
<1> QED BY <1>1, Inductive, BookedAlways, PreviewCommits, PTL
=============================================================================
