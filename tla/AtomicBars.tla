----------------------------- MODULE AtomicBars -----------------------------
(***************************************************************************)
(* What a feedback session promises its caller: a history of bars, each    *)
(* made of one complete execution, that only a commit extends.  An attempt *)
(* at the open bar replaces the attempt before it; a failed attempt and an *)
(* abort leave nothing behind.                                             *)
(***************************************************************************)
EXTENDS Naturals, Sequences

CONSTANTS NoAttempt, FundingBars

VARIABLES
  history,   \* one sequence of account effects for each committed bar
  open,      \* a bar is open
  attempt    \* the effects of the last attempt at it, or NoAttempt

avars == <<history, open, attempt>>

Flat(kind, bar) == [kind |-> kind, bar |-> bar, order |-> 0]

Liquidates(effects) == effects # << >> /\ effects[Len(effects)].kind = "liquidate"

Ended == \E i \in DOMAIN history : Liquidates(history[i])

\* One complete execution of a bar: it is marked once, funded at most once and
\* where funding is due, fills no order twice, and a liquidation ends it.
CompleteBar(effects, bar) ==
  /\ \A i \in DOMAIN effects :
       /\ effects[i].bar = bar
       /\ effects[i].kind \in {"mark", "funding", "fill", "liquidate"}
       /\ effects[i].kind = "mark" <=> i = 1 /\ bar > 0
       /\ effects[i].kind = "funding" => i \in {1, 2} /\ bar \in FundingBars
       /\ effects[i].kind = "liquidate" => i = Len(effects)
  /\ bar > 0 => effects # << >>
  /\ bar \in FundingBars /\ ~Liquidates(effects) =>
       \E i \in DOMAIN effects : effects[i].kind = "funding"
  /\ \A i, j \in DOMAIN effects :
       effects[i].kind = "fill" /\ effects[i] = effects[j] => i = j

AInit == history = << >> /\ open = FALSE /\ attempt = NoAttempt

Open == ~open /\ open' = TRUE /\ UNCHANGED <<history, attempt>>

Attempt ==
  /\ open
  /\ attempt' # NoAttempt
  /\ IF Ended THEN attempt' = << >> ELSE CompleteBar(attempt', Len(history))
  /\ UNCHANGED <<history, open>>

Fail == open /\ attempt' = NoAttempt /\ UNCHANGED <<history, open>>

Commit ==
  /\ open
  /\ attempt # NoAttempt
  /\ history' = Append(history, attempt)
  /\ open' = FALSE
  /\ attempt' = NoAttempt

Abort == open /\ open' = FALSE /\ attempt' = NoAttempt /\ UNCHANGED history

Reset == history' = << >> /\ open' = FALSE /\ attempt' = NoAttempt

ANext == Open \/ Attempt \/ Fail \/ Commit \/ Abort \/ Reset

ASpec == AInit /\ [][ANext]_avars
=============================================================================
