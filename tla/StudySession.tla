---------------------------- MODULE StudySession ----------------------------
(***************************************************************************)
(* The state of an ExactStudySession (optimization/continuation/           *)
(* session.py) and what each of its operations does to it: an Optuna study *)
(* driven by ask / report / should_prune / tell, the journal of everything *)
(* it was asked, and the replay that rebuilds the session from a journal.  *)
(* A session belongs to one thread, so an operation is a function of the   *)
(* session; StudyCheckpoint gives it processes, a file and a disk.         *)
(*                                                                         *)
(* Sampler and pruner are Optuna's: whatever they compute, they compute it *)
(* from the trials (seed included), so they are operators of the trials.   *)
(***************************************************************************)
EXTENDS Integers, SequencesExt

CONSTANTS
  Values,           \* objective and report values
  None,             \* no value
  Budget,           \* config.budget
  MaxEvents,        \* MAX_EVENTS
  MaxReports,       \* bound: reports per trial
  DuplicatePolicy,  \* config.duplicate_policy: "allow" or "prune"
  Patience, MinTrials, MinDelta,  \* config.early_stopping
  Suggest(_),       \* the sampler's next point, given the trials
  Pruned(_, _)      \* the pruner's answer for trial n, given the trials

ASSUME SessionAssumption ==
  /\ Values \subseteq Int /\ None \notin Values
  /\ {Budget, MaxEvents, MaxReports, Patience} \subseteq Nat \ {0}
  /\ {MinTrials, MinDelta} \subseteq Nat
  /\ DuplicatePolicy \in {"allow", "prune"}

NewSession ==
  [trials |-> <<>>, pending |-> {}, seen |-> {}, stopped |-> FALSE,
   early |-> [best |-> None, stale |-> 0, completed |-> 0],
   poisoned |-> FALSE, journal |-> <<>>]

(***************************************************************************)
(* _record: an event past the limit is refused, and since the study has    *)
(* already moved the session is unusable from then on.                     *)
(***************************************************************************)
RecordDropsEvent(s, e) ==  \* fault: past the limit the event is left out
  IF Len(s.journal) >= MaxEvents THEN s
  ELSE [s EXCEPT !.journal = Append(@, e)]

Record(s, e) ==
  IF Len(s.journal) >= MaxEvents THEN [s EXCEPT !.poisoned = TRUE]
  ELSE [s EXCEPT !.journal = Append(@, e)]

Usable(s) == ~s.poisoned                               \* _check
Owned(s, n) == Usable(s) /\ n \in s.pending            \* _trial

(***************************************************************************)
(* ask.  The study creates the trial, the bridge suggests its parameters,  *)
(* and only then is it pending and journaled: a suggestion that raises     *)
(* leaves a trial of the study the journal knows nothing of.               *)
(***************************************************************************)
NewTrial(p, dup) ==
  [param |-> p, duplicate |-> dup, state |-> "RUNNING", value |-> None,
   reports |-> <<>>]

MayAsk(s) == Usable(s) /\ ~s.stopped /\ Len(s.trials) < Budget

Ask(s) ==
  LET n   == Len(s.trials) + 1
      p   == Suggest(s.trials)
      dup == p \in s.seen
  IN Record([s EXCEPT !.trials = Append(@, NewTrial(p, dup)),
                      !.pending = @ \cup {n}, !.seen = @ \cup {p}],
            [op |-> "ask", number |-> n, effective |-> p, duplicate |-> dup])

AskFails(s) ==
  [s EXCEPT !.trials = Append(@, NewTrial(None, FALSE)), !.poisoned = TRUE]

(***************************************************************************)
(* report, should_prune: the study keeps the value, the pruner reads it.   *)
(***************************************************************************)
MayReport(s, n) == Owned(s, n) /\ Len(s.trials[n].reports) < MaxReports

Report(s, n, v) ==
  Record([s EXCEPT !.trials[n].reports = Append(@, v)],
         [op |-> "report", number |-> n, value |-> v])

ShouldPrune(s, n) ==
  Record(s, [op |-> "prune", number |-> n, answer |-> Pruned(s.trials, n)])

(***************************************************************************)
(* SingleObjectiveEarlyStopping: counts the complete trials since the best *)
(* value last moved by more than min_delta.                                *)
(***************************************************************************)
BestValue(trials) ==
  LET told == {trials[i].value : i \in {j \in DOMAIN trials :
                                          trials[j].state = "COMPLETE"}}
  IN CHOOSE v \in told : \A w \in told : w <= v

EarlyStopping(s) ==
  LET current   == BestValue(s.trials)
      improved  == s.early.best = None \/ current > s.early.best + MinDelta
      stale     == IF improved THEN 0 ELSE s.early.stale + 1
      completed == s.early.completed + 1
  IN [s EXCEPT !.early = [best      |-> IF improved THEN current ELSE @.best,
                          stale     |-> stale,
                          completed |-> completed],
               !.stopped = @ \/ (completed >= MinTrials /\ stale >= Patience)]

(***************************************************************************)
(* tell.  A duplicate may only be told PRUNED when the policy says prune.  *)
(***************************************************************************)
Outcomes ==
  [state : {"COMPLETE"}, value : Values] \cup
  [state : {"PRUNED", "FAIL"}, value : {None}]

MayTell(s, n, out) ==
  /\ Owned(s, n)
  /\ (s.trials[n].duplicate /\ DuplicatePolicy = "prune")
       => out.state = "PRUNED"

Tell(s, n, out) ==
  LET told  == [s EXCEPT !.trials[n].state = out.state,
                         !.trials[n].value = out.value,
                         !.pending = @ \ {n}]
      after == IF out.state = "COMPLETE" THEN EarlyStopping(told) ELSE told
  IN Record(after, [op |-> "tell", number |-> n, value |-> out.value,
                    state |-> out.state, stopped |-> after.stopped])

(* report, should_prune or tell raised inside Optuna: whatever was done    *)
(* is not journaled.                                                       *)
HalfDone(s) == [s EXCEPT !.poisoned = TRUE]

(***************************************************************************)
(* dumps / loads.  A checkpoint is the journal and a witness of the state  *)
(* it led to; loads runs the journal through a new session and refuses it  *)
(* unless every event comes out the same, nothing is pending and the state *)
(* is the witness: unless it is the session the checkpoint describes.      *)
(***************************************************************************)
Witness(s) == [trials |-> s.trials, seen |-> s.seen, stopped |-> s.stopped,
               early |-> s.early]

Savable(s) == Usable(s) /\ s.pending = {}
Dumps(s) == [events |-> s.journal, witness |-> Witness(s)]

Described(c) ==
  [NewSession EXCEPT !.trials = c.witness.trials, !.seen = c.witness.seen,
                     !.stopped = c.witness.stopped, !.early = c.witness.early,
                     !.journal = c.events]

Apply(s, e) ==
  CASE e.op = "ask" /\ MayAsk(s) -> Ask(s)
    [] e.op = "report" /\ MayReport(s, e.number) -> Report(s, e.number, e.value)
    [] e.op = "prune" /\ Owned(s, e.number) -> ShouldPrune(s, e.number)
    [] e.op = "tell" /\ MayTell(s, e.number, e) -> Tell(s, e.number, e)
    [] OTHER -> HalfDone(s)   \* the replayed operation raises

Replay(events) == FoldLeft(Apply, NewSession, events)

Loadable(c) == Replay(c.events) = Described(c)

-----------------------------------------------------------------------------
(* What a session is, poisoned ones included: only trials that run are     *)
(* pending, what has been seen is what trials were asked with, and the     *)
(* early stopping has counted every complete trial once.                   *)
IsSession(s) ==
  /\ DOMAIN s = DOMAIN NewSession
  /\ Len(s.trials) <= Budget
  /\ \A n \in DOMAIN s.trials :
       /\ s.trials[n].state \in {"RUNNING", "COMPLETE", "PRUNED", "FAIL"}
       /\ s.trials[n].value \in Values \cup {None}
       /\ s.trials[n].state = "COMPLETE" <=> s.trials[n].value # None
       /\ Len(s.trials[n].reports) <= MaxReports
  /\ s.pending \subseteq {n \in DOMAIN s.trials : s.trials[n].state = "RUNNING"}
  /\ s.seen \subseteq {s.trials[n].param : n \in DOMAIN s.trials}
  /\ s.early.best \in Values \cup {None}
  /\ s.early.completed
       = Cardinality({n \in DOMAIN s.trials : s.trials[n].state = "COMPLETE"})
  /\ s.early.stale \in 0..s.early.completed
  /\ {s.stopped, s.poisoned} \subseteq BOOLEAN
  /\ Len(s.journal) <= MaxEvents
=============================================================================
