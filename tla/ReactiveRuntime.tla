--------------------------- MODULE ReactiveRuntime ---------------------------
(***************************************************************************)
(* A reactive walk-forward runtime (backends/reactive_wfo.py) scoring the  *)
(* markers of one backtest, over a forked worker ("process") or over       *)
(* ReactiveScalarSessionPoolV1 ("inprocess"), while another thread may     *)
(* call cancel().  In the mode "direct" there is no runtime: a caller      *)
(* drives the worker itself, as the tests do, and may go on after an       *)
(* interrupted call.                                                       *)
(*                                                                         *)
(* A key stands for the requirements a strategy resolves to; a session of  *)
(* the pool is known by its key.                                           *)
(***************************************************************************)
EXTENDS ScoreWorker

CONSTANTS Keys, NoKey

ASSUME KeyAssumption == NoKey \notin Keys /\ Keys # {}

VARIABLES
  mode,      \* worker_mode, or "direct"
  rpc,       \* where score_markers is
  rows,      \* rows score_markers has collected
  late,      \* rows collected since cancel() set its flag
  session,   \* the pool's sessions, by key
  key,       \* the key of the score under way
  active,    \* _active_runner
  flag,      \* the native cancellation flag of each runner
  signal     \* where cancel() is: "none", "set", or the runner it will signal

poolVars == <<session, key, active, flag>>
runtimeVars == <<mode, rpc, rows, late>>
vars == <<parent, child, request, response, canceled, threaded, outcomes,
          mode, rpc, rows, late, session, key, active, flag, signal>>

Init ==
  /\ WorkerInit
  /\ canceled = FALSE
  /\ threaded = FALSE
  /\ mode \in {"direct", "process", "inprocess"}
  /\ rpc = IF mode = "direct" THEN "direct" ELSE "ready"
  /\ rows = 0
  /\ late = 0
  /\ session = [k \in Keys |-> "none"]
  /\ key = NoKey
  /\ active = NoKey
  /\ flag = [k \in Keys |-> FALSE]
  /\ signal = "none"

-----------------------------------------------------------------------------
(* score_markers *)

RunsAt(from, to) == rpc = from /\ rpc' = to
Collects == rows' = rows + 1 /\ late' = late + IF canceled THEN 1 ELSE 0

\* Fault: the cancellation is looked at once, before the first marker.
NextMarkerUnchecked ==
  /\ rows < MaxScores
  /\ RunsAt("ready", IF canceled /\ rows = 0 THEN "closing" ELSE "dispatch")
  /\ UNCHANGED <<workerVars, canceled, threaded, mode, rows, late, poolVars, signal>>

\* _check_canceled before every marker.
NextMarker ==
  /\ rows < MaxScores
  /\ RunsAt("ready", IF canceled THEN "closing" ELSE "dispatch")
  /\ UNCHANGED <<workerVars, canceled, threaded, mode, rows, late, poolVars, signal>>

LastMarker ==
  /\ rows = MaxScores
  /\ RunsAt("ready", "closing")
  /\ UNCHANGED <<workerVars, canceled, threaded, mode, rows, late, poolVars, signal>>

\* A marker handed to the worker, and what comes of it.  A runtime whose process
\* has got another thread refuses, even when a child is there to take the marker;
\* where there is no other thread none appears between this look and the worker's.
Dispatch ==
  /\ mode = "process"
  /\ \/ threaded /\ RunsAt("dispatch", "closing") /\ UNCHANGED workerVars
     \/ ~threaded /\ RunsAt("dispatch", "scoring") /\ Score
  /\ UNCHANGED <<canceled, threaded, mode, rows, late, poolVars, signal>>

Adopt ==
  /\ rpc = "scoring"
  /\ At("idle")
  /\ IF outcomes[Len(outcomes)].kind = "row"
       THEN Collects /\ rpc' = "ready"
       ELSE UNCHANGED <<rows, late>> /\ rpc' = "closing"
  /\ UNCHANGED <<workerVars, canceled, threaded, mode, poolVars, signal>>

\* Fault: only a completed backtest shuts the worker down.
ShutdownOnSuccess ==
  /\ RunsAt("closing", "ended")
  /\ IF mode = "process" /\ rows = MaxScores THEN Close ELSE UNCHANGED workerVars
  /\ session' = [k \in Keys |-> "none"]
  /\ UNCHANGED <<canceled, threaded, mode, rows, late, key, active, flag, signal>>

\* The finally clause of a backtest.
Shutdown ==
  /\ RunsAt("closing", "ended")
  /\ IF mode = "process" THEN Close ELSE UNCHANGED workerVars
  /\ session' = [k \in Keys |-> "none"]
  /\ UNCHANGED <<canceled, threaded, mode, rows, late, key, active, flag, signal>>

-----------------------------------------------------------------------------
(* ReactiveScalarSessionPoolV1 in the process of the runtime *)

PoolStep(from, to) ==
  /\ mode = "inprocess"
  /\ RunsAt(from, to)
  /\ UNCHANGED <<workerVars, canceled, threaded, mode, signal>>

\* The strategy is built and its session found or prepared.
Open(k) ==
  /\ PoolStep("dispatch", "opened")
  /\ key' = k
  /\ session' = [session EXCEPT ![k] = IF @ = "none" THEN "clean" ELSE @]
  /\ UNCHANGED <<rows, late, active, flag>>

\* Building the strategy or preparing its session raises.
OpenFails == PoolStep("dispatch", "closing") /\ UNCHANGED <<rows, late, poolVars>>

\* The runner is published to cancel_active.
Publish ==
  /\ PoolStep("opened", "published")
  /\ active' = key
  /\ UNCHANGED <<rows, late, session, key, flag>>

\* runner.reset(): it also takes back a cancellation that has already arrived.
Reset ==
  /\ PoolStep("published", "running")
  /\ session' = [session EXCEPT ![key] = "clean"]
  /\ flag' = [flag EXCEPT ![key] = FALSE]
  /\ UNCHANGED <<rows, late, key, active>>

\* The window ends: the runner looks at its flag before it publishes anything.
RunEnds ==
  /\ PoolStep("running", "finished")
  /\ ~flag[key]
  /\ session' = [session EXCEPT ![key] = "used"]
  /\ UNCHANGED <<rows, late, key, active, flag>>

\* Fault: a runner that a callback has poisoned stays in the pool.
RunFailsKeeps ==
  /\ PoolStep("running", "closing")
  /\ session' = [session EXCEPT ![key] = "poisoned"]
  /\ active' = NoKey
  /\ UNCHANGED <<rows, late, key, flag>>

\* The run raises: canceled, past its deadline, or by a callback, which poisons
\* the runner, and a poisoned runner is dropped from the pool.
RunFails ==
  /\ PoolStep("running", "closing")
  /\ \/ /\ flag[key] \/ HasDeadline
        /\ session' = [session EXCEPT ![key] = "used"]
     \/ session' = [session EXCEPT ![key] = "none"]
  /\ active' = NoKey
  /\ UNCHANGED <<rows, late, key, flag>>

Deliver ==
  /\ PoolStep("finished", "ready")
  /\ Collects
  /\ active' = NoKey
  /\ UNCHANGED <<session, key, flag>>

-----------------------------------------------------------------------------
(* The rest of the world *)

\* cancel(): the flag of the runtime first.
Cancel ==
  /\ signal = "none"
  /\ canceled' = TRUE
  /\ signal' = "set"
  /\ UNCHANGED <<workerVars, threaded, runtimeVars, poolVars>>

\* cancel_active: the active runner is read, and then signalled.
CancelReads ==
  /\ signal = "set"
  /\ signal' = IF active = NoKey THEN "none" ELSE active
  /\ UNCHANGED <<workerVars, canceled, threaded, runtimeVars, poolVars>>

CancelSignals ==
  /\ signal \in Keys
  /\ signal' = "none"
  /\ flag' = [flag EXCEPT ![signal] = TRUE]
  /\ UNCHANGED <<workerVars, canceled, threaded, runtimeVars, session, key, active>>

\* The process gets a second thread.
Thread ==
  /\ ~threaded
  /\ threaded' = TRUE
  /\ UNCHANGED <<workerVars, canceled, runtimeVars, poolVars, signal>>

\* The caller of a worker without a runtime.
DirectScore == mode = "direct" /\ Score /\ UNCHANGED <<canceled, threaded, runtimeVars, poolVars, signal>>
DirectClose == mode = "direct" /\ Close /\ UNCHANGED <<canceled, threaded, runtimeVars, poolVars, signal>>

Worker(A) == A /\ UNCHANGED <<canceled, threaded, runtimeVars, poolVars, signal>>

Markers == NextMarker \/ LastMarker \/ Dispatch \/ Adopt \/ Shutdown
Pool == Publish \/ Reset \/ RunEnds \/ Deliver \/ \E k \in Keys : Open(k)

Next ==
  \/ Worker(Check) \/ Worker(Send) \/ Worker(Wait) \/ Worker(Poll)
  \/ Worker(LookAlive) \/ Worker(Receive) \/ Worker(Interrupt)
  \/ \E g \in Generations :
       \/ Worker(ChildReceives(g)) \/ Worker(ChildScores(g)) \/ Worker(ChildFails(g))
       \/ Worker(ChildTears(g)) \/ Worker(ChildExits(g)) \/ Worker(Terminated(g))
       \/ Worker(Crash(g))
  \/ Markers \/ Pool \/ OpenFails \/ RunFails
  \/ Cancel \/ CancelReads \/ CancelSignals \/ Thread
  \/ DirectScore \/ DirectClose

\* The parent and the runtime keep taking their steps, a child reads its pipe
\* and leaves when it is done, and a signal to terminate takes effect.  Nothing
\* is assumed of the strategy: neither ChildScores nor RunEnds is fair.
Fairness ==
  /\ WF_vars(Worker(ParentStep))
  /\ \A g \in Generations : WF_vars(Worker(ChildStep(g)))
  /\ WF_vars(Markers)
  /\ WF_vars(Publish \/ Reset \/ Deliver \/ OpenFails)

Spec == Init /\ [][Next]_vars /\ Fairness

-----------------------------------------------------------------------------
(* Properties *)

Message == [kind : {"score", "closed", "torn", "other", "budget"}, id : 0..MaxScores,
            generation : Generations]

\* Every variable keeps its type.
TypeOK ==
  /\ parent \in [pc : {"idle", "check", "send", "wait", "poll", "alive", "recv"},
                 id : 0..MaxScores, next : 1..(MaxScores + 1),
                 owned : 0..MaxScores, generation : 0..MaxScores, closed : BOOLEAN]
  /\ child \in [Generations -> [pc : {"none", "recv", "run", "exit", "dead"},
                                task : 0..MaxScores, failed : BOOLEAN, killed : BOOLEAN]]
  /\ \A g \in Generations : request[g] \in Seq([kind : {"score", "close"}, id : 0..MaxScores])
  /\ \A g \in Generations : response[g] \in Seq(Message)
  /\ mode \in {"direct", "process", "inprocess"}
  /\ rows \in 0..MaxScores /\ late \in 0..MaxScores
  /\ session \in [Keys -> {"none", "clean", "used"}]
  /\ active \in Keys \cup {NoKey} /\ signal \in {"none", "set"} \cup Keys

\* A row that score returns was computed for the request of that very call: no
\* answer to an interrupted, canceled or failed call is taken for it.
RowOfItsOwnRequest ==
  \A i \in 1..Len(outcomes) :
    outcomes[i].kind = "row" => outcomes[i].of = outcomes[i].id /\ outcomes[i].id > 0

\* A child whose task has failed runs no other task: what that task left in the
\* account or in the strategy is never seen by a later candidate.
FailedChildRunsNothing == \A g \in Generations : child[g].failed => child[g].pc # "run"

\* A child the parent no longer owns is dead or has been told to stop; so is
\* every child once the worker is closed or the backtest has ended.
NoStrayChild ==
  \A g \in Generations :
    Alive(g) => \/ child[g].killed
                \/ g = parent.owned /\ ~parent.closed /\ rpc # "ended"

\* After cancel() at most the score under way still delivers a row.
AtMostOneLateRow == late <= 1

\* A call waits only for the strategy: it ends unless its child goes on running
\* an answer nobody has canceled.
StrategyRuns == Alive(parent.owned) /\ child[parent.owned].pc = "run" /\ ~canceled
CallEnds == []<>(At("idle") \/ StrategyRuns)

\* The children of a closed worker and of an ended backtest are gone at last.
ChildrenGone == (parent.closed \/ rpc = "ended") ~> \A g \in Generations : ~Alive(g)

\* An error row that a child has sent is what the call reports, not that the
\* child has left without an answer (docs/native_runtime_governance.md:53).
TypedFailureDelivered ==
  \A i \in 1..Len(outcomes) :
    outcomes[i].kind = "exited" =>
      ~ \E g \in Generations : \E j \in 1..Len(response[g]) :
          response[g][j].kind \in Errors /\ response[g][j].id = outcomes[i].id
=============================================================================
