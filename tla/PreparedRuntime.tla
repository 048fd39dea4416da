--------------------------- MODULE PreparedRuntime ---------------------------
(***************************************************************************)
(* The prepared evaluation runtime: Python threads that share one adapter  *)
(* (native_prepared_evaluation.py) around one native runtime with a pool   *)
(* of worker threads (prepared_evaluation.rs).                             *)
(*                                                                         *)
(* A Python thread may lose the interpreter lock between any two of its    *)
(* actions below; a native call up to the point where it detaches from the *)
(* interpreter is one action.  A call that is refused before it changes    *)
(* anything is no step.  Metrics, costs and budgets are left out.          *)
(***************************************************************************)
EXTENDS Naturals, SequencesExt

CONSTANTS
  Callers,    \* Python threads
  Workers,    \* threads of one native pool
  Ids,        \* (candidate_id, fold_id, scenario_id)
  MaxCalls,   \* bound: calls made in one run
  NoCaller, NoBinding

ASSUME RuntimeAssumption ==
  /\ IsFiniteSet(Workers) /\ Workers # {}
  /\ IsFiniteSet(Ids)
  /\ MaxCalls \in Nat
  /\ NoCaller \notin Callers

VARIABLES
  pc,         \* where each caller is; "idle" outside any call
  calls,      \* calls made so far
  batch,      \* the bindings a caller evaluates
  bindings,   \* every binding made so far
  lock, gil,  \* the adapter's lock; the interpreter, when a native call keeps it
  py,         \* the adapter: closed, active_batches, generation, canceled
  native,     \* the runtime: closed, active, generation, canceled, poisoned,
              \* sender (is the pool's channel open)
  queue,      \* the channel of the pool
  handles,    \* worker_handles: the workers a stop will join
  worker,     \* each worker's state, its task, and whether it has panicked
  responses,  \* the response channel of the batch
  received    \* the outcomes execute_batch has collected

pyVars     == <<py, lock, bindings>>
poolVars   == <<queue, handles, worker>>
vars == <<pc, calls, batch, bindings, lock, gil, py, native, queue, handles,
          worker, responses, received>>

Binding == [id : Ids, generation : Nat, native_generation : Nat]

Shutdown == [kind |-> "shutdown", binding |-> NoBinding]
Execute(b) == [kind |-> "execute", binding |-> b]

NewWorker == [state |-> "waiting", task |-> NoBinding, tainted |-> FALSE]

Init ==
  /\ pc = [c \in Callers |-> "idle"]
  /\ calls = 0
  /\ batch = [c \in Callers |-> {}]
  /\ bindings = {}
  /\ lock = NoCaller
  /\ gil = NoCaller
  /\ py = [closed |-> FALSE, active_batches |-> 0, generation |-> 1,
           canceled |-> FALSE]
  /\ native = [closed |-> FALSE, active |-> FALSE, generation |-> 1,
               canceled |-> FALSE, poisoned |-> FALSE, sender |-> TRUE]
  /\ queue = << >>
  /\ handles = Workers
  /\ worker = [w \in Workers |-> NewWorker]
  /\ responses = << >>
  /\ received = << >>

-----------------------------------------------------------------------------
(* Python threads *)

\* c runs Python code at "from" and goes on to "to".
Goes(c, from, to) ==
  /\ gil = NoCaller
  /\ pc[c] = from
  /\ pc' = [pc EXCEPT ![c] = to]

Calls(c, to) == Goes(c, "idle", to) /\ calls < MaxCalls /\ calls' = calls + 1

(* bind_request *)

\* The native half of bind_request: the binding gets the native generation.
BindNative(c, id) ==
  /\ Calls(c, "binding")
  /\ ~py.closed
  /\ ~native.closed
  /\ batch' = [batch EXCEPT ![c] =
       {[id |-> id, generation |-> 0, native_generation |-> native.generation]}]
  /\ UNCHANGED <<pyVars, gil, native, poolVars, responses, received>>

\* The rest of it: the adapter's generation is read without its lock.
BindPython(c) ==
  /\ Goes(c, "binding", "idle")
  /\ bindings' = bindings \cup {[b EXCEPT !.generation = py.generation] : b \in batch[c]}
  /\ batch' = [batch EXCEPT ![c] = {}]
  /\ UNCHANGED <<calls, lock, gil, py, native, poolVars, responses, received>>

(* evaluate and evaluate_score_columns *)

\* _assert_open and _validate_bindings, without the lock.
Validate(c, B) ==
  /\ Calls(c, "validated")
  /\ ~py.closed
  /\ B # {}
  /\ \A b \in B : b.generation = py.generation
  /\ \A a, b \in B : a.id = b.id => a = b
  /\ batch' = [batch EXCEPT ![c] = B]
  /\ UNCHANGED <<pyVars, gil, native, poolVars, responses, received>>

\* Fault: a second batch is let in.
EnterUnchecked(c) ==
  /\ lock = NoCaller
  /\ Goes(c, "validated", "entered")
  /\ py' = [py EXCEPT !.active_batches = @ + 1]
  /\ UNCHANGED <<calls, batch, bindings, lock, gil, native, poolVars,
                 responses, received>>

\* Under the lock: refused when closed or when another batch is active.
Enter(c) ==
  /\ lock = NoCaller
  /\ IF py.closed \/ py.active_batches # 0
       THEN Goes(c, "validated", "idle") /\ UNCHANGED py
       ELSE Goes(c, "validated", "entered") /\ py' = [py EXCEPT !.active_batches = 1]
  /\ UNCHANGED <<calls, batch, bindings, lock, gil, native, poolVars,
                 responses, received>>

\* execute_score, up to where it detaches from the interpreter.
ExecuteScore(c) ==
  /\ IF native.closed \/ native.active
       THEN Goes(c, "entered", "leaving") /\ UNCHANGED native
       ELSE Goes(c, "entered", "detached") /\ native' = [native EXCEPT !.active = TRUE]
  /\ UNCHANGED <<calls, batch, pyVars, gil, poolVars, responses, received>>

\* Fault: the native generation is not compared.
AdmitsAnyGeneration(B) == native.sender

\* The checks execute_batch makes before it sends anything.
Admits(B) ==
  /\ native.sender
  /\ \A b \in B : b.native_generation = native.generation

\* execute_batch: every binding goes into the pool's channel.  Sending never
\* blocks, so that the sends are one action.
Send(c) ==
  /\ pc[c] = "detached"
  /\ IF Admits(batch[c])
       THEN /\ pc' = [pc EXCEPT ![c] = "collecting"]
            /\ queue' = queue \o SetToSeq({Execute(b) : b \in batch[c]})
       ELSE pc' = [pc EXCEPT ![c] = "returning"] /\ UNCHANGED queue
  /\ responses' = << >>
  /\ received' = << >>
  /\ UNCHANGED <<calls, batch, pyVars, gil, native, handles, worker>>

Receive(c) ==
  /\ pc[c] = "collecting"
  /\ responses # << >>
  /\ received' = Append(received, Head(responses))
  /\ responses' = Tail(responses)
  /\ UNCHANGED <<pc, calls, batch, pyVars, gil, native, poolVars>>

\* stop_workers, up to the joins: the sender is taken, and one shutdown message
\* for each worker is the last thing sent.
Stopped(q) ==
  IF native.sender THEN q \o [i \in 1..Cardinality(Workers) |-> Shutdown] ELSE q

\* Fault: nobody waits for the workers.
JoinedAtOnce == TRUE

AllJoined == \A w \in handles : worker[w].state = "exited"

\* Fault: a panic is not remembered.
RecoversNever == FALSE

\* The poison flag is read, and cleared, when all rows are in.
MustRecover == native.poisoned

\* All rows are in: a poisoned pool is stopped before the batch returns.
Collected(c) ==
  /\ pc[c] = "collecting"
  /\ Len(received) = Cardinality(batch[c])
  /\ IF MustRecover
       THEN /\ pc' = [pc EXCEPT ![c] = "recovering"]
            /\ native' = [native EXCEPT !.poisoned = FALSE, !.sender = FALSE]
            /\ queue' = Stopped(queue)
       ELSE pc' = [pc EXCEPT ![c] = "returning"] /\ UNCHANGED <<native, queue>>
  /\ UNCHANGED <<calls, batch, pyVars, gil, handles, worker, responses, received>>

\* recover_workers, once the old workers are joined: a new pool on a new channel.
Recover(c) ==
  /\ pc[c] = "recovering"
  /\ AllJoined
  /\ pc' = [pc EXCEPT ![c] = "returning"]
  /\ worker' = [w \in Workers |-> NewWorker]
  /\ handles' = Workers
  /\ queue' = << >>
  /\ native' = [native EXCEPT !.poisoned = FALSE, !.sender = TRUE]
  /\ UNCHANGED <<calls, batch, pyVars, gil, responses, received>>

\* The same when a thread cannot be spawned: the runtime is closed, and the
\* threads already spawned, which nobody will join, find their channel closed.
RecoverFails(c) ==
  /\ pc[c] = "recovering"
  /\ AllJoined
  /\ pc' = [pc EXCEPT ![c] = "failing"]
  /\ \E spawned \in SUBSET Workers :
       /\ spawned # Workers
       /\ worker' = [w \in Workers |-> IF w \in spawned THEN NewWorker ELSE worker[w]]
  /\ handles' = {}
  /\ queue' = << >>
  /\ native' = [native EXCEPT !.closed = TRUE]
  /\ UNCHANGED <<calls, batch, pyVars, gil, responses, received>>

\* The end of execute_score, attached to the interpreter again; failing is the
\* return of an error.
Return(c) ==
  /\ Goes(c, "returning", "leaving") \/ Goes(c, "failing", "leaving")
  /\ native' = [native EXCEPT !.active = FALSE]
  /\ UNCHANGED <<calls, batch, pyVars, gil, poolVars, responses, received>>

\* The finally clause.
Leave(c) ==
  /\ Goes(c, "leaving", "idle")
  /\ lock = NoCaller
  /\ py' = [py EXCEPT !.active_batches = 0]
  /\ batch' = [batch EXCEPT ![c] = {}]
  /\ UNCHANGED <<calls, bindings, lock, gil, native, poolVars, responses, received>>

(* cancel *)

CancelPython(c) ==
  /\ Calls(c, "canceling")
  /\ py' = [py EXCEPT !.canceled = TRUE]
  /\ UNCHANGED <<batch, bindings, lock, gil, native, poolVars, responses, received>>

CancelNative(c) ==
  /\ Goes(c, "canceling", "idle")
  /\ native' = [native EXCEPT !.canceled = TRUE]
  /\ UNCHANGED <<calls, batch, pyVars, gil, poolVars, responses, received>>

(* reset *)

\* What reset and close ask under the adapter's lock.
Free == ~py.closed /\ py.active_batches = 0

ResetLock(c) ==
  /\ Calls(c, "resetting")
  /\ lock = NoCaller
  /\ Free
  /\ lock' = c
  /\ UNCHANGED <<batch, bindings, gil, py, native, poolVars, responses, received>>

ResetNative(c) ==
  /\ IF native.closed \/ native.active
       THEN /\ Goes(c, "resetting", "idle")
            /\ lock' = NoCaller
            /\ UNCHANGED native
       ELSE /\ Goes(c, "resetting", "clearing")
            /\ native' = [native EXCEPT !.canceled = FALSE, !.generation = @ + 1]
            /\ UNCHANGED lock
  /\ UNCHANGED <<calls, batch, bindings, gil, py, poolVars, responses, received>>

ResetCancel(c) ==
  /\ Goes(c, "clearing", "renewing")
  /\ py' = [py EXCEPT !.canceled = FALSE]
  /\ UNCHANGED <<calls, batch, bindings, lock, gil, native, poolVars, responses, received>>

ResetIdentity(c) ==
  /\ Goes(c, "renewing", "idle")
  /\ py' = [py EXCEPT !.generation = @ + 1]
  /\ lock' = NoCaller
  /\ UNCHANGED <<calls, batch, bindings, gil, native, poolVars, responses, received>>

(* close *)

CloseLock(c) ==
  /\ Calls(c, "closing")
  /\ lock = NoCaller
  /\ Free
  /\ lock' = c
  /\ UNCHANGED <<batch, bindings, gil, py, native, poolVars, responses, received>>

\* The native close, refused under an active batch and done already after a
\* failed recovery.  It joins its workers without letting the interpreter go.
CloseNative(c) ==
  /\ IF native.active
       THEN /\ Goes(c, "closing", "idle")
            /\ lock' = NoCaller
            /\ UNCHANGED <<gil, native, queue>>
       ELSE IF native.closed
       THEN Goes(c, "closing", "closed") /\ UNCHANGED <<lock, gil, native, queue>>
       ELSE /\ Goes(c, "closing", "joining")
            /\ gil' = c
            /\ native' = [native EXCEPT !.closed = TRUE, !.sender = FALSE]
            /\ queue' = Stopped(queue)
            /\ UNCHANGED lock
  /\ UNCHANGED <<calls, batch, bindings, py, handles, worker, responses, received>>

CloseJoin(c) ==
  /\ pc[c] = "joining"
  /\ AllJoined
  /\ pc' = [pc EXCEPT ![c] = "closed"]
  /\ handles' = {}
  /\ gil' = NoCaller
  /\ UNCHANGED <<calls, batch, pyVars, native, queue, worker, responses, received>>

CloseEnd(c) ==
  /\ Goes(c, "closed", "idle")
  /\ py' = [py EXCEPT !.closed = TRUE]
  /\ lock' = NoCaller
  /\ UNCHANGED <<calls, batch, bindings, gil, native, poolVars, responses, received>>

-----------------------------------------------------------------------------
(* Worker threads *)

callerVars == <<pc, calls, batch, pyVars, gil>>

\* recv, by whichever worker holds the receiver.
Take(w) ==
  /\ worker[w].state = "waiting"
  /\ queue # << >>
  /\ worker' = [worker EXCEPT
       ![w].state = IF Head(queue).kind = "shutdown" THEN "exited" ELSE "holding",
       ![w].task  = Head(queue).binding]
  /\ queue' = Tail(queue)
  /\ UNCHANGED <<callerVars, native, handles, responses, received>>

\* A pool whose start failed has lost its only sender.
Orphaned(w) ==
  /\ worker[w].state = "waiting"
  /\ handles = {}
  /\ worker' = [worker EXCEPT ![w].state = "exited"]
  /\ UNCHANGED <<callerVars, native, queue, handles, responses, received>>

\* Fault: the row is sent from the shared response slot of the last task.
RespondsLast(w, status) ==
  /\ responses' = Append(responses,
       IF received # << >> THEN Head(received)
       ELSE [binding |-> worker[w].task, status |-> status])
  /\ worker' = [worker EXCEPT ![w].state = "waiting", ![w].task = NoBinding,
                              ![w].tainted = @ \/ status = "panicked"]

\* The outcome of a task goes to the batch that sent it.
Responds(w, status) ==
  /\ responses' = Append(responses, [binding |-> worker[w].task, status |-> status])
  /\ worker' = [worker EXCEPT ![w].state = "waiting", ![w].task = NoBinding,
                              ![w].tainted = @ \/ status = "panicked"]

\* The task boundary: a canceled runtime executes nothing more.
SkipCanceled(w) ==
  /\ worker[w].state = "holding"
  /\ native.canceled
  /\ Responds(w, "canceled")
  /\ UNCHANGED <<callerVars, native, queue, handles, received>>

Start(w) ==
  /\ worker[w].state = "holding"
  /\ ~native.canceled
  /\ worker' = [worker EXCEPT ![w].state = "running"]
  /\ UNCHANGED <<callerVars, native, queue, handles, responses, received>>

Finish(w) ==
  /\ worker[w].state = "running"
  /\ \E status \in {"ok", "failed"} : Responds(w, status)
  /\ UNCHANGED <<callerVars, native, queue, handles, received>>

\* Fault: a panicking worker does not answer.
FailedRowLost(w) ==
  /\ worker' = [worker EXCEPT ![w].state = "waiting", ![w].task = NoBinding,
                              ![w].tainted = TRUE]
  /\ UNCHANGED responses

\* The failed row of a panic, sent like any other.
FailedRow(w) == Responds(w, "panicked")

\* catch_unwind: the pool is marked before the failed row is sent.
Panic(w) ==
  /\ worker[w].state = "running"
  /\ native' = [native EXCEPT !.poisoned = TRUE]
  /\ FailedRow(w)
  /\ UNCHANGED <<callerVars, queue, handles, received>>

-----------------------------------------------------------------------------
\* The actions that begin a call, and those that carry one on.
Begins(c) ==
  \/ \E id \in Ids : BindNative(c, id)
  \/ \E B \in SUBSET bindings : Validate(c, B)
  \/ CancelPython(c)
  \/ ResetLock(c)
  \/ CloseLock(c)

Continues(c) ==
  \/ BindPython(c)
  \/ Enter(c) \/ ExecuteScore(c) \/ Send(c) \/ Receive(c) \/ Collected(c)
  \/ Recover(c) \/ RecoverFails(c) \/ Return(c) \/ Leave(c)
  \/ CancelNative(c)
  \/ ResetNative(c) \/ ResetCancel(c) \/ ResetIdentity(c)
  \/ CloseNative(c) \/ CloseJoin(c) \/ CloseEnd(c)

Works(w) ==
  \/ Take(w) \/ Orphaned(w) \/ SkipCanceled(w) \/ Start(w) \/ Finish(w) \/ Panic(w)

Next ==
  \/ \E c \in Callers : Begins(c) \/ Continues(c)
  \/ \E w \in Workers : Works(w)

\* The operating system runs every thread that can run; nobody has to make a
\* call.
Fairness ==
  /\ \A c \in Callers : WF_vars(Continues(c))
  /\ \A w \in Workers : WF_vars(Works(w))

Spec == Init /\ [][Next]_vars /\ Fairness

-----------------------------------------------------------------------------
(* Properties *)

\* The types of the runtime's state.
TypeOK ==
  /\ bindings \subseteq Binding
  /\ lock \in Callers \cup {NoCaller}
  /\ gil \in Callers \cup {NoCaller}
  /\ py.active_batches \in {0, 1}
  /\ handles \in {{}, Workers}
  /\ \A w \in Workers : worker[w].state \in {"waiting", "holding", "running", "exited"}
  /\ Len(received) <= Cardinality(Ids)

\* Reset fails stale bindings closed: no task that a worker has or will get is
\* of an earlier generation than the runtime's, at whatever point of a call
\* the binding was made or checked.
StaleNeverRuns ==
  /\ \A i \in DOMAIN queue :
       queue[i].kind = "execute" => queue[i].binding.native_generation = native.generation
  /\ \A w \in Workers :
       worker[w].state \in {"holding", "running"}
         => worker[w].task.native_generation = native.generation

\* A batch that succeeds returns one row for each of its bindings, none lost,
\* doubled or taken from another batch.
OneRowPerBinding ==
  \A c \in Callers :
    pc[c] = "returning" /\ received # << >> =>
      /\ {received[i].binding : i \in DOMAIN received} = batch[c]
      /\ Len(received) = Cardinality(batch[c])

\* A worker that has panicked never gets a task of a later batch: when a batch
\* is let into the native runtime, the whole pool is new since the last panic
\* and idle, its channel empty.
PoolCleanForBatch ==
  \A c \in Callers :
    pc[c] = "detached" =>
      /\ queue = << >>
      /\ \A w \in Workers : worker[w].state = "waiting" /\ ~worker[w].tainted

\* The runtime has at most one batch, and once the adapter is closed it has
\* none: nothing is queued, no worker has a task, and no call can reach one.
ClosedIsQuiet ==
  /\ Cardinality({c \in Callers : pc[c] \in {"detached", "collecting", "recovering"}}) <= 1
  /\ py.closed =>
       /\ queue = << >>
       /\ \A w \in Workers : worker[w].state \in {"waiting", "exited"}
       /\ \A w \in handles : worker[w].state = "exited"
       /\ ~native.active

\* Every call returns, whatever panics, cancellations and failed recoveries it
\* meets: no wait for a row, a join or a lock is for ever.
EveryCallReturns ==
  \A c \in Callers : pc[c] # "idle" ~> pc[c] = "idle"

\* Reset is to clear cancellation: when no call is in progress the adapter and
\* the native runtime agree on whether the runtime is canceled.
CancellationAgrees ==
  (\A c \in Callers : pc[c] = "idle") => py.canceled = native.canceled
=============================================================================
