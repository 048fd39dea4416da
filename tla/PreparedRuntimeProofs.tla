------------------------ MODULE PreparedRuntimeProofs ------------------------
(***************************************************************************)
(* Proofs about the prepared evaluation runtime, for any number of Python  *)
(* threads, pool workers, candidates and calls.                            *)
(***************************************************************************)
EXTENDS PreparedRuntime, FiniteSetTheorems, TLAPS

-----------------------------------------------------------------------------
(* Types *)

\* Where a caller is when no batch of its own is inside the native runtime and
\* it is not about to close it.
OutsideStages == {"idle", "binding", "validated", "entered", "leaving", "canceling",
                  "resetting", "clearing", "renewing", "closing"}

\* A batch inside the native runtime: from ExecuteScore to Return.
ActiveStages == {"detached", "collecting", "recovering", "returning", "failing"}

Stages == OutsideStages \cup ActiveStages \cup {"joining", "closed"}

Messages == [kind : {"execute", "shutdown"}, binding : Binding \cup {NoBinding}]

Outcomes == [binding : Binding, status : {"ok", "failed", "panicked", "canceled"}]

PyType == [closed : BOOLEAN, active_batches : {0, 1}, generation : Nat,
           canceled : BOOLEAN]

NativeType == [closed : BOOLEAN, active : BOOLEAN, generation : Nat,
               canceled : BOOLEAN, poisoned : BOOLEAN, sender : BOOLEAN]

WorkerType == [state : {"waiting", "holding", "running", "exited"},
               task : Binding \cup {NoBinding}, tainted : BOOLEAN]

Busy(w) == worker[w].state \in {"holding", "running"}

CallerTypes ==
  /\ pc \in [Callers -> Stages]
  /\ batch \in [Callers -> SUBSET Binding]
  /\ bindings \in SUBSET Binding
  /\ lock \in Callers \cup {NoCaller}
  /\ gil \in Callers \cup {NoCaller}
  /\ py \in PyType

PoolTypes ==
  /\ native \in NativeType
  /\ queue \in Seq(Messages)
  /\ handles \in {{}, Workers}
  /\ worker \in [Workers -> WorkerType]
  /\ responses \in Seq(Outcomes) /\ received \in Seq(Outcomes)
  /\ \A i \in 1..Len(queue) : queue[i].kind = "execute" => queue[i].binding \in Binding
  /\ \A w \in Workers : Busy(w) => worker[w].task \in Binding

BatchFinite ==
  /\ IsFiniteSet(bindings)
  /\ \A c \in Callers : IsFiniteSet(batch[c])
  /\ \A c \in Callers : \A a, b \in batch[c] : a.id = b.id => a = b

-----------------------------------------------------------------------------
(* The inductive invariant *)

OneActive ==
  /\ \A c \in Callers : pc[c] \in ActiveStages => native.active
  /\ \A c, d \in Callers : pc[c] \in ActiveStages /\ pc[d] \in ActiveStages => c = d

\* No task is queued or held.
Quiet ==
  /\ \A i \in 1..Len(queue) : queue[i].kind # "execute"
  /\ \A w \in Workers : ~Busy(w)

(* While a batch is collected each of its bindings is in at most one of    *)
(* four places: the channel, a worker, the responses, the received rows.   *)
Within(B) ==
  /\ \A i \in 1..Len(queue) : queue[i].kind = "execute" /\ queue[i].binding \in B
  /\ \A w \in Workers : Busy(w) => worker[w].task \in B
  /\ \A i \in 1..Len(responses) : responses[i].binding \in B
  /\ \A i \in 1..Len(received) : received[i].binding \in B

Distinct ==
  /\ \A i, j \in 1..Len(queue) : queue[i].binding = queue[j].binding => i = j
  /\ \A v, w \in Workers :
       Busy(v) /\ Busy(w) /\ worker[v].task = worker[w].task => v = w
  /\ \A i, j \in 1..Len(responses) : responses[i].binding = responses[j].binding => i = j
  /\ \A i, j \in 1..Len(received) : received[i].binding = received[j].binding => i = j

Apart ==
  /\ \A i \in 1..Len(queue), w \in Workers :
       Busy(w) => queue[i].binding # worker[w].task
  /\ \A i \in 1..Len(queue), j \in 1..Len(responses) :
       queue[i].binding # responses[j].binding
  /\ \A i \in 1..Len(queue), j \in 1..Len(received) :
       queue[i].binding # received[j].binding
  /\ \A w \in Workers, j \in 1..Len(responses) :
       Busy(w) => worker[w].task # responses[j].binding
  /\ \A w \in Workers, j \in 1..Len(received) :
       Busy(w) => worker[w].task # received[j].binding
  /\ \A i \in 1..Len(responses), j \in 1..Len(received) :
       responses[i].binding # received[j].binding

Conserved(B) == Within(B) /\ Distinct /\ Apart

Batched ==
  /\ (\A c \in Callers : pc[c] # "collecting") => Quiet
  /\ \A c \in Callers : pc[c] = "collecting" =>
       /\ Conserved(batch[c])
       /\ \A b \in batch[c] : b.native_generation = native.generation
  /\ Len(received) <= Cardinality(Ids)

\* What the pool's sender, its poison flag and its panicked workers say of
\* each other.
Pool ==
  /\ native.sender => /\ handles = Workers
                      /\ \A w \in Workers : worker[w].state # "exited"
                      /\ \A i \in 1..Len(queue) : queue[i].kind = "execute"
  /\ native.sender \/ native.closed \/ \E c \in Callers : pc[c] = "recovering"
  /\ \A c \in Callers : pc[c] = "recovering" => ~native.sender
  /\ native.closed => ~native.sender
  /\ native.poisoned => \E c \in Callers : pc[c] = "collecting"
  /\ \A w \in Workers : worker[w].tainted => native.poisoned \/ ~native.sender

Unjoined == {w \in Workers : worker[w].state # "exited"}

\* How far a closed runtime has been stopped.
Closing ==
  /\ \A c \in Callers : pc[c] \in ActiveStages \ {"failing"} => ~native.closed
  /\ \A c \in Callers : pc[c] = "joining" =>
       /\ gil = c /\ native.closed /\ ~native.active /\ handles = Workers
       /\ Len(queue) = Cardinality(Unjoined)
  /\ native.closed =>
       \/ handles = {} /\ queue = << >>
       \/ \E c \in Callers : pc[c] = "joining"
  /\ (py.closed \/ \E c \in Callers : pc[c] = "closed") =>
       native.closed /\ ~native.active /\ handles = {} /\ queue = << >>

\* The rows are all in from the end of the collection on.
RowsIn ==
  \A c \in Callers :
    pc[c] \in {"recovering", "returning"} /\ received # << >> =>
      /\ {received[i].binding : i \in DOMAIN received} = batch[c]
      /\ Len(received) = Cardinality(batch[c])

Core == OneActive /\ Batched /\ RowsIn /\ Pool /\ Closing

IInv == CallerTypes /\ PoolTypes /\ BatchFinite /\ Core

LEMMA InitIInv == Init => IInv
<1> SUFFICES ASSUME Init PROVE IInv
  OBVIOUS
<1> USE RuntimeAssumption DEF Init
<1>1. CallerTypes
  BY DEF CallerTypes, Stages, OutsideStages, PyType
<1>2. \A w \in Workers : /\ worker[w].state = "waiting"
                         /\ worker[w].tainted = FALSE
  BY DEF NewWorker
<1>3. PoolTypes
  <2>1. worker \in [Workers -> WorkerType]
    BY DEF NewWorker, WorkerType
  <2>2. native \in NativeType
    BY DEF NativeType
  <2> QED
    BY <1>2, <2>1, <2>2 DEF PoolTypes, Busy
<1>4. BatchFinite
  BY FS_EmptySet DEF BatchFinite
<1>5. OneActive
  BY DEF OneActive, ActiveStages
<1>6. Batched
  <2>1. Cardinality(Ids) \in Nat
    BY FS_CardinalityType
  <2> QED
    BY <1>2, <2>1 DEF Batched, Quiet, Busy
<1>7. RowsIn
  BY DEF RowsIn
<1>8. Pool
  BY <1>2 DEF Pool
<1>9. Closing
  BY DEF Closing, ActiveStages
<1> QED
  BY <1>1, <1>3, <1>4, <1>5, <1>6, <1>7, <1>8, <1>9 DEF IInv, Core

-----------------------------------------------------------------------------
(* Steps of a caller outside the native runtime *)

\* A caller that moves between two stages outside the native runtime, and
\* leaves the pool and what the runtime says of it alone, keeps the core.
LEMMA OutsideStep ==
  ASSUME IInv, NEW c \in Callers, NEW s \in OutsideStages,
         pc[c] \in OutsideStages,
         pc' = [pc EXCEPT ![c] = s],
         batch' \in [Callers -> SUBSET Binding],
         \A d \in Callers : d # c => batch'[d] = batch[d],
         gil' = gil, py'.closed = py.closed,
         native'.closed = native.closed, native'.active = native.active,
         native'.generation = native.generation,
         native'.poisoned = native.poisoned, native'.sender = native.sender,
         UNCHANGED <<queue, handles, worker, responses, received>>
  PROVE  Core'
<1> USE DEF IInv, Core, CallerTypes
<1>1. \A d \in Callers : /\ pc'[d] \notin OutsideStages => pc'[d] = pc[d] /\ d # c
                        /\ pc[d] \notin OutsideStages => pc'[d] = pc[d] /\ d # c
  OBVIOUS
<1>2. \A d \in Callers : pc'[d] \in ActiveStages <=> pc[d] \in ActiveStages
  BY <1>1 DEF OutsideStages, ActiveStages
<1>3. \A d \in Callers, t \in ActiveStages \cup {"joining", "closed"} :
        (pc'[d] = t <=> pc[d] = t) /\ (pc'[d] = t => batch'[d] = batch[d])
  BY <1>1 DEF OutsideStages, ActiveStages
<1>4. OneActive'
  BY <1>2 DEF OneActive
<1>5. Batched'
  BY <1>3, SMTT(20) DEF Batched, Quiet, Conserved, Within, Distinct, Apart, Busy, ActiveStages
<1>6. RowsIn'
  BY <1>3 DEF RowsIn, ActiveStages
<1>7. Pool'
  BY <1>3 DEF Pool, ActiveStages
<1>8. Closing'
  BY <1>3 DEF Closing, ActiveStages, Unjoined
<1> QED
  BY <1>4, <1>5, <1>6, <1>7, <1>8

LEMMA BindStep ==
  ASSUME IInv, NEW c \in Callers,
         (\E id \in Ids : BindNative(c, id)) \/ BindPython(c)
  PROVE  IInv'
<1> USE DEF IInv, Goes, Calls, pyVars, poolVars
<1>1. CASE \E id \in Ids : BindNative(c, id)
  <2>1. PICK id \in Ids : BindNative(c, id)
    BY <1>1
  <2> DEFINE b == [id |-> id, generation |-> 0, native_generation |-> native.generation]
  <2>2. b \in Binding
    BY DEF PoolTypes, NativeType, Binding
  <2>3. batch' = [batch EXCEPT ![c] = {b}]
    BY <2>1 DEF BindNative
  <2>4. CallerTypes'
    BY <2>1, <2>2, <2>3 DEF BindNative, CallerTypes, Stages, OutsideStages
  <2>5. PoolTypes'
    BY <2>1 DEF BindNative, PoolTypes, Busy
  <2>6. BatchFinite'
    <3>1. IsFiniteSet({b})
      BY FS_Singleton
    <3>2. bindings' = bindings
      BY <2>1 DEF BindNative
    <3>3. \A d \in Callers : batch'[d] = IF d = c THEN {b} ELSE batch[d]
      BY <2>3 DEF CallerTypes
    <3> HIDE DEF b
    <3> QED
      BY <3>1, <3>2, <3>3 DEF BatchFinite
  <2>7. Core'
    BY <2>1, <2>4, OutsideStep DEF BindNative, CallerTypes, OutsideStages
  <2> QED
    BY <2>4, <2>5, <2>6, <2>7
<1>2. CASE BindPython(c)
  <2> DEFINE made == {[b EXCEPT !.generation = py.generation] : b \in batch[c]}
  <2>1. made \subseteq Binding
    BY DEF CallerTypes, PyType, Binding
  <2>2. CallerTypes'
    BY <1>2, <2>1 DEF BindPython, CallerTypes, Stages, OutsideStages
  <2>3. PoolTypes'
    BY <1>2 DEF BindPython, PoolTypes, Busy
  <2>4. BatchFinite'
    <3>1. IsFiniteSet(made)
      <4>1. IsFiniteSet(batch[c])
        BY DEF BatchFinite
      <4> DEFINE f == [b \in batch[c] |-> [b EXCEPT !.generation = py.generation]]
      <4>2. f \in Surjection(batch[c], made)
        BY Zenon DEF Surjection
      <4> QED
        BY <4>1, <4>2, FS_Surjection
    <3>2. IsFiniteSet(bindings \cup made)
      BY <3>1, FS_Union DEF BatchFinite
    <3>3. bindings' = bindings \cup made /\ batch' = [batch EXCEPT ![c] = {}]
      BY <1>2 DEF BindPython
    <3> QED
      BY <3>2, <3>3, FS_EmptySet DEF BatchFinite, CallerTypes
  <2>5. Core'
    BY <1>2, <2>2, OutsideStep DEF BindPython, CallerTypes, OutsideStages
  <2> QED
    BY <2>2, <2>3, <2>4, <2>5
<1> QED
  BY <1>1, <1>2

LEMMA ValidateStep ==
  ASSUME IInv, NEW c \in Callers, NEW B \in SUBSET bindings, Validate(c, B)
  PROVE  IInv'
<1> USE DEF IInv, Validate, Goes, Calls, pyVars, poolVars
<1>1. CallerTypes'
  BY DEF CallerTypes, Stages, OutsideStages
<1>2. PoolTypes'
  BY DEF PoolTypes, Busy
<1>3. BatchFinite'
  BY FS_Subset DEF BatchFinite, CallerTypes
<1>4. Core'
  BY <1>1, OutsideStep DEF CallerTypes, OutsideStages
<1> QED
  BY <1>1, <1>2, <1>3, <1>4

LEMMA EnterStep ==
  ASSUME IInv, NEW c \in Callers, Enter(c) \/ Leave(c)
  PROVE  IInv'
<1> USE DEF IInv, Enter, Leave, Goes, pyVars, poolVars
<1>1. py' \in PyType /\ py'.closed = py.closed
  BY DEF CallerTypes, PyType
<1>2. CallerTypes'
  BY <1>1 DEF CallerTypes, Stages, OutsideStages, ActiveStages
<1>3. PoolTypes'
  BY DEF PoolTypes, Busy
<1>4. BatchFinite'
  BY FS_EmptySet DEF BatchFinite, CallerTypes
<1>5. Core'
  BY <1>1, <1>2, OutsideStep DEF CallerTypes, OutsideStages
<1> QED
  BY <1>2, <1>3, <1>4, <1>5

LEMMA CancelStep ==
  ASSUME IInv, NEW c \in Callers, CancelPython(c) \/ CancelNative(c)
  PROVE  IInv'
<1> USE DEF IInv, CancelPython, CancelNative, Goes, Calls, pyVars, poolVars
<1>1. py' \in PyType /\ py'.closed = py.closed
  BY DEF CallerTypes, PyType
<1>2. /\ native' \in NativeType
      /\ native'.closed = native.closed /\ native'.active = native.active
      /\ native'.generation = native.generation
      /\ native'.poisoned = native.poisoned /\ native'.sender = native.sender
  BY DEF PoolTypes, NativeType
<1>3. CallerTypes'
  BY <1>1 DEF CallerTypes, Stages, OutsideStages
<1>4. PoolTypes'
  BY <1>2 DEF PoolTypes, Busy
<1>5. BatchFinite'
  BY DEF BatchFinite
<1>6. Core'
  BY <1>1, <1>2, <1>3, OutsideStep DEF CallerTypes, OutsideStages
<1> QED
  BY <1>3, <1>4, <1>5, <1>6

\* The Python half of reset, and both locks.
LEMMA LockStep ==
  ASSUME IInv, NEW c \in Callers,
         ResetLock(c) \/ CloseLock(c) \/ ResetCancel(c) \/ ResetIdentity(c)
  PROVE  IInv'
<1> USE DEF IInv, ResetLock, CloseLock, ResetCancel, ResetIdentity, Goes, Calls,
            pyVars, poolVars
<1>1. py' \in PyType /\ py'.closed = py.closed
  <2>1. CASE ResetIdentity(c)
    BY <2>1 DEF CallerTypes, PyType
  <2>2. CASE ResetCancel(c)
    BY <2>2 DEF CallerTypes, PyType
  <2>3. CASE ResetLock(c) \/ CloseLock(c)
    BY <2>3 DEF CallerTypes, PyType
  <2> QED
    BY <2>1, <2>2, <2>3
<1>2. CallerTypes'
  BY <1>1 DEF CallerTypes, Stages, OutsideStages
<1>3. PoolTypes'
  BY DEF PoolTypes, Busy
<1>4. BatchFinite'
  BY DEF BatchFinite
<1>5. Core'
  BY <1>1, <1>2, OutsideStep DEF CallerTypes, OutsideStages
<1> QED
  BY <1>2, <1>3, <1>4, <1>5

-----------------------------------------------------------------------------
(* Counting *)

\* The sequence of a finite set has each of its elements once.
LEMMA SetToSeqOnce ==
  ASSUME NEW S, IsFiniteSet(S)
  PROVE  /\ SetToSeq(S) \in Seq(S)
         /\ Len(SetToSeq(S)) = Cardinality(S)
         /\ \A i, j \in 1..Len(SetToSeq(S)) : SetToSeq(S)[i] = SetToSeq(S)[j] => i = j
<1>1. /\ Cardinality(S) \in Nat
      /\ \E f \in [1..Cardinality(S) -> S] : IsInjective(f)
  <2>1. Cardinality(S) \in Nat /\ ExistsBijection(1..Cardinality(S), S)
    BY FS_CardinalityType
  <2>2. PICK f : f \in Bijection(1..Cardinality(S), S)
    BY <2>1 DEF ExistsBijection
  <2>3. f \in [1..Cardinality(S) -> S] /\ IsInjective(f)
    BY <2>2 DEF Bijection, Injection
  <2> QED
    BY <2>1, <2>3
<1>2. SetToSeq(S) \in [1..Cardinality(S) -> S] /\ IsInjective(SetToSeq(S))
  BY <1>1, Zenon DEF SetToSeq
<1> HIDE DEF SetToSeq
<1> QED
  BY <1>1, <1>2 DEF IsInjective

\* Rows whose bindings are all different and all of a batch are no more than
\* the batch, and with as many of them every binding has its row.
LEMMA RowsOfBatch ==
  ASSUME NEW B, IsFiniteSet(B), NEW rows, rows \in Seq(Outcomes),
         \A i \in 1..Len(rows) : rows[i].binding \in B,
         \A i, j \in 1..Len(rows) : rows[i].binding = rows[j].binding => i = j
  PROVE  /\ Len(rows) <= Cardinality(B)
         /\ Len(rows) = Cardinality(B) =>
              \A b \in B : \E i \in 1..Len(rows) : rows[i].binding = b
<1> DEFINE D == 1..Len(rows)
           f == [i \in D |-> rows[i].binding]
<1>1. Len(rows) \in Nat /\ Cardinality(D) = Len(rows)
  <2>1. Len(rows) \in Nat
    OBVIOUS
  <2>2. \A n \in Nat : Cardinality(1..n) = IF 1 > n THEN 0 ELSE n - 1 + 1
    BY FS_Interval
  <2> QED
    BY <2>1, <2>2
<1>2. f \in Injection(D, B)
  BY DEF Injection, IsInjective
<1>3. /\ Cardinality(D) <= Cardinality(B)
      /\ Cardinality(D) = Cardinality(B) <=> f \in Surjection(D, B)
  BY <1>2, FS_Injection
<1>4. f \in Surjection(D, B) => \A b \in B : \E i \in D : rows[i].binding = b
  BY DEF Surjection
<1> QED
  BY <1>1, <1>3, <1>4

\* A batch names each candidate once.
LEMMA BatchNoLargerThanIds ==
  ASSUME NEW B, B \subseteq Binding, IsFiniteSet(B),
         \A a, b \in B : a.id = b.id => a = b
  PROVE  Cardinality(B) <= Cardinality(Ids)
<1> DEFINE f == [b \in B |-> b.id]
<1>1. f \in Injection(B, Ids)
  BY DEF Injection, IsInjective, Binding
<1> QED
  BY <1>1, FS_Injection, RuntimeAssumption

-----------------------------------------------------------------------------
(* Steps of a batch *)

\* A runtime that is not closed and has no batch has a whole idle pool.
LEMMA IdlePool ==
  ASSUME IInv, ~native.closed,
         \A c \in Callers : pc[c] \notin {"collecting", "recovering"}
  PROVE  /\ native.sender /\ handles = Workers /\ queue = << >>
         /\ \A w \in Workers : worker[w].state = "waiting" /\ ~worker[w].tainted
<1> USE DEF IInv, Core
<1>1. Quiet /\ native.sender /\ ~native.poisoned
  BY DEF Batched, Pool
<1>2. Len(queue) = 0
  <2>1. Len(queue) \in Nat
    BY DEF PoolTypes
  <2>2. 1 \notin 1..Len(queue)
    BY <1>1 DEF Quiet, Pool
  <2> QED
    BY <2>1, <2>2
<1>3. queue = << >>
  BY <1>2 DEF PoolTypes
<1>4. \A w \in Workers : worker[w].state \in {"waiting", "holding", "running", "exited"}
  BY DEF PoolTypes, WorkerType
<1>5. \A w \in Workers : worker[w].state = "waiting"
  BY <1>1, <1>4 DEF Quiet, Busy, Pool
<1>6. handles = Workers /\ \A w \in Workers : ~worker[w].tainted
  BY <1>1 DEF Pool
<1> QED
  BY <1>1, <1>3, <1>5, <1>6

LEMMA ExecuteScoreStep ==
  ASSUME IInv, NEW c \in Callers, ExecuteScore(c)
  PROVE  IInv'
<1> USE DEF IInv, ExecuteScore, Goes, pyVars, poolVars
<1>1. CallerTypes'
  BY DEF CallerTypes, Stages, OutsideStages, ActiveStages
<1>2. PoolTypes'
  BY DEF PoolTypes, NativeType, Busy
<1>3. BatchFinite'
  BY DEF BatchFinite
<1>4. CASE native.closed \/ native.active
  <2>1. /\ pc[c] = "entered" /\ pc' = [pc EXCEPT ![c] = "leaving"]
        /\ UNCHANGED <<batch, gil, py, native, queue, handles, worker, responses, received>>
    BY <1>4
  <2> QED
    BY <1>1, <1>2, <1>3, <2>1, OutsideStep DEF CallerTypes, OutsideStages
<1>5. CASE ~(native.closed \/ native.active)
  <2>1. /\ pc' = [pc EXCEPT ![c] = "detached"] /\ pc[c] = "entered"
        /\ native' = [native EXCEPT !.active = TRUE]
    BY <1>5
  <2>2. \A d \in Callers : pc[d] \notin ActiveStages \cup {"joining", "closed"}
    BY <1>5 DEF Core, OneActive, Closing
  <2>3. \A d \in Callers : pc'[d] = IF d = c THEN "detached" ELSE pc[d]
    BY <2>1 DEF CallerTypes
  <2>4. /\ native'.closed = native.closed /\ native'.active = TRUE
        /\ native'.generation = native.generation
        /\ native'.poisoned = native.poisoned /\ native'.sender = native.sender
    BY <2>1 DEF PoolTypes, NativeType
  <2>5. OneActive'
    BY <2>2, <2>3, <2>4 DEF OneActive
  <2>6. Batched'
    BY <2>2, <2>3, <2>4 DEF Core, Batched, Quiet, Busy, ActiveStages
  <2>7. RowsIn'
    BY <2>2, <2>3 DEF RowsIn, ActiveStages
  <2>8. Pool'
    BY <2>2, <2>3, <2>4 DEF Core, Pool, ActiveStages
  <2>9. Closing'
    BY <1>5, <2>2, <2>3, <2>4 DEF Core, Closing, ActiveStages
  <2> QED
    BY <1>1, <1>2, <1>3, <2>5, <2>6, <2>7, <2>8, <2>9 DEF Core
<1> QED
  BY <1>1, <1>2, <1>3, <1>4, <1>5

\* While c is inside the native runtime nobody else is.
LEMMA Alone ==
  ASSUME IInv, NEW c \in Callers, pc[c] \in ActiveStages
  PROVE  /\ native.active
         /\ \A d \in Callers :
              d # c => pc[d] \notin ActiveStages \cup {"joining", "closed"}
         /\ ~py.closed
BY DEF IInv, Core, OneActive, Closing

LEMMA ReturnStep ==
  ASSUME IInv, NEW c \in Callers, Return(c)
  PROVE  IInv'
<1> USE DEF IInv, Return, Goes, pyVars, poolVars
<1>1. /\ pc' = [pc EXCEPT ![c] = "leaving"] /\ pc[c] \in {"returning", "failing"}
      /\ native' = [native EXCEPT !.active = FALSE]
  OBVIOUS
<1>2. CallerTypes'
  BY DEF CallerTypes, Stages, OutsideStages
<1>3. PoolTypes'
  BY DEF PoolTypes, NativeType, Busy
<1>4. BatchFinite'
  BY DEF BatchFinite
<1>5. \A d \in Callers : d # c => pc[d] \notin ActiveStages \cup {"joining", "closed"}
  BY <1>1, Alone DEF ActiveStages
<1>6. \A d \in Callers : pc'[d] = IF d = c THEN "leaving" ELSE pc[d]
  BY <1>1 DEF CallerTypes
<1>7. /\ native'.closed = native.closed /\ native'.active = FALSE
      /\ native'.generation = native.generation
      /\ native'.poisoned = native.poisoned /\ native'.sender = native.sender
  BY <1>1 DEF PoolTypes, NativeType
<1>8. \A d \in Callers : pc'[d] \notin ActiveStages \cup {"joining", "closed"}
  BY <1>5, <1>6 DEF ActiveStages
<1>9. OneActive' /\ RowsIn'
  BY <1>8 DEF OneActive, RowsIn, ActiveStages
<1>10. Batched'
  BY <1>1, <1>5, <1>8 DEF Core, Batched, Quiet, Busy, ActiveStages
<1>11. Pool'
  BY <1>1, <1>5, <1>7 DEF Core, Pool, ActiveStages
<1>12. Closing'
  BY <1>1, <1>5, <1>7, <1>8, Alone DEF Core, Closing, ActiveStages
<1> QED
  BY <1>2, <1>3, <1>4, <1>9, <1>10, <1>11, <1>12 DEF Core

\* What Send puts into the channel.
LEMMA SentBatch ==
  ASSUME NEW B, B \subseteq Binding, IsFiniteSet(B)
  PROVE  LET q == SetToSeq({Execute(b) : b \in B})
         IN  /\ q \in Seq(Messages)
             /\ \A i \in 1..Len(q) : q[i].kind = "execute" /\ q[i].binding \in B
             /\ \A i, j \in 1..Len(q) : q[i].binding = q[j].binding => i = j
<1> DEFINE S == {Execute(b) : b \in B}
           q == SetToSeq(S)
<1>1. IsFiniteSet(S)
  <2> DEFINE f == [b \in B |-> Execute(b)]
  <2>1. f \in Surjection(B, S)
    BY Zenon DEF Surjection
  <2> QED
    BY <2>1, FS_Surjection
<1>2. /\ q \in Seq(S)
      /\ \A i, j \in 1..Len(q) : q[i] = q[j] => i = j
  BY <1>1, SetToSeqOnce
<1>3. /\ S \subseteq Messages
      /\ \A m \in S : m.kind = "execute" /\ m.binding \in B
      /\ \A m, n \in S : m.binding = n.binding => m = n
  BY DEF Execute, Messages
<1> HIDE DEF S, q
<1>4. q \in Seq(Messages)
  BY <1>2, <1>3
<1>5. \A i \in 1..Len(q) : q[i] \in S
  BY <1>2
<1> QED
  BY <1>2, <1>3, <1>4, <1>5 DEF q, S

LEMMA SendStep ==
  ASSUME IInv, NEW c \in Callers, Send(c)
  PROVE  IInv'
<1> USE DEF IInv, Send, pyVars
<1>1. /\ pc[c] = "detached" /\ pc[c] \in ActiveStages
      /\ responses' = << >> /\ received' = << >>
      /\ UNCHANGED <<batch, bindings, lock, gil, py, native, handles, worker>>
  BY DEF ActiveStages
<1>2. /\ ~native.closed /\ native.active /\ ~py.closed
      /\ \A d \in Callers : d # c => pc[d] \notin ActiveStages \cup {"joining", "closed"}
  BY <1>1, Alone DEF Core, Closing, ActiveStages
<1>3. /\ native.sender /\ handles = Workers /\ queue = << >>
      /\ \A w \in Workers : worker[w].state = "waiting" /\ ~worker[w].tainted
  BY <1>1, <1>2, IdlePool DEF ActiveStages
<1>4. BatchFinite'
  BY <1>1 DEF BatchFinite
<1>5. Cardinality(Ids) \in Nat
  BY FS_CardinalityType, RuntimeAssumption
<1>6. CASE Admits(batch[c])
  <2> DEFINE q == SetToSeq({Execute(b) : b \in batch[c]})
  <2>1. pc' = [pc EXCEPT ![c] = "collecting"] /\ queue' = queue \o q
    BY <1>6
  <2>2. /\ q \in Seq(Messages)
        /\ \A i \in 1..Len(q) : q[i].kind = "execute" /\ q[i].binding \in batch[c]
        /\ \A i, j \in 1..Len(q) : q[i].binding = q[j].binding => i = j
    <3>1. batch[c] \subseteq Binding /\ IsFiniteSet(batch[c])
      BY DEF CallerTypes, BatchFinite
    <3> QED
      BY <3>1, SentBatch
  <2> HIDE DEF q
  <2>3. queue' = q
    BY <1>3, <2>1, <2>2
  <2>4. batch[c] \subseteq Binding
    BY DEF CallerTypes
  <2>5. CallerTypes'
    BY <1>1, <2>1 DEF CallerTypes, Stages, ActiveStages
  <2>6. PoolTypes'
    BY <1>1, <2>2, <2>3, <2>4 DEF PoolTypes, Busy
  <2>7. \A d \in Callers : pc'[d] = IF d = c THEN "collecting" ELSE pc[d]
    BY <2>1 DEF CallerTypes
  <2>8. OneActive'
    BY <1>1, <1>2, <2>7 DEF OneActive, ActiveStages
  <2>9. Conserved(batch[c])'
    <3>1. Within(batch[c])'
      BY <1>1, <1>3, <2>2, <2>3 DEF Within, Busy
    <3>2. Distinct'
      BY <1>1, <1>3, <2>2, <2>3 DEF Distinct, Busy
    <3>3. Apart'
      BY <1>1, <1>3 DEF Apart, Busy
    <3> QED
      BY <3>1, <3>2, <3>3 DEF Conserved
  <2>10. Batched'
    <3>1. \A b \in batch[c] : b.native_generation = native.generation
      BY <1>6 DEF Admits
    <3>2. \A d \in Callers : pc'[d] = "collecting" <=> d = c
      BY <1>2, <2>7 DEF ActiveStages
    <3>3. Len(received)' <= Cardinality(Ids)
      BY <1>1, <1>5
    <3> QED
      BY <1>1, <2>9, <3>1, <3>2, <3>3 DEF Batched
  <2>11. RowsIn'
    BY <1>1 DEF RowsIn
  <2>12. Pool'
    BY <1>1, <1>2, <1>3, <2>2, <2>3, <2>7 DEF Core, Pool, ActiveStages
  <2>13. Closing'
    BY <1>1, <1>2, <2>7 DEF Closing, ActiveStages
  <2> QED
    BY <1>4, <2>5, <2>6, <2>8, <2>10, <2>11, <2>12, <2>13 DEF Core
<1>7. CASE ~Admits(batch[c])
  <2>1. pc' = [pc EXCEPT ![c] = "returning"] /\ queue' = queue
    BY <1>7
  <2>2. CallerTypes'
    BY <1>1, <2>1 DEF CallerTypes, Stages, ActiveStages
  <2>3. PoolTypes'
    BY <1>1, <2>1 DEF PoolTypes, Busy
  <2>4. \A d \in Callers : pc'[d] = IF d = c THEN "returning" ELSE pc[d]
    BY <2>1 DEF CallerTypes
  <2>5. OneActive' /\ RowsIn'
    BY <1>1, <1>2, <2>4 DEF OneActive, ActiveStages, RowsIn
  <2>6. Batched'
    <3>1. \A d \in Callers : pc'[d] # "collecting"
      BY <1>2, <2>4 DEF ActiveStages
    <3>2. Quiet'
      BY <1>1, <1>3, <2>1 DEF Quiet, Busy
    <3>3. Len(received)' <= Cardinality(Ids)
      BY <1>1, <1>5
    <3> QED
      BY <3>1, <3>2, <3>3 DEF Batched
  <2>7. Pool'
    BY <1>1, <1>2, <1>3, <2>1, <2>4 DEF Core, Pool, ActiveStages
  <2>8. Closing'
    BY <1>1, <1>2, <2>4 DEF Closing, ActiveStages
  <2> QED
    BY <1>4, <2>2, <2>3, <2>5, <2>6, <2>7, <2>8 DEF Core
<1> QED
  BY <1>6, <1>7

LEMMA ReceiveStep ==
  ASSUME IInv, NEW c \in Callers, Receive(c)
  PROVE  IInv'
<1> USE DEF IInv, Receive, pyVars, poolVars
<1>1. /\ pc[c] = "collecting" /\ pc[c] \in ActiveStages
      /\ UNCHANGED <<pc, batch, bindings, lock, gil, py, native, queue, handles, worker>>
  BY DEF ActiveStages
<1>2. /\ \A d \in Callers : d # c => pc[d] \notin ActiveStages
      /\ Conserved(batch[c])
  BY <1>1, Alone DEF Core, Batched
<1>3. /\ responses \in Seq(Outcomes) /\ received \in Seq(Outcomes)
      /\ responses # << >> /\ Len(responses) \in Nat /\ Len(responses) > 0
      /\ Len(received) \in Nat
  BY DEF PoolTypes
<1>4. /\ responses' \in Seq(Outcomes) /\ received' \in Seq(Outcomes)
      /\ Len(responses') = Len(responses) - 1 /\ Len(received') = Len(received) + 1
      /\ \A i \in 1..Len(responses') : responses'[i] = responses[i + 1]
      /\ \A i \in 1..Len(received) : received'[i] = received[i]
      /\ received'[Len(received) + 1] = responses[1]
  BY <1>3
<1>5. CallerTypes' /\ BatchFinite'
  BY <1>1 DEF CallerTypes, BatchFinite
<1>6. PoolTypes'
  BY <1>1, <1>4 DEF PoolTypes, Busy
<1>7. /\ \A i \in 1..Len(responses') : i + 1 \in 1..Len(responses)
      /\ \A i \in 1..Len(received') : i \in 1..Len(received) \/ i = Len(received) + 1
      /\ 1 \in 1..Len(responses)
  BY <1>3, <1>4
<1>8. Conserved(batch[c])'
  <2> USE DEF Conserved
  <2>1. Within(batch[c])'
    BY <1>1, <1>2, <1>4, <1>7 DEF Within, Busy
  <2>2. Distinct'
    <3>1. \A i, j \in 1..Len(responses') :
            responses'[i].binding = responses'[j].binding => i = j
      BY <1>2, <1>3, <1>4, <1>7 DEF Distinct
    <3>2. \A i, j \in 1..Len(received') :
            received'[i].binding = received'[j].binding => i = j
      BY <1>2, <1>4, <1>7 DEF Distinct, Apart
    <3> QED
      BY <1>1, <1>2, <3>1, <3>2 DEF Distinct, Busy
  <2>3. Apart'
    <3>1. \A i \in 1..Len(responses'), j \in 1..Len(received') :
            responses'[i].binding # received'[j].binding
      <4> SUFFICES ASSUME NEW i \in 1..Len(responses'), NEW j \in 1..Len(received')
                   PROVE  responses'[i].binding # received'[j].binding
        OBVIOUS
      <4>1. responses'[i] = responses[i + 1] /\ i + 1 \in 1..Len(responses) /\ i + 1 # 1
        BY <1>4, <1>7
      <4>2. CASE j = Len(received) + 1
        BY <1>2, <1>4, <1>7, <4>1, <4>2 DEF Distinct
      <4>3. CASE j \in 1..Len(received)
        BY <1>2, <1>4, <4>1, <4>3 DEF Apart
      <4> QED
        BY <1>7, <4>2, <4>3
    <3>2. /\ \A i \in 1..Len(queue), j \in 1..Len(responses') :
               queue[i].binding # responses'[j].binding
          /\ \A i \in 1..Len(queue), j \in 1..Len(received') :
               queue[i].binding # received'[j].binding
      BY <1>2, <1>4, <1>7 DEF Apart
    <3>3. /\ \A w \in Workers, j \in 1..Len(responses') :
               Busy(w) => worker[w].task # responses'[j].binding
          /\ \A w \in Workers, j \in 1..Len(received') :
               Busy(w) => worker[w].task # received'[j].binding
      BY <1>2, <1>4, <1>7 DEF Apart
    <3> QED
      BY <1>1, <1>2, <3>1, <3>2, <3>3 DEF Apart, Busy
  <2> QED
    BY <2>1, <2>2, <2>3
<1>9. Batched'
  <2>1. Len(received') <= Cardinality(Ids)
    <3>1. /\ IsFiniteSet(batch[c]) /\ batch[c] \subseteq Binding
          /\ \A a, b \in batch[c] : a.id = b.id => a = b
      BY DEF BatchFinite, CallerTypes
    <3>2. Len(received') <= Cardinality(batch[c])
      BY <1>1, <1>4, <1>8, <3>1, RowsOfBatch DEF Conserved, Within, Distinct
    <3>3. Cardinality(batch[c]) <= Cardinality(Ids)
      BY <3>1, BatchNoLargerThanIds
    <3>4. Cardinality(batch[c]) \in Nat /\ Cardinality(Ids) \in Nat
      BY <3>1, FS_CardinalityType, RuntimeAssumption
    <3> QED
      BY <1>3, <1>4, <3>2, <3>3, <3>4
  <2>2. \A d \in Callers : pc[d] = "collecting" => d = c
    BY <1>2 DEF ActiveStages
  <2> QED
    BY <1>1, <1>8, <2>1, <2>2 DEF Core, Batched
<1>10. OneActive' /\ Pool' /\ Closing'
  BY <1>1 DEF Core, OneActive, Pool, Closing, Unjoined
<1>11. RowsIn'
  BY <1>1, <1>2 DEF RowsIn, ActiveStages
<1> QED
  BY <1>5, <1>6, <1>9, <1>10, <1>11 DEF Core

\* When all rows of the batch are in, nothing of it is left in the pool, and the
\* pool's channel is empty.
LEMMA AllRowsIn ==
  ASSUME IInv, NEW c \in Callers, pc[c] = "collecting",
         Len(received) = Cardinality(batch[c])
  PROVE  /\ {received[i].binding : i \in DOMAIN received} = batch[c]
         /\ queue = << >>
         /\ \A w \in Workers : ~Busy(w)
<1> USE DEF IInv
<1>1. Within(batch[c]) /\ Distinct /\ Apart
  BY DEF Core, Batched, Conserved
<1>2. /\ IsFiniteSet(batch[c]) /\ received \in Seq(Outcomes) /\ queue \in Seq(Messages)
      /\ DOMAIN received = 1..Len(received) /\ Len(queue) \in Nat
  BY DEF BatchFinite, PoolTypes
<1>3. \A b \in batch[c] : \E i \in 1..Len(received) : received[i].binding = b
  BY <1>1, <1>2, RowsOfBatch DEF Within, Distinct
<1>4. {received[i].binding : i \in DOMAIN received} = batch[c]
  <2>1. \A i \in 1..Len(received) : received[i].binding \in batch[c]
    BY <1>1 DEF Within
  <2>2. \A b \in batch[c] : \E i \in DOMAIN received : received[i].binding = b
    BY <1>2, <1>3, Zenon
  <2>3. \A i \in DOMAIN received : received[i].binding \in batch[c]
    BY <1>2, <2>1, Zenon
  <2> QED
    BY <2>2, <2>3
<1>5. \A w \in Workers : ~Busy(w)
  BY <1>1, <1>3 DEF Within, Apart
<1>6. 1 \notin 1..Len(queue)
  BY <1>1, <1>3 DEF Within, Apart
<1>7. queue = << >>
  BY <1>2, <1>6
<1> QED
  BY <1>4, <1>5, <1>7

LEMMA CollectedStep ==
  ASSUME IInv, NEW c \in Callers, Collected(c)
  PROVE  IInv'
<1> USE DEF IInv, Collected, pyVars
<1>1. /\ pc[c] = "collecting" /\ pc[c] \in ActiveStages
      /\ UNCHANGED <<batch, bindings, lock, gil, py, handles, worker, responses, received>>
  BY DEF ActiveStages
<1>2. /\ ~native.closed /\ native.active /\ ~py.closed
      /\ \A d \in Callers : d # c => pc[d] \notin ActiveStages \cup {"joining", "closed"}
  BY <1>1, Alone DEF Core, Closing, ActiveStages
<1>3. /\ {received[i].binding : i \in DOMAIN received} = batch[c]
      /\ queue = << >>
      /\ \A w \in Workers : ~Busy(w)
      /\ Len(received) = Cardinality(batch[c])
  BY <1>1, AllRowsIn
<1>4. native.sender /\ handles = Workers
  BY <1>1, <1>2 DEF Core, Pool, ActiveStages
<1>5. BatchFinite'
  BY <1>1 DEF BatchFinite
<1>6. Len(received)' <= Cardinality(Ids)
  BY <1>1 DEF Core, Batched
<1>7. CASE MustRecover
  <2> DEFINE q == [i \in 1..Cardinality(Workers) |-> Shutdown]
  <2>1. /\ pc' = [pc EXCEPT ![c] = "recovering"]
        /\ native' = [native EXCEPT !.poisoned = FALSE, !.sender = FALSE]
        /\ queue' = Stopped(queue)
    BY <1>7
  <2>2. Cardinality(Workers) \in Nat
    BY FS_CardinalityType, RuntimeAssumption
  <2>3. q \in Seq(Messages) /\ \A i \in 1..Len(q) : q[i].kind = "shutdown"
    <3>1. Shutdown \in Messages /\ Shutdown.kind = "shutdown"
      BY DEF Shutdown, Messages
    <3> HIDE DEF Shutdown
    <3> QED
      BY <2>2, <3>1
  <2>4. queue' = q
    BY <1>3, <1>4, <2>1, <2>3 DEF Stopped
  <2> HIDE DEF q
  <2>5. /\ native' \in NativeType /\ native'.closed = native.closed
        /\ native'.active = native.active /\ native'.generation = native.generation
        /\ native'.poisoned = FALSE /\ native'.sender = FALSE
    BY <2>1 DEF PoolTypes, NativeType
  <2>6. CallerTypes'
    BY <1>1, <2>1 DEF CallerTypes, Stages, ActiveStages
  <2>7. PoolTypes'
    <3>1. \A i \in 1..Len(queue') : queue'[i].kind # "execute"
      BY <2>3, <2>4
    <3> QED
      BY <1>1, <2>3, <2>4, <2>5, <3>1 DEF PoolTypes, Busy
  <2>8. \A d \in Callers : pc'[d] = IF d = c THEN "recovering" ELSE pc[d]
    BY <2>1 DEF CallerTypes
  <2>9. OneActive' /\ RowsIn'
    BY <1>1, <1>2, <1>3, <2>5, <2>8 DEF OneActive, ActiveStages, RowsIn
  <2>10. Batched'
    <3>1. \A d \in Callers : pc'[d] # "collecting"
      BY <1>2, <2>8 DEF ActiveStages
    <3>2. Quiet'
      BY <1>1, <1>3, <2>3, <2>4 DEF Quiet, Busy
    <3> QED
      BY <1>6, <3>1, <3>2 DEF Batched
  <2>11. Pool'
    BY <1>2, <2>5, <2>8 DEF Pool, ActiveStages
  <2>12. Closing'
    BY <1>1, <1>2, <2>5, <2>8 DEF Closing, ActiveStages
  <2> QED
    BY <1>5, <2>6, <2>7, <2>9, <2>10, <2>11, <2>12 DEF Core
<1>8. CASE ~MustRecover
  <2>1. pc' = [pc EXCEPT ![c] = "returning"] /\ native' = native /\ queue' = queue
    BY <1>8
  <2>2. CallerTypes'
    BY <1>1, <2>1 DEF CallerTypes, Stages, ActiveStages
  <2>3. PoolTypes'
    BY <1>1, <2>1 DEF PoolTypes, Busy
  <2>4. \A d \in Callers : pc'[d] = IF d = c THEN "returning" ELSE pc[d]
    BY <2>1 DEF CallerTypes
  <2>5. OneActive'
    BY <1>1, <1>2, <2>1, <2>4 DEF OneActive, ActiveStages
  <2>6. RowsIn'
    BY <1>1, <1>2, <1>3, <2>4 DEF RowsIn, ActiveStages
  <2>7. Batched'
    <3>1. \A d \in Callers : pc'[d] # "collecting"
      BY <1>2, <2>4 DEF ActiveStages
    <3>2. Quiet'
      BY <1>1, <1>3, <2>1 DEF Quiet, Busy
    <3> QED
      BY <1>6, <3>1, <3>2 DEF Batched
  <2>8. Pool'
    BY <1>1, <1>2, <1>3, <1>4, <1>8, <2>1, <2>4 DEF Core, Pool, ActiveStages, MustRecover
  <2>9. Closing'
    BY <1>1, <1>2, <2>1, <2>4 DEF Closing, ActiveStages
  <2> QED
    BY <1>5, <2>2, <2>3, <2>5, <2>6, <2>7, <2>8, <2>9 DEF Core
<1> QED
  BY <1>7, <1>8

LEMMA RecoverStep ==
  ASSUME IInv, NEW c \in Callers, Recover(c) \/ RecoverFails(c)
  PROVE  IInv'
<1> USE DEF IInv, pyVars
<1>1. /\ pc[c] = "recovering" /\ pc[c] \in ActiveStages /\ queue' = << >>
      /\ UNCHANGED <<batch, bindings, lock, gil, py, responses, received>>
  BY DEF Recover, RecoverFails, ActiveStages
<1>2. /\ ~native.closed /\ native.active /\ ~py.closed /\ ~native.sender
      /\ \A d \in Callers : d # c => pc[d] \notin ActiveStages \cup {"joining", "closed"}
  BY <1>1, Alone DEF Core, Closing, Pool, ActiveStages
<1>3. \A w \in Workers : ~Busy(w)
  BY <1>1, <1>2 DEF Core, Batched, Quiet, ActiveStages
<1>4. BatchFinite' /\ Len(received)' <= Cardinality(Ids)
  BY <1>1 DEF BatchFinite, Core, Batched
<1>5. NewWorker \in WorkerType
  BY DEF NewWorker, WorkerType
<1>6. CASE Recover(c)
  <2>1. /\ pc' = [pc EXCEPT ![c] = "returning"] /\ handles' = Workers
        /\ worker' = [w \in Workers |-> NewWorker]
        /\ native' = [native EXCEPT !.poisoned = FALSE, !.sender = TRUE]
    BY <1>6 DEF Recover
  <2>2. /\ native' \in NativeType /\ native'.closed = native.closed
        /\ native'.active = native.active
        /\ native'.poisoned = FALSE /\ native'.sender = TRUE
    BY <2>1 DEF PoolTypes, NativeType
  <2>3. \A w \in Workers : worker'[w].state = "waiting" /\ ~worker'[w].tainted
    BY <2>1 DEF NewWorker
  <2>4. CallerTypes'
    BY <1>1, <2>1 DEF CallerTypes, Stages, ActiveStages
  <2>5. PoolTypes'
    BY <1>1, <1>5, <2>1, <2>2, <2>3 DEF PoolTypes, Busy
  <2>6. \A d \in Callers : pc'[d] = IF d = c THEN "returning" ELSE pc[d]
    BY <2>1 DEF CallerTypes
  <2>7. OneActive'
    BY <1>1, <1>2, <2>2, <2>6 DEF OneActive, ActiveStages
  <2>8. RowsIn'
    BY <1>1, <1>2, <2>6 DEF Core, RowsIn, ActiveStages
  <2>9. Batched'
    BY <1>1, <1>2, <1>4, <2>3, <2>6 DEF Batched, Quiet, Busy, ActiveStages
  <2>10. Pool'
    BY <1>1, <1>2, <2>1, <2>2, <2>3, <2>6 DEF Pool, ActiveStages
  <2>11. Closing'
    BY <1>1, <1>2, <2>2, <2>6 DEF Closing, ActiveStages
  <2> QED
    BY <1>4, <2>4, <2>5, <2>7, <2>8, <2>9, <2>10, <2>11 DEF Core
<1>7. CASE RecoverFails(c)
  <2>1. /\ pc' = [pc EXCEPT ![c] = "failing"] /\ handles' = {}
        /\ native' = [native EXCEPT !.closed = TRUE]
    BY <1>7 DEF RecoverFails
  <2>2. PICK spawned \in SUBSET Workers :
          worker' = [w \in Workers |-> IF w \in spawned THEN NewWorker ELSE worker[w]]
    BY <1>7 DEF RecoverFails
  <2>3. /\ native' \in NativeType /\ native'.closed = TRUE
        /\ native'.active = native.active
        /\ native'.poisoned = native.poisoned /\ native'.sender = native.sender
    BY <2>1 DEF PoolTypes, NativeType
  <2>4. worker' \in [Workers -> WorkerType] /\ \A w \in Workers : ~Busy(w)'
    BY <1>3, <1>5, <2>2 DEF PoolTypes, NewWorker, Busy
  <2>5. CallerTypes'
    BY <1>1, <2>1 DEF CallerTypes, Stages, ActiveStages
  <2>6. PoolTypes'
    BY <1>1, <2>1, <2>3, <2>4 DEF PoolTypes
  <2>7. \A d \in Callers : pc'[d] = IF d = c THEN "failing" ELSE pc[d]
    BY <2>1 DEF CallerTypes
  <2>8. OneActive' /\ RowsIn'
    BY <1>1, <1>2, <2>3, <2>7 DEF OneActive, RowsIn, ActiveStages
  <2>9. Batched'
    BY <1>1, <1>2, <1>4, <2>4, <2>7 DEF Batched, Quiet, ActiveStages
  <2>10. Pool'
    BY <1>1, <1>2, <2>3, <2>7 DEF Core, Pool, ActiveStages
  <2>11. Closing'
    BY <1>1, <1>2, <2>1, <2>7 DEF Closing, ActiveStages
  <2> QED
    BY <1>4, <2>5, <2>6, <2>8, <2>9, <2>10, <2>11 DEF Core
<1> QED
  BY <1>6, <1>7

-----------------------------------------------------------------------------
(* Steps of reset and close *)

LEMMA ResetNativeStep ==
  ASSUME IInv, NEW c \in Callers, ResetNative(c)
  PROVE  IInv'
<1> USE DEF IInv, ResetNative, Goes, pyVars, poolVars
<1>1. /\ pc[c] = "resetting"
      /\ UNCHANGED <<batch, bindings, gil, py, queue, handles, worker, responses, received>>
      /\ lock' \in {lock, NoCaller}
  OBVIOUS
<1>2. BatchFinite'
  BY <1>1 DEF BatchFinite
<1>3. CASE native.closed \/ native.active
  <2>1. pc' = [pc EXCEPT ![c] = "idle"] /\ UNCHANGED native
    BY <1>3
  <2>2. CallerTypes'
    BY <1>1, <2>1 DEF CallerTypes, Stages, OutsideStages
  <2>3. PoolTypes'
    BY <1>1, <2>1 DEF PoolTypes, Busy
  <2> QED
    BY <1>1, <1>2, <2>1, <2>2, <2>3, OutsideStep DEF CallerTypes, OutsideStages
<1>4. CASE ~(native.closed \/ native.active)
  <2>1. /\ pc' = [pc EXCEPT ![c] = "clearing"]
        /\ native' = [native EXCEPT !.canceled = FALSE, !.generation = @ + 1]
    BY <1>4
  <2>2. /\ native' \in NativeType
        /\ native'.closed = native.closed /\ native'.active = native.active
        /\ native'.poisoned = native.poisoned /\ native'.sender = native.sender
    <3>1. native \in NativeType
      BY DEF PoolTypes
    <3> HIDE DEF IInv, ResetNative
    <3>2. native.generation + 1 \in Nat
      BY <3>1 DEF NativeType
    <3>3. native' = [closed |-> native.closed, active |-> native.active,
                     generation |-> native.generation + 1, canceled |-> FALSE,
                     poisoned |-> native.poisoned, sender |-> native.sender]
      BY <2>1, <3>1 DEF NativeType
    <3> QED
      BY <3>1, <3>2, <3>3 DEF NativeType
  <2>3. CallerTypes'
    BY <1>1, <2>1 DEF CallerTypes, Stages, OutsideStages
  <2>4. PoolTypes'
    BY <1>1, <2>2 DEF PoolTypes, Busy
  <2>5. \A d \in Callers : pc[d] \notin ActiveStages \cup {"joining", "closed"}
    BY <1>4 DEF Core, OneActive, Closing
  <2>6. \A d \in Callers : pc'[d] \notin ActiveStages \cup {"joining", "closed"}
    BY <2>1, <2>5 DEF CallerTypes, ActiveStages
  <2>7. OneActive' /\ RowsIn'
    BY <2>6 DEF OneActive, RowsIn, ActiveStages
  <2>8. Batched'
    BY <1>1, <2>5, <2>6 DEF Core, Batched, Quiet, Busy, ActiveStages
  <2>9. Pool'
    BY <1>1, <2>2, <2>5, <2>6 DEF Core, Pool, ActiveStages
  <2>10. Closing'
    BY <1>1, <1>4, <2>2, <2>6 DEF Core, Closing, ActiveStages
  <2> QED
    BY <1>2, <2>3, <2>4, <2>7, <2>8, <2>9, <2>10 DEF Core
<1> QED
  BY <1>3, <1>4

\* The close of an idle runtime: as many shutdown messages as there are workers
\* to join, and nothing else in the channel.
LEMMA CloseNativeStep ==
  ASSUME IInv, NEW c \in Callers, CloseNative(c)
  PROVE  IInv'
<1> USE DEF IInv, CloseNative, Goes
<1>1. /\ pc[c] = "closing" /\ gil = NoCaller
      /\ UNCHANGED <<batch, bindings, py, handles, worker, responses, received>>
      /\ lock' \in {lock, NoCaller}
  OBVIOUS
<1>2. BatchFinite'
  BY <1>1 DEF BatchFinite
<1>3. \A d \in Callers : pc[d] # "joining"
  BY <1>1, RuntimeAssumption DEF Core, Closing
<1>4. CASE native.active
  <2>1. pc' = [pc EXCEPT ![c] = "idle"] /\ UNCHANGED <<gil, native, queue>>
    BY <1>4
  <2>2. CallerTypes'
    BY <1>1, <2>1 DEF CallerTypes, Stages, OutsideStages
  <2>3. PoolTypes'
    BY <1>1, <2>1 DEF PoolTypes, Busy
  <2> QED
    BY <1>1, <1>2, <2>1, <2>2, <2>3, OutsideStep DEF CallerTypes, OutsideStages
<1>5. CASE ~native.active
  <2>1. \A d \in Callers : pc[d] \notin ActiveStages \cup {"joining"}
    BY <1>3, <1>5 DEF Core, OneActive
  <2>2. Quiet
    BY <2>1 DEF Core, Batched, ActiveStages
  <2>3. CASE native.closed
    <3>1. pc' = [pc EXCEPT ![c] = "closed"] /\ UNCHANGED <<gil, native, queue>>
      BY <1>5, <2>3
    <3>2. CallerTypes'
      BY <1>1, <3>1 DEF CallerTypes, Stages
    <3>3. PoolTypes'
      BY <1>1, <3>1 DEF PoolTypes, Busy
    <3>4. \A d \in Callers : pc'[d] \notin ActiveStages \cup {"joining"}
      BY <2>1, <3>1 DEF CallerTypes, ActiveStages
    <3>5. OneActive' /\ RowsIn'
      BY <3>4 DEF OneActive, RowsIn, ActiveStages
    <3>6. Batched'
      BY <1>1, <2>2, <3>1, <3>4 DEF Core, Batched, Quiet, Busy, ActiveStages
    <3>7. Pool'
      BY <1>1, <2>1, <2>3, <3>1, <3>4 DEF Core, Pool, ActiveStages
    <3>8. handles = {} /\ queue = << >>
      BY <1>3, <2>3 DEF Core, Closing
    <3>9. Closing'
      BY <1>1, <1>5, <2>3, <3>1, <3>4, <3>8 DEF Closing, ActiveStages
    <3> QED
      BY <1>2, <3>2, <3>3, <3>5, <3>6, <3>7, <3>9 DEF Core
  <2>4. CASE ~native.closed
    <3> DEFINE q == [i \in 1..Cardinality(Workers) |-> Shutdown]
    <3>1. /\ pc' = [pc EXCEPT ![c] = "joining"] /\ gil' = c
          /\ native' = [native EXCEPT !.closed = TRUE, !.sender = FALSE]
          /\ queue' = Stopped(queue)
      BY <1>5, <2>4
    <3>2. /\ native.sender /\ handles = Workers /\ queue = << >>
          /\ \A w \in Workers : worker[w].state = "waiting" /\ ~worker[w].tainted
      BY <2>1, <2>4, IdlePool DEF ActiveStages
    <3>3. Cardinality(Workers) \in Nat
      BY FS_CardinalityType, RuntimeAssumption
    <3>4. /\ q \in Seq(Messages) /\ Len(q) = Cardinality(Workers)
          /\ \A i \in 1..Len(q) : q[i].kind = "shutdown"
      <4>1. Shutdown \in Messages /\ Shutdown.kind = "shutdown"
        BY DEF Shutdown, Messages
      <4> HIDE DEF Shutdown
      <4> QED
        BY <3>3, <4>1
    <3>5. queue' = q
      BY <3>1, <3>2, <3>4 DEF Stopped
    <3> HIDE DEF q
    <3>6. /\ native' \in NativeType /\ native'.closed = TRUE
          /\ native'.active = FALSE /\ native'.generation = native.generation
          /\ native'.poisoned = native.poisoned /\ native'.sender = FALSE
      BY <1>5, <3>1 DEF PoolTypes, NativeType
    <3>7. CallerTypes'
      BY <1>1, <3>1 DEF CallerTypes, Stages
    <3>8. PoolTypes'
      <4>1. \A i \in 1..Len(queue') : queue'[i].kind # "execute"
        BY <3>4, <3>5
      <4> QED
        BY <1>1, <3>4, <3>5, <3>6, <4>1 DEF PoolTypes, Busy
    <3>9. \A d \in Callers : pc'[d] = IF d = c THEN "joining" ELSE pc[d]
      BY <3>1 DEF CallerTypes
    <3>10. \A d \in Callers : pc'[d] \notin ActiveStages
      BY <2>1, <3>9 DEF ActiveStages
    <3>11. OneActive' /\ RowsIn'
      BY <3>10 DEF OneActive, RowsIn, ActiveStages
    <3>12. Batched'
      <4>1. Quiet'
        BY <1>1, <3>2, <3>4, <3>5 DEF Quiet, Busy
      <4> QED
        BY <1>1, <3>10, <4>1 DEF Core, Batched, ActiveStages
    <3>13. Pool'
      BY <1>1, <2>1, <3>6, <3>10 DEF Core, Pool, ActiveStages
    <3>14. Unjoined' = Workers
      BY <1>1, <3>2 DEF Unjoined
    <3>15. Closing'
      <4>1. \A d \in Callers : pc[d] # "closed"
        BY <2>4 DEF Core, Closing
      <4>2. ~py.closed
        BY <2>4 DEF Core, Closing
      <4> QED
        BY <1>1, <1>3, <3>1, <3>2, <3>4, <3>5, <3>6, <3>9, <3>10, <3>14, <4>1, <4>2
        DEF Closing, ActiveStages
    <3> QED
      BY <1>2, <3>7, <3>8, <3>11, <3>12, <3>13, <3>15 DEF Core
  <2> QED
    BY <2>3, <2>4
<1> QED
  BY <1>4, <1>5

LEMMA CloseJoinStep ==
  ASSUME IInv, NEW c \in Callers, CloseJoin(c)
  PROVE  IInv'
<1> USE DEF IInv, CloseJoin, pyVars
<1>1. /\ pc[c] = "joining" /\ AllJoined /\ handles' = {} /\ gil' = NoCaller
      /\ pc' = [pc EXCEPT ![c] = "closed"]
      /\ UNCHANGED <<batch, bindings, lock, py, native, queue, worker, responses, received>>
  OBVIOUS
<1>2. /\ native.closed /\ ~native.active /\ handles = Workers /\ gil = c
      /\ Len(queue) = Cardinality(Unjoined)
  BY <1>1 DEF Core, Closing
<1>3. Unjoined = {}
  BY <1>1, <1>2 DEF AllJoined, Unjoined
<1>4. queue = << >>
  BY <1>2, <1>3, FS_EmptySet DEF PoolTypes
<1>5. CallerTypes' /\ BatchFinite'
  BY <1>1 DEF CallerTypes, Stages, BatchFinite
<1>6. PoolTypes'
  BY <1>1 DEF PoolTypes, Busy
<1>7. \A d \in Callers : pc[d] \notin ActiveStages /\ (pc[d] = "joining" => d = c)
  BY <1>2 DEF Core, OneActive, Closing
<1>8. \A d \in Callers : pc'[d] \notin ActiveStages \cup {"joining"}
  BY <1>1, <1>7 DEF CallerTypes, ActiveStages
<1>9. OneActive' /\ RowsIn'
  BY <1>8 DEF OneActive, RowsIn, ActiveStages
<1>10. Batched'
  BY <1>1, <1>7, <1>8 DEF Core, Batched, Quiet, Busy, ActiveStages
<1>11. Pool'
  BY <1>1, <1>2, <1>7, <1>8 DEF Core, Pool, ActiveStages
<1>12. Closing'
  BY <1>1, <1>2, <1>4, <1>8 DEF Closing, ActiveStages
<1> QED
  BY <1>5, <1>6, <1>9, <1>10, <1>11, <1>12 DEF Core

LEMMA CloseEndStep ==
  ASSUME IInv, NEW c \in Callers, CloseEnd(c)
  PROVE  IInv'
<1> USE DEF IInv, CloseEnd, Goes, poolVars
<1>1. /\ pc[c] = "closed" /\ pc' = [pc EXCEPT ![c] = "idle"]
      /\ py' = [py EXCEPT !.closed = TRUE] /\ lock' = NoCaller
      /\ UNCHANGED <<batch, bindings, gil, native, queue, handles, worker, responses, received>>
  OBVIOUS
<1>2. native.closed /\ ~native.active /\ handles = {} /\ queue = << >>
  BY <1>1 DEF Core, Closing
<1>3. CallerTypes' /\ BatchFinite'
  BY <1>1 DEF CallerTypes, PyType, Stages, OutsideStages, BatchFinite
<1>4. PoolTypes'
  BY <1>1 DEF PoolTypes, Busy
<1>5. \A d \in Callers : pc[d] \notin ActiveStages \cup {"joining"}
  BY <1>2, RuntimeAssumption DEF Core, OneActive, Closing
<1>6. \A d \in Callers : pc'[d] \notin ActiveStages \cup {"joining"}
  BY <1>1, <1>5 DEF CallerTypes, ActiveStages
<1>7. OneActive' /\ RowsIn'
  BY <1>6 DEF OneActive, RowsIn, ActiveStages
<1>8. Batched'
  BY <1>1, <1>5, <1>6 DEF Core, Batched, Quiet, Busy, ActiveStages
<1>9. Pool'
  BY <1>1, <1>2, <1>5, <1>6 DEF Core, Pool, ActiveStages
<1>10. Closing'
  BY <1>1, <1>2, <1>6 DEF Closing, ActiveStages
<1> QED
  BY <1>3, <1>4, <1>7, <1>8, <1>9, <1>10 DEF Core

-----------------------------------------------------------------------------
(* Steps of a worker *)

\* A worker has a task, or a task is queued, only while a batch is collected.
LEMMA TaskHasBatch ==
  ASSUME IInv,
         (\E w \in Workers : Busy(w)) \/ \E i \in 1..Len(queue) : queue[i].kind = "execute"
  PROVE  \E c \in Callers :
           /\ pc[c] = "collecting" /\ pc[c] \in ActiveStages
           /\ \A d \in Callers : d # c => pc[d] \notin ActiveStages \cup {"joining", "closed"}
           /\ Conserved(batch[c]) /\ ~py.closed /\ native.sender /\ ~native.closed
<1>1. PICK c \in Callers : pc[c] = "collecting"
  BY DEF IInv, Core, Batched, Quiet
<1>2. pc[c] \in ActiveStages
  BY <1>1 DEF ActiveStages
<1>3. /\ \A d \in Callers : d # c => pc[d] \notin ActiveStages \cup {"joining", "closed"}
      /\ ~py.closed
  BY <1>2, Alone
<1>4. Conserved(batch[c]) /\ ~native.closed
  BY <1>1 DEF IInv, Core, Batched, Closing, ActiveStages
<1>5. native.sender
  BY <1>1, <1>3, <1>4 DEF IInv, Core, Pool, ActiveStages
<1> QED
  BY <1>1, <1>2, <1>3, <1>4, <1>5

\* No step of a worker changes what the callers know.
LEMMA WorkerFrame ==
  ASSUME IInv, UNCHANGED <<callerVars, received>>, native'.active = native.active
  PROVE  CallerTypes' /\ BatchFinite' /\ OneActive' /\ RowsIn'
<1> USE DEF IInv, Core, callerVars, pyVars
<1>1. UNCHANGED <<pc, batch, bindings, lock, gil, py, received>>
  OBVIOUS
<1>2. CallerTypes' /\ BatchFinite'
  BY <1>1 DEF CallerTypes, BatchFinite
<1>3. OneActive' /\ RowsIn'
  BY <1>1 DEF OneActive, RowsIn
<1> QED
  BY <1>2, <1>3

LEMMA TakeStep ==
  ASSUME IInv, NEW w \in Workers, Take(w)
  PROVE  IInv'
<1> USE DEF IInv, Take, callerVars, pyVars
<1>1. /\ worker[w].state = "waiting" /\ queue # << >> /\ queue' = Tail(queue)
      /\ UNCHANGED <<pc, batch, bindings, lock, gil, py, native, handles, responses, received>>
  OBVIOUS
<1>2. CallerTypes' /\ BatchFinite' /\ OneActive' /\ RowsIn'
  BY <1>1, WorkerFrame
<1>3. /\ queue \in Seq(Messages) /\ Len(queue) \in Nat /\ Len(queue) > 0
      /\ 1 \in 1..Len(queue) /\ Head(queue) = queue[1] /\ queue[1] \in Messages
  BY <1>1 DEF PoolTypes
<1>4. /\ queue' \in Seq(Messages) /\ Len(queue') = Len(queue) - 1
      /\ \A i \in 1..Len(queue') :
           queue'[i] = queue[i + 1] /\ i + 1 \in 1..Len(queue) /\ i + 1 # 1
  BY <1>1, <1>3
<1> DEFINE state == IF queue[1].kind = "shutdown" THEN "exited" ELSE "holding"
<1>5. /\ worker' \in [Workers -> WorkerType]
      /\ worker'[w].state = state /\ worker'[w].task = queue[1].binding
      /\ worker'[w].tainted = worker[w].tainted
      /\ \A v \in Workers : v # w => worker'[v] = worker[v]
  <2>1. worker' = [worker EXCEPT ![w].state = state, ![w].task = queue[1].binding]
    BY <1>3
  <2> HIDE DEF state, Take, IInv
  <2>2. worker \in [Workers -> WorkerType]
    BY DEF IInv, PoolTypes
  <2>3. state \in {"waiting", "holding", "running", "exited"}
    BY DEF state
  <2>4. queue[1].binding \in Binding \cup {NoBinding}
    BY <1>3 DEF Messages
  <2>5. \A v \in Workers : v # w => worker'[v] = worker[v]
    BY <2>1, <2>2
  <2>6. /\ worker'[w].state = state /\ worker'[w].task = queue[1].binding
        /\ worker'[w].tainted = worker[w].tainted
    BY <2>1, <2>2 DEF WorkerType
  <2>7. worker' \in [Workers -> WorkerType]
    BY <2>1, <2>2, <2>3, <2>4 DEF WorkerType
  <2> QED
    BY <2>5, <2>6, <2>7
<1> HIDE DEF Take
<1>6. CASE queue[1].kind = "execute"
  <2>1. PICK c \in Callers :
          /\ pc[c] = "collecting" /\ pc[c] \in ActiveStages
          /\ \A d \in Callers : d # c => pc[d] \notin ActiveStages \cup {"joining", "closed"}
          /\ Conserved(batch[c]) /\ ~py.closed /\ native.sender /\ ~native.closed
    BY <1>3, <1>6, TaskHasBatch
  <2>2. worker'[w].state = "holding"
    BY <1>5, <1>6
  <2>3. \A v \in Workers : /\ v # w => (Busy(v)' <=> Busy(v)) /\ worker'[v] = worker[v]
                           /\ Busy(w)' /\ ~Busy(w)
    BY <1>1, <1>5, <2>2 DEF Busy
  <2>4. PoolTypes'
    <3>1. \A v \in Workers : Busy(v)' => worker'[v].task \in Binding
      BY <1>3, <1>5, <1>6, <2>3 DEF PoolTypes
    <3>2. \A i \in 1..Len(queue') : queue'[i].kind = "execute" => queue'[i].binding \in Binding
      BY <1>4 DEF PoolTypes
    <3> QED
      BY <1>1, <1>4, <1>5, <3>1, <3>2 DEF PoolTypes
  <2>5. Conserved(batch[c])'
    <3>1. Within(batch[c])'
      BY <1>1, <1>3, <1>4, <1>5, <2>1, <2>3 DEF Conserved, Within
    <3>2. Distinct'
      <4>1. \A i, j \in 1..Len(queue') : queue'[i].binding = queue'[j].binding => i = j
        BY <1>3, <1>4, <2>1 DEF Conserved, Distinct
      <4>2. \A v \in Workers : v # w /\ Busy(v) => worker[v].task # queue[1].binding
        BY <1>3, <2>1 DEF Conserved, Apart
      <4>3. \A u, v \in Workers :
              Busy(u)' /\ Busy(v)' /\ worker'[u].task = worker'[v].task => u = v
        BY <1>5, <2>1, <2>3, <4>2 DEF Conserved, Distinct
      <4> QED
        BY <1>1, <2>1, <4>1, <4>3 DEF Conserved, Distinct
    <3>3. Apart'
      <4>1. \A i \in 1..Len(queue') : queue'[i].binding # queue[1].binding
        BY <1>3, <1>4, <2>1 DEF Conserved, Distinct
      <4>2. \A i \in 1..Len(queue'), v \in Workers :
              Busy(v)' => queue'[i].binding # worker'[v].task
        BY <1>4, <1>5, <2>1, <2>3, <4>1 DEF Conserved, Apart
      <4>3. /\ \A i \in 1..Len(queue'), j \in 1..Len(responses) :
                 queue'[i].binding # responses[j].binding
            /\ \A i \in 1..Len(queue'), j \in 1..Len(received) :
                 queue'[i].binding # received[j].binding
        <5>1. /\ \A i \in 1..Len(queue), j \in 1..Len(responses) :
                   queue[i].binding # responses[j].binding
              /\ \A i \in 1..Len(queue), j \in 1..Len(received) :
                   queue[i].binding # received[j].binding
          BY <2>1 DEF Conserved, Apart
        <5> QED
          BY <1>4, <5>1
      <4>4. /\ \A v \in Workers, j \in 1..Len(responses) :
                 Busy(v)' => worker'[v].task # responses[j].binding
            /\ \A v \in Workers, j \in 1..Len(received) :
                 Busy(v)' => worker'[v].task # received[j].binding
        BY <1>3, <1>5, <2>1, <2>3 DEF Conserved, Apart
      <4> QED
        BY <1>1, <2>1, <4>2, <4>3, <4>4 DEF Conserved, Apart
    <3> QED
      BY <3>1, <3>2, <3>3 DEF Conserved
  <2>6. Batched'
    <3>1. \A d \in Callers : pc[d] = "collecting" => d = c
      BY <2>1 DEF ActiveStages
    <3> QED
      BY <1>1, <2>1, <2>5, <3>1 DEF Core, Batched
  <2>7. Pool'
    <3>1. \A v \in Workers : worker'[v].state # "exited" /\ worker'[v].tainted = worker[v].tainted
      BY <1>5, <2>1, <2>2 DEF Core, Pool
    <3>2. \A i \in 1..Len(queue') : queue'[i].kind = "execute"
      BY <1>4, <2>1 DEF Core, Pool
    <3> QED
      BY <1>1, <3>1, <3>2 DEF Core, Pool
  <2>8. Closing'
    BY <1>1, <2>1 DEF Core, Closing, ActiveStages
  <2> QED
    BY <1>2, <2>4, <2>6, <2>7, <2>8 DEF Core
<1>7. CASE queue[1].kind # "execute"
  <2>1. queue[1].kind = "shutdown" /\ worker'[w].state = "exited"
    BY <1>3, <1>5, <1>7 DEF Messages
  <2>2. ~native.sender /\ \A d \in Callers : pc[d] # "collecting"
    BY <1>3, <1>7 DEF Core, Pool, Batched, Conserved, Within
  <2>3. Quiet
    BY <2>2 DEF Core, Batched
  <2>4. \A v \in Workers : ~Busy(v)'
    BY <1>5, <2>1, <2>3 DEF Quiet, Busy
  <2>5. \A i \in 1..Len(queue') : queue'[i].kind # "execute"
    BY <1>4, <2>3 DEF Quiet
  <2>6. PoolTypes'
    BY <1>1, <1>4, <1>5, <2>4, <2>5 DEF PoolTypes
  <2>7. Batched'
    BY <1>1, <2>2, <2>4, <2>5 DEF Core, Batched, Quiet
  <2>8. Pool'
    BY <1>1, <1>5, <2>2 DEF Core, Pool
  <2>9. Cardinality(Unjoined)' = Cardinality(Unjoined) - 1
    <3>1. Unjoined' = Unjoined \ {w} /\ w \in Unjoined
      BY <1>1, <1>5, <2>1 DEF Unjoined
    <3>2. IsFiniteSet(Unjoined)
      BY FS_Subset, RuntimeAssumption DEF Unjoined
    <3> QED
      BY <3>1, <3>2, FS_RemoveElement
  <2>10. Closing'
    <3>1. native.closed => \E c \in Callers : pc[c] = "joining"
      BY <1>1 DEF Core, Closing
    <3>2. ~(py.closed \/ \E c \in Callers : pc[c] = "closed")
      BY <1>1 DEF Core, Closing
    <3>3. \A c \in Callers : pc[c] = "joining" => Len(queue') = Cardinality(Unjoined)'
      BY <1>3, <1>4, <2>9 DEF Core, Closing
    <3> QED
      BY <1>1, <3>1, <3>2, <3>3 DEF Core, Closing
  <2> QED
    BY <1>2, <2>6, <2>7, <2>8, <2>10 DEF Core
<1> QED
  BY <1>6, <1>7

LEMMA OrphanedStep ==
  ASSUME IInv, NEW w \in Workers, Orphaned(w)
  PROVE  IInv'
<1> USE DEF IInv, Orphaned, callerVars, pyVars
<1>1. /\ worker[w].state = "waiting" /\ handles = {}
      /\ worker' = [worker EXCEPT ![w].state = "exited"]
      /\ UNCHANGED <<pc, batch, bindings, lock, gil, py, native, queue, handles,
                     responses, received>>
  OBVIOUS
<1>2. CallerTypes' /\ BatchFinite' /\ OneActive' /\ RowsIn'
  BY <1>1, WorkerFrame
<1>3. /\ worker' \in [Workers -> WorkerType]
      /\ \A v \in Workers : /\ Busy(v)' <=> Busy(v)
                            /\ worker'[v].task = worker[v].task
                            /\ worker'[v].tainted = worker[v].tainted
  BY <1>1 DEF PoolTypes, WorkerType, Busy
<1>4. PoolTypes'
  BY <1>1, <1>3 DEF PoolTypes
<1>5. ~native.sender
  BY <1>1, RuntimeAssumption DEF Core, Pool
<1>6. \A c \in Callers : pc[c] \notin {"collecting", "joining"}
  BY <1>1, <1>5, RuntimeAssumption DEF Core, Pool, Closing, OneActive, ActiveStages
<1>7. Batched'
  BY <1>1, <1>3, <1>6 DEF Core, Batched, Quiet
<1>8. Pool'
  BY <1>1, <1>3, <1>5 DEF Core, Pool
<1>9. Closing'
  BY <1>1, <1>6 DEF Core, Closing
<1> QED
  BY <1>2, <1>4, <1>7, <1>8, <1>9 DEF Core

LEMMA StartStep ==
  ASSUME IInv, NEW w \in Workers, Start(w)
  PROVE  IInv'
<1> USE DEF IInv, Start, callerVars, pyVars
<1>1. /\ worker[w].state = "holding"
      /\ worker' = [worker EXCEPT ![w].state = "running"]
      /\ UNCHANGED <<pc, batch, bindings, lock, gil, py, native, queue, handles,
                     responses, received>>
  OBVIOUS
<1>2. CallerTypes' /\ BatchFinite' /\ OneActive' /\ RowsIn'
  BY <1>1, WorkerFrame
<1>3. /\ worker' \in [Workers -> WorkerType]
      /\ \A v \in Workers : /\ Busy(v)' <=> Busy(v)
                            /\ worker'[v].task = worker[v].task
                            /\ worker'[v].tainted = worker[v].tainted
                            /\ worker'[v].state = "exited" <=> worker[v].state = "exited"
  <2>1. worker \in [Workers -> WorkerType]
    BY DEF PoolTypes
  <2>2. [worker[w] EXCEPT !.state = "running"] \in WorkerType
    BY <2>1 DEF WorkerType
  <2>3. worker' \in [Workers -> WorkerType]
    BY <1>1, <2>1, <2>2
  <2>4. ASSUME NEW v \in Workers
        PROVE  /\ Busy(v)' <=> Busy(v)
               /\ worker'[v].task = worker[v].task
               /\ worker'[v].tainted = worker[v].tainted
               /\ worker'[v].state = "exited" <=> worker[v].state = "exited"
    <3>1. CASE v = w
      <4>1. worker'[v] = [worker[v] EXCEPT !.state = "running"]
        BY <1>1, <2>1, <3>1
      <4>2. worker[v].state = "holding" /\ worker[v] \in WorkerType
        BY <1>1, <2>1, <3>1
      <4> QED BY <4>1, <4>2 DEF WorkerType, Busy
    <3>2. CASE v # w
      <4>1. worker'[v] = worker[v]
        BY <1>1, <2>1, <3>2
      <4> QED BY <4>1 DEF Busy
    <3> QED BY <3>1, <3>2
  <2> QED BY <2>3, <2>4
<1>4. PoolTypes'
  BY <1>1, <1>3 DEF PoolTypes
<1>5. Batched'
  <2>1. Quiet' <=> Quiet
    BY <1>1, <1>3 DEF Quiet
  <2>2. \A c \in Callers : Conserved(batch[c])' <=> Conserved(batch[c])
    BY <1>1, <1>3 DEF Conserved, Within, Distinct, Apart
  <2> QED
    BY <1>1, <2>1, <2>2 DEF Core, Batched
<1>6. Pool'
  BY <1>1, <1>3 DEF Core, Pool
<1>7. Closing'
  <2>1. Unjoined' = Unjoined
    BY <1>3 DEF Unjoined
  <2> QED
    BY <1>1, <2>1 DEF Core, Closing
<1> QED
  BY <1>2, <1>4, <1>5, <1>6, <1>7 DEF Core

\* The end of a task, whatever its outcome: a panic has marked the pool.
LEMMA RespondsStep ==
  ASSUME IInv, NEW w \in Workers, Busy(w),
         NEW status \in {"ok", "failed", "panicked", "canceled"},
         Responds(w, status),
         UNCHANGED <<callerVars, queue, handles, received>>,
         native' \in NativeType,
         native'.closed = native.closed, native'.active = native.active,
         native'.generation = native.generation, native'.sender = native.sender,
         native'.poisoned = native.poisoned \/ native'.poisoned = TRUE,
         status = "panicked" => native'.poisoned = TRUE
  PROVE  IInv'
<1> USE DEF IInv, callerVars, pyVars
<1> DEFINE row == [binding |-> worker[w].task, status |-> status]
<1>1. /\ UNCHANGED <<pc, batch, bindings, lock, gil, py, queue, handles, received>>
      /\ responses' = Append(responses, row)
  BY DEF Responds
<1>2. CallerTypes' /\ BatchFinite' /\ OneActive' /\ RowsIn'
  BY WorkerFrame
<1>3. row \in Outcomes
  BY DEF Outcomes, PoolTypes
<1>4. /\ responses' \in Seq(Outcomes) /\ Len(responses) \in Nat
      /\ Len(responses') = Len(responses) + 1
      /\ \A i \in 1..Len(responses) : responses'[i] = responses[i]
      /\ responses'[Len(responses) + 1].binding = worker[w].task
      /\ \A i \in 1..Len(responses') :
           i \in 1..Len(responses) \/ i = Len(responses) + 1
  BY <1>1, <1>3 DEF PoolTypes
<1>5. /\ worker' \in [Workers -> WorkerType]
      /\ worker'[w].state = "waiting"
      /\ worker'[w].tainted => worker[w].tainted \/ status = "panicked"
      /\ \A v \in Workers : v # w => worker'[v] = worker[v]
  <2>1. worker' = [worker EXCEPT ![w].state = "waiting", ![w].task = NoBinding,
                                 ![w].tainted = worker[w].tainted \/ status = "panicked"]
    BY DEF Responds
  <2>2. worker \in [Workers -> WorkerType]
    BY DEF PoolTypes
  <2> HIDE DEF IInv
  <2>3. (worker[w].tainted \/ status = "panicked") \in BOOLEAN
    OBVIOUS
  <2>4. worker' \in [Workers -> WorkerType]
    BY <2>1, <2>2, <2>3, ZenonT(30) DEF WorkerType
  <2> QED
    BY <2>1, <2>2, <2>4 DEF WorkerType
<1>6. \A v \in Workers :
        Busy(v)' => v # w /\ Busy(v) /\ worker'[v].task = worker[v].task
  BY <1>5 DEF Busy
<1>7. PoolTypes'
  BY <1>1, <1>4, <1>5, <1>6 DEF PoolTypes
<1>8. PICK c \in Callers :
        /\ pc[c] = "collecting" /\ pc[c] \in ActiveStages
        /\ \A d \in Callers : d # c => pc[d] \notin ActiveStages \cup {"joining", "closed"}
        /\ Conserved(batch[c]) /\ ~py.closed /\ native.sender /\ ~native.closed
  BY TaskHasBatch
<1>9. Conserved(batch[c])'
  <2>1. Within(batch[c])'
    BY <1>1, <1>4, <1>6, <1>8 DEF Conserved, Within
  <2>2. Distinct'
    <3>1. \A i \in 1..Len(responses) : responses[i].binding # worker[w].task
      BY <1>8 DEF Conserved, Apart
    <3>2. \A i, j \in 1..Len(responses') :
            responses'[i].binding = responses'[j].binding => i = j
      BY <1>4, <1>8, <3>1 DEF Conserved, Distinct
    <3> QED
      BY <1>1, <1>6, <1>8, <3>2 DEF Conserved, Distinct
  <2>3. Apart'
    <3>1. \A i \in 1..Len(queue) : queue[i].binding # worker[w].task
      BY <1>8 DEF Conserved, Apart
    <3>2. \A i \in 1..Len(received) : received[i].binding # worker[w].task
      BY <1>8 DEF Conserved, Apart
    <3>3. \A v \in Workers : Busy(v)' => worker'[v].task # worker[w].task
      BY <1>6, <1>8 DEF Conserved, Distinct
    <3>4. \A i \in 1..Len(queue), j \in 1..Len(responses') :
            queue[i].binding # responses'[j].binding
      BY <1>4, <1>8, <3>1 DEF Conserved, Apart
    <3>5. \A i \in 1..Len(responses'), j \in 1..Len(received) :
            responses'[i].binding # received[j].binding
      BY <1>4, <1>8, <3>2 DEF Conserved, Apart
    <3>6. \A v \in Workers, j \in 1..Len(responses') :
            Busy(v)' => worker'[v].task # responses'[j].binding
      BY <1>4, <1>6, <1>8, <3>3 DEF Conserved, Apart
    <3> QED
      BY <1>1, <1>6, <1>8, <3>4, <3>5, <3>6 DEF Conserved, Apart
  <2> QED
    BY <2>1, <2>2, <2>3 DEF Conserved
<1>10. Batched'
  <2>1. \A d \in Callers : pc[d] = "collecting" => d = c
    BY <1>8 DEF ActiveStages
  <2> QED
    BY <1>1, <1>8, <1>9, <2>1 DEF Core, Batched
<1>11. Pool'
  <2>1. \A v \in Workers : worker'[v].state # "exited"
    BY <1>5, <1>8 DEF Core, Pool
  <2>2. \A v \in Workers : worker'[v].tainted => native'.poisoned
    BY <1>5, <1>8 DEF Core, Pool
  <2> QED
    BY <1>1, <1>8, <2>1, <2>2 DEF Core, Pool
<1>12. Closing'
  BY <1>1, <1>8 DEF Core, Closing, ActiveStages
<1> QED
  BY <1>2, <1>7, <1>10, <1>11, <1>12 DEF Core

LEMMA FinishStep ==
  ASSUME IInv, NEW w \in Workers, SkipCanceled(w) \/ Finish(w) \/ Panic(w)
  PROVE  IInv'
<1>1. native \in NativeType
  BY DEF IInv, PoolTypes
<1>2. CASE SkipCanceled(w)
  BY <1>1, <1>2, RespondsStep DEF SkipCanceled, Busy
<1>3. CASE Finish(w)
  <2>1. PICK status \in {"ok", "failed"} : Responds(w, status)
    BY <1>3 DEF Finish
  <2> QED
    BY <1>1, <1>3, <2>1, RespondsStep DEF Finish, Busy
<1>4. CASE Panic(w)
  <2>1. /\ native' \in NativeType /\ native'.poisoned = TRUE
        /\ native'.closed = native.closed /\ native'.active = native.active
        /\ native'.generation = native.generation /\ native'.sender = native.sender
    BY <1>1, <1>4 DEF Panic, NativeType
  <2> QED
    BY <1>4, <2>1, RespondsStep DEF Panic, FailedRow, Busy
<1> QED
  BY <1>2, <1>3, <1>4

-----------------------------------------------------------------------------
(* The theorems *)

LEMMA NextIInv == IInv /\ [Next]_vars => IInv'
<1> SUFFICES ASSUME IInv, [Next]_vars PROVE IInv'
  OBVIOUS
<1>1. CASE UNCHANGED vars
  BY <1>1 DEF vars, pyVars, poolVars, IInv, CallerTypes, PoolTypes, BatchFinite, Core,
              OneActive, Batched, Quiet, Conserved, Within, Distinct, Apart, RowsIn,
              Pool, Closing, Unjoined, Busy
<1>2. ASSUME NEW c \in Callers, Begins(c) PROVE IInv'
  BY <1>2, BindStep, ValidateStep, CancelStep, LockStep DEF Begins
<1>3. ASSUME NEW c \in Callers, Continues(c) PROVE IInv'
  BY <1>3, BindStep, EnterStep, ExecuteScoreStep, SendStep, ReceiveStep, CollectedStep,
     RecoverStep, ReturnStep, CancelStep, ResetNativeStep, LockStep, CloseNativeStep,
     CloseJoinStep, CloseEndStep DEF Continues
<1>4. ASSUME NEW w \in Workers, Works(w) PROVE IInv'
  BY <1>4, TakeStep, OrphanedStep, StartStep, FinishStep DEF Works
<1> QED
  BY <1>1, <1>2, <1>3, <1>4 DEF Next

THEOREM InvariantTheorem == Spec => []IInv
BY InitIInv, NextIInv, PTL DEF Spec

\* The state of the adapter, the runtime and its pool has its types, and a batch
\* never has more rows than there are candidates.
THEOREM TypeCorrect == Spec => []TypeOK
<1>1. IInv => TypeOK
  <2> SUFFICES ASSUME IInv PROVE TypeOK
    OBVIOUS
  <2>1. py.active_batches \in {0, 1}
    BY DEF IInv, CallerTypes, PyType
  <2>2. \A w \in Workers : worker[w].state \in {"waiting", "holding", "running", "exited"}
    BY DEF IInv, PoolTypes, WorkerType
  <2> QED
    BY <2>1, <2>2 DEF IInv, CallerTypes, PoolTypes, Core, Batched, TypeOK
<1> QED
  BY <1>1, InvariantTheorem, PTL

\* No task of an earlier generation is queued or held by a worker, however the
\* calls of the threads interleave with a reset.
THEOREM StaleNeverRunsTheorem == Spec => []StaleNeverRuns
<1>1. IInv => StaleNeverRuns
  <2> SUFFICES ASSUME IInv PROVE StaleNeverRuns
    OBVIOUS
  <2>1. DOMAIN queue = 1..Len(queue)
    BY DEF IInv, PoolTypes
  <2>2. CASE \E c \in Callers : pc[c] = "collecting"
    <3>1. PICK c \in Callers : pc[c] = "collecting"
      BY <2>2
    <3>2. /\ Within(batch[c])
          /\ \A b \in batch[c] : b.native_generation = native.generation
      BY <3>1 DEF IInv, Core, Batched, Conserved
    <3> QED
      BY <2>1, <3>2 DEF Within, Busy, StaleNeverRuns
  <2>3. CASE \A c \in Callers : pc[c] # "collecting"
    <3>1. Quiet
      BY <2>3 DEF IInv, Core, Batched
    <3> QED
      BY <2>1, <3>1 DEF Quiet, Busy, StaleNeverRuns
  <2> QED
    BY <2>2, <2>3
<1> QED
  BY <1>1, InvariantTheorem, PTL

\* A batch that succeeds has exactly one row for each of its bindings.
THEOREM OneRowPerBindingTheorem == Spec => []OneRowPerBinding
<1>1. IInv => OneRowPerBinding
  BY DEF IInv, Core, RowsIn, OneRowPerBinding
<1> QED
  BY <1>1, InvariantTheorem, PTL

\* A batch that is let into the native runtime finds an empty channel and a
\* pool without a panicked, busy or missing worker.
THEOREM PoolCleanForBatchTheorem == Spec => []PoolCleanForBatch
<1>1. IInv => PoolCleanForBatch
  <2> SUFFICES ASSUME IInv, NEW c \in Callers, pc[c] = "detached"
               PROVE  /\ queue = << >>
                      /\ \A w \in Workers : worker[w].state = "waiting" /\ ~worker[w].tainted
    BY DEF PoolCleanForBatch
  <2>1. pc[c] \in ActiveStages /\ pc[c] \in ActiveStages \ {"failing"}
    BY DEF ActiveStages
  <2>2. ~native.closed
    BY <2>1 DEF IInv, Core, Closing
  <2>3. \A d \in Callers : pc[d] \notin {"collecting", "recovering"}
    BY <2>1, Alone DEF ActiveStages
  <2> QED
    BY <2>2, <2>3, IdlePool
<1> QED
  BY <1>1, InvariantTheorem, PTL

\* There is at most one batch, and a closed runtime has no task and no worker
\* that could take one.
THEOREM ClosedIsQuietTheorem == Spec => []ClosedIsQuiet
<1>1. IInv => ClosedIsQuiet
  <2> SUFFICES ASSUME IInv PROVE ClosedIsQuiet
    OBVIOUS
  <2> DEFINE S == {c \in Callers : pc[c] \in {"detached", "collecting", "recovering"}}
  <2>1. Cardinality(S) <= 1
    <3>1. \A c, d \in S : c = d
      BY DEF IInv, Core, OneActive, ActiveStages
    <3>2. CASE S = {}
      BY <3>2, FS_EmptySet
    <3>3. CASE S # {}
      <4>1. PICK c \in S : S = {c}
        BY <3>1, <3>3
      <4>2. Cardinality({c}) = 1
        BY FS_Singleton
      <4> QED
        BY <4>1, <4>2
    <3> QED
      BY <3>2, <3>3
  <2>2. ASSUME py.closed
        PROVE  /\ queue = << >>
               /\ \A w \in Workers : worker[w].state \in {"waiting", "exited"}
               /\ \A w \in handles : worker[w].state = "exited"
               /\ ~native.active
    <3>1. queue = << >> /\ ~native.active /\ handles = {}
      BY <2>2 DEF IInv, Core, Closing
    <3>2. \A c \in Callers : pc[c] # "collecting"
      BY <3>1 DEF IInv, Core, OneActive, ActiveStages
    <3>3. \A w \in Workers : ~Busy(w)
      BY <3>2 DEF IInv, Core, Batched, Quiet
    <3> QED
      BY <3>1, <3>3 DEF IInv, PoolTypes, WorkerType, Busy
  <2> QED
    BY <2>1, <2>2 DEF ClosedIsQuiet
<1> QED
  BY <1>1, InvariantTheorem, PTL
=============================================================================
