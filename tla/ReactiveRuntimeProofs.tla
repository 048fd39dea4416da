------------------------ MODULE ReactiveRuntimeProofs ------------------------
(***************************************************************************)
(* Proofs about the reactive walk-forward runtime and its forked worker,   *)
(* for any number of calls and keys, with and without a deadline.          *)
(***************************************************************************)
EXTENDS ReactiveRuntime, TLAPS

-----------------------------------------------------------------------------
(* Types *)

Requests == [kind : {"score", "close"}, id : 0..MaxScores]

Kinds == {"refused", "canceled", "raised", "exited", "eof", "stale", "row",
          "other", "budget"}

Stages == {"direct", "ready", "dispatch", "scoring", "opened", "published", "running",
           "finished", "closing", "ended"}

ParentType ==
  [pc : {"idle", "check", "send", "wait", "poll", "alive", "recv"},
   id : 0..MaxScores, next : 1..(MaxScores + 1),
   owned : 0..MaxScores, generation : 0..MaxScores, closed : BOOLEAN]

ChildType == [pc : {"none", "recv", "run", "exit", "dead"},
              task : 0..MaxScores, failed : BOOLEAN, killed : BOOLEAN]

WorkerType ==
  /\ parent \in ParentType
  /\ child \in [Generations -> ChildType]
  /\ request \in [Generations -> Seq(Requests)]
  /\ response \in [Generations -> Seq(Message)]
  /\ outcomes \in Seq([kind : Kinds, id : 0..MaxScores, of : 0..MaxScores])

RuntimeType ==
  /\ mode \in {"direct", "process", "inprocess"}
  /\ rpc \in Stages
  /\ rows \in 0..MaxScores /\ late \in 0..MaxScores
  /\ session \in [Keys -> {"none", "clean", "used"}]
  /\ key \in Keys \cup {NoKey}
  /\ active \in Keys \cup {NoKey} /\ signal \in {"none", "set"} \cup Keys

(* Every call that is not over has an outcome to come, and uses up at most  *)
(* one request id and one generation.                                       *)
Busy == parent.pc # "idle"

Counted ==
  /\ Len(outcomes) <= MaxScores
  /\ Busy => Len(outcomes) < MaxScores
  /\ parent.generation <= Len(outcomes) + (IF Busy THEN 1 ELSE 0)
  /\ parent.next <= Len(outcomes) + (IF parent.pc \in {"idle", "check"} THEN 1 ELSE 2)
  /\ parent.pc \notin {"idle", "check"} => parent.id > 0

(* The parent owns its newest child or none, and a call under way owns one; *)
(* any other child is dead, or on its way out.                              *)
Owned ==
  /\ parent.owned \in {0, parent.generation}
  /\ Busy => parent.owned # 0
  /\ parent.closed => ~Busy /\ parent.owned = 0
  /\ \A g \in Generations : g > parent.generation => child[g].pc = "none"
  /\ \A g \in Generations : Alive(g) => child[g].killed \/ g = parent.owned

FailedLeaves == \A g \in Generations : child[g].failed => child[g].pc \in {"exit", "dead"}

WorkerInv == WorkerType /\ Counted /\ Owned /\ FailedLeaves /\ RowOfItsOwnRequest

(* Who drives the worker, and when it is at rest.                           *)
Driven ==
  /\ rpc \in {"dispatch", "scoring", "opened", "published", "running", "finished"}
       => rows < MaxScores
  /\ mode = "direct" <=> rpc = "direct"
  /\ mode = "inprocess" => ~Busy /\ parent.owned = 0 /\ rpc # "scoring"
  /\ mode = "process" => /\ rpc # "scoring" => ~Busy
                         /\ parent.closed <=> rpc = "ended"

(* A late row is the last. *)
LateEnds ==
  /\ canceled \in BOOLEAN
  /\ late \in 0..1
  /\ late = 1 => canceled /\ rpc \in {"ready", "closing", "ended"}

IInv == WorkerInv /\ RuntimeType /\ Driven /\ LateEnds

LEMMA InitIInv == Init => IInv
<1> SUFFICES ASSUME Init PROVE IInv
  OBVIOUS
<1> USE WorkerAssumption, KeyAssumption DEF Init, WorkerInit
<1>1. WorkerType
  <2>1. parent \in ParentType
    BY DEF ParentType
  <2>2. child \in [Generations -> ChildType]
    BY DEF ChildType, NoChild
  <2>3. /\ request \in [Generations -> Seq(Requests)]
        /\ response \in [Generations -> Seq(Message)]
    OBVIOUS
  <2>4. outcomes \in Seq([kind : Kinds, id : 0..MaxScores, of : 0..MaxScores])
    OBVIOUS
  <2> QED
    BY <2>1, <2>2, <2>3, <2>4 DEF WorkerType
<1>2. RuntimeType /\ LateEnds
  <2>1. /\ mode \in {"direct", "process", "inprocess"} /\ rpc \in {"direct", "ready"}
        /\ rows = 0 /\ late = 0 /\ 0 \in 0..MaxScores
        /\ session \in [Keys -> {"none", "clean", "used"}]
        /\ key = NoKey /\ active = NoKey /\ signal = "none"
    OBVIOUS
  <2>2. RuntimeType
    BY <2>1 DEF RuntimeType, Stages
  <2>3. LateEnds
    <3>1. canceled \in BOOLEAN
      OBVIOUS
    <3>2. late \in 0..1 /\ late # 1
      BY <2>1
    <3> QED
      BY <3>1, <3>2 DEF LateEnds
  <2> QED
    BY <2>2, <2>3
<1>3. Counted /\ Owned /\ FailedLeaves /\ RowOfItsOwnRequest
  <2>1. Counted
    BY DEF Counted, Busy
  <2>2. \A g \in Generations : child[g].pc = "none" /\ child[g].failed = FALSE
    BY DEF NoChild
  <2>3. Owned
    BY <2>2 DEF Owned, Busy, Alive
  <2>4. FailedLeaves
    BY <2>2 DEF FailedLeaves
  <2>5. RowOfItsOwnRequest
    BY DEF RowOfItsOwnRequest
  <2> QED
    BY <2>1, <2>3, <2>4, <2>5
<1>4. Driven
  <2>1. /\ rpc \in {"direct", "ready"} /\ mode = "direct" <=> rpc = "direct"
        /\ parent.pc = "idle" /\ parent.owned = 0 /\ ~parent.closed
    OBVIOUS
  <2> QED
    BY <2>1 DEF Driven, Busy
<1> QED
  BY <1>1, <1>2, <1>3, <1>4 DEF IInv, WorkerInv

-----------------------------------------------------------------------------
(* Steps of the worker *)

\* The steps of a call under way, and those of the children.
CallStep == ParentStep \/ Interrupt

ChildMove(g) ==
  \/ ChildReceives(g) \/ ChildScores(g) \/ ChildFails(g) \/ ChildTears(g)
  \/ ChildExits(g) \/ Terminated(g) \/ Crash(g)

LEMMA ErrorKinds == Errors \subseteq {"other", "budget"}
  BY DEF Errors

\* An outcome of the call under way.
LEMMA ReportsType ==
  ASSUME WorkerType, NEW kind \in Kinds, NEW of \in 0..MaxScores,
         outcomes' = Append(outcomes, Outcome(kind, of))
  PROVE  /\ outcomes' \in Seq([kind : Kinds, id : 0..MaxScores, of : 0..MaxScores])
         /\ Len(outcomes') = Len(outcomes) + 1
<1>1. Outcome(kind, of) \in [kind : Kinds, id : 0..MaxScores, of : 0..MaxScores]
  BY DEF Outcome, WorkerType, ParentType
<1> QED
  BY <1>1 DEF WorkerType

\* The end of a call that gives its child up.
LEMMA DiscardType ==
  ASSUME WorkerType, Discard
  PROVE  /\ parent' \in ParentType /\ child' \in [Generations -> ChildType]
         /\ parent' = [parent EXCEPT !.pc = "idle", !.owned = 0]
         /\ \A g \in Generations :
              /\ child'[g].pc = child[g].pc /\ child'[g].failed = child[g].failed
              /\ child[g].killed => child'[g].killed
              /\ g = parent.owned /\ Alive(g) => child'[g].killed
<1>1. parent' \in ParentType
  <2>1. /\ parent \in ParentType /\ 0 \in 0..MaxScores
        /\ parent' = [parent EXCEPT !.pc = "idle", !.owned = 0]
    BY WorkerAssumption DEF WorkerType, Discard
  <2> QED
    BY <2>1 DEF ParentType
<1>2. CASE Alive(parent.owned)
  <2>1. child' = [child EXCEPT ![parent.owned].killed = TRUE] /\ parent.owned \in Generations
    BY <1>2, WorkerAssumption DEF Discard, Alive, WorkerType, ParentType, Generations
  <2>2. child' \in [Generations -> ChildType]
    BY <2>1 DEF WorkerType, ChildType
  <2>3. \A g \in Generations :
          /\ child'[g].pc = child[g].pc /\ child'[g].failed = child[g].failed
          /\ child[g].killed => child'[g].killed
          /\ g = parent.owned => child'[g].killed
    BY <2>1 DEF WorkerType, ChildType
  <2> QED
    BY <1>1, <2>2, <2>3 DEF Discard
<1>3. CASE ~Alive(parent.owned)
  BY <1>1, <1>3 DEF WorkerType, Discard
<1> QED
  BY <1>2, <1>3

-----------------------------------------------------------------------------
(* A step of a call does one of three things: it ends the call and gives    *)
(* the child up, it ends the call and keeps the child, or it goes on.       *)
Ended ==
  \E kind \in Kinds, of \in 0..MaxScores :
    /\ outcomes' = Append(outcomes, Outcome(kind, of))
    /\ kind = "row" => of = parent.id /\ parent.id > 0

EndsDiscarding == Busy /\ Ended /\ Discard
EndsKeeping == Busy /\ Ended /\ parent' = [parent EXCEPT !.pc = "idle"] /\ UNCHANGED child
GoesOn ==
  /\ UNCHANGED <<child, outcomes>>
  /\ \/ /\ parent.pc = "check"
        /\ parent' = [parent EXCEPT !.pc = "send", !.id = parent.next, !.next = @ + 1]
     \/ /\ parent.pc \notin {"idle", "check"}
        /\ \E pc \in {"wait", "poll", "alive", "recv"} : parent' = [parent EXCEPT !.pc = pc]

CallShape ==
  /\ request' \in [Generations -> Seq(Requests)]
  /\ response' \in [Generations -> Seq(Message)]
  /\ EndsDiscarding \/ EndsKeeping \/ GoesOn

LEMMA ReportEnds ==
  ASSUME WorkerType, NEW kind \in Kinds, kind # "row", Reports(kind)
  PROVE  Ended
<1>1. 0 \in 0..MaxScores
  BY WorkerAssumption
<1> QED
  BY <1>1 DEF Ended, Reports

LEMMA ReceiveShape ==
  ASSUME WorkerInv, Receive
  PROVE  CallShape
<1> DEFINE pipe == response[parent.owned]
           reply == Head(pipe)
<1>1. /\ WorkerType /\ Busy /\ parent.pc = "recv" /\ parent.id > 0
      /\ request' \in [Generations -> Seq(Requests)]
  BY DEF WorkerInv, WorkerType, Counted, Busy, Receive, At
<1>2. response' \in [Generations -> Seq(Message)]
  <2>1. \A g \in Generations : response[g] \in Seq(Message)
    BY <1>1 DEF WorkerType
  <2>2. \A g \in Generations : response[g] # << >> => Tail(response[g]) \in Seq(Message)
    BY <2>1
  <2>3. CASE pipe = << >>
    BY <1>1, <2>3 DEF Receive, WorkerType
  <2>4. CASE pipe # << >>
    <3>1. response' = [response EXCEPT ![parent.owned] = Tail(@)]
      BY <2>4 DEF Receive
    <3> QED
      BY <1>1, <2>2, <2>4, <3>1 DEF WorkerType
  <2> QED
    BY <2>3, <2>4
<1>3. CASE pipe = << >>
  <2>1. Discard /\ Reports("eof")
    BY <1>3 DEF Receive
  <2> QED
    BY <1>1, <1>2, <2>1, ReportEnds DEF CallShape, EndsDiscarding, Kinds
<1>4. CASE pipe # << >>
  <2>1. CASE reply.kind = "torn" /\ Goes("idle") /\ Reports("raised") /\ UNCHANGED child
    BY <1>1, <1>2, <2>1, ReportEnds DEF CallShape, EndsKeeping, Goes, Kinds
  <2>2. CASE Discard /\ Reports("stale")
    BY <1>1, <1>2, <2>2, ReportEnds DEF CallShape, EndsDiscarding, Kinds
  <2>3. CASE /\ Answers(reply) /\ Goes("idle") /\ UNCHANGED child
             /\ outcomes' = Append(outcomes, Outcome("row", reply.id))
    <3>1. reply.id = parent.id /\ parent.id \in 0..MaxScores
      BY <1>1, <2>3 DEF Answers, WorkerType, ParentType
    <3>2. Ended
      BY <1>1, <2>3, <3>1 DEF Ended, Kinds
    <3> QED
      BY <1>1, <1>2, <2>3, <3>2 DEF CallShape, EndsKeeping, Goes
  <2>4. CASE reply.kind \in Errors /\ Discard /\ Reports(reply.kind)
    <3>1. reply.kind \in Kinds /\ reply.kind # "row"
      BY <2>4, ErrorKinds DEF Kinds
    <3> QED
      BY <1>1, <1>2, <2>4, <3>1, ReportEnds DEF CallShape, EndsDiscarding
  <2> QED
    BY <1>4, <2>1, <2>2, <2>3, <2>4 DEF Receive
<1> QED
  BY <1>3, <1>4

LEMMA SendShape ==
  ASSUME WorkerInv, Send
  PROVE  CallShape
<1>1. /\ WorkerType /\ Busy /\ parent.pc = "send" /\ parent.id \in 0..MaxScores
      /\ response' \in [Generations -> Seq(Message)]
  BY DEF WorkerInv, WorkerType, ParentType, Busy, Send, At
<1>2. CASE Alive(parent.owned) /\ Goes("wait") /\ UNCHANGED outcomes
           /\ request' = [request EXCEPT ![parent.owned] =
                            Append(@, [kind |-> "score", id |-> parent.id])]
  <2>1. [kind |-> "score", id |-> parent.id] \in Requests
    BY <1>1 DEF Requests
  <2>2. \A g \in Generations :
          Append(request[g], [kind |-> "score", id |-> parent.id]) \in Seq(Requests)
    BY <1>1, <2>1 DEF WorkerType
  <2>3. request' \in [Generations -> Seq(Requests)]
    BY <1>1, <1>2, <2>2 DEF WorkerType
  <2> QED
    BY <1>1, <1>2, <2>3 DEF CallShape, GoesOn, Goes, Send
<1>3. CASE Goes("idle") /\ Reports("raised") /\ UNCHANGED request
  BY <1>1, <1>3, ReportEnds DEF CallShape, EndsKeeping, Goes, Kinds, Send, WorkerType
<1> QED
  BY <1>2, <1>3 DEF Send

LEMMA OtherShapes ==
  ASSUME WorkerInv, Check \/ Wait \/ Poll \/ LookAlive \/ Interrupt
  PROVE  CallShape
<1>1. /\ WorkerType /\ Busy /\ UNCHANGED <<request, response>>
      /\ request' \in [Generations -> Seq(Requests)]
      /\ response' \in [Generations -> Seq(Message)]
  BY DEF WorkerInv, WorkerType, Busy, Check, Wait, Poll, LookAlive, Interrupt, At
<1>2. CASE Check
  BY <1>1, <1>2, ReportEnds DEF Check, At, CallShape, EndsDiscarding, GoesOn, Kinds
<1>3. CASE Wait
  BY <1>1, <1>3, ReportEnds DEF Wait, At, Goes, CallShape, EndsDiscarding, GoesOn, Kinds
<1>4. CASE Poll
  BY <1>1, <1>4 DEF Poll, At, Goes, CallShape, GoesOn
<1>5. CASE LookAlive
  BY <1>1, <1>5, ReportEnds DEF LookAlive, At, Goes, CallShape, EndsDiscarding, GoesOn, Kinds
<1>6. CASE Interrupt
  BY <1>1, <1>6, ReportEnds DEF Interrupt, Goes, CallShape, EndsKeeping, Kinds
<1> QED
  BY <1>2, <1>3, <1>4, <1>5, <1>6

LEMMA CallStepShape ==
  ASSUME WorkerInv, CallStep
  PROVE  CallShape
  BY ReceiveShape, SendShape, OtherShapes DEF CallStep, ParentStep

-----------------------------------------------------------------------------
(* What each of the three leaves of the invariant.                          *)
LEMMA EndedKeeps ==
  ASSUME WorkerInv, Busy, Ended
  PROVE  /\ outcomes' \in Seq([kind : Kinds, id : 0..MaxScores, of : 0..MaxScores])
         /\ Len(outcomes') = Len(outcomes) + 1
         /\ Len(outcomes) \in Nat /\ Len(outcomes') <= MaxScores
         /\ RowOfItsOwnRequest'
<1>1. PICK kind \in Kinds, of \in 0..MaxScores :
        /\ outcomes' = Append(outcomes, Outcome(kind, of))
        /\ kind = "row" => of = parent.id /\ parent.id > 0
  BY DEF Ended
<1>2. /\ outcomes' \in Seq([kind : Kinds, id : 0..MaxScores, of : 0..MaxScores])
      /\ Len(outcomes') = Len(outcomes) + 1
  BY <1>1, ReportsType DEF WorkerInv
<1>3. Len(outcomes) \in Nat /\ Len(outcomes') <= MaxScores
  BY <1>2, WorkerAssumption DEF WorkerInv, WorkerType, Counted
<1>4. RowOfItsOwnRequest'
  <2> DEFINE new == Outcome(kind, of)
  <2>1. new.kind = kind /\ new.of = of /\ new.id = parent.id
    BY DEF Outcome
  <2> HIDE DEF new
  <2>2. /\ outcomes'[Len(outcomes) + 1] = new
        /\ \A i \in 1..Len(outcomes) : outcomes'[i] = outcomes[i]
    BY <1>1, <1>3 DEF WorkerInv, WorkerType, new
  <2> SUFFICES ASSUME NEW i \in 1..Len(outcomes'), outcomes'[i].kind = "row"
               PROVE  outcomes'[i].of = outcomes'[i].id /\ outcomes'[i].id > 0
    BY DEF RowOfItsOwnRequest
  <2>3. CASE i \in 1..Len(outcomes)
    BY <2>2, <2>3 DEF WorkerInv, RowOfItsOwnRequest
  <2>4. CASE i = Len(outcomes) + 1
    BY <1>1, <2>1, <2>2, <2>4
  <2> QED
    BY <1>2, <1>3, <2>3, <2>4
<1> QED
  BY <1>2, <1>3, <1>4

LEMMA EndsDiscardingKeeps ==
  ASSUME WorkerInv, CallShape, EndsDiscarding
  PROVE  WorkerInv'
<1>0. Busy /\ Ended /\ WorkerType
  BY DEF EndsDiscarding, WorkerInv
<1>1. /\ parent' \in ParentType /\ child' \in [Generations -> ChildType]
      /\ parent' = [parent EXCEPT !.pc = "idle", !.owned = 0]
      /\ \A g \in Generations :
           /\ child'[g].pc = child[g].pc /\ child'[g].failed = child[g].failed
           /\ child[g].killed => child'[g].killed
           /\ g = parent.owned /\ Alive(g) => child'[g].killed
  BY <1>0, DiscardType DEF EndsDiscarding
<1>2. /\ parent'.pc = "idle" /\ parent'.owned = 0
      /\ parent'.generation = parent.generation /\ parent'.next = parent.next
      /\ parent'.closed = parent.closed
  BY <1>0, <1>1 DEF WorkerType, ParentType
<1>3. WorkerType'
  BY <1>0, <1>1, EndedKeeps DEF CallShape, WorkerType
<1>4. Counted'
  <2>1. parent.generation \in Nat /\ parent.next \in Nat
    BY <1>0 DEF WorkerType, ParentType
  <2> QED
    BY <1>0, <1>2, <2>1, EndedKeeps DEF WorkerInv, Counted, Busy
<1>5. Owned'
  <2>1. \A g \in Generations : Alive(g)' => Alive(g)
    BY <1>1 DEF Alive
  <2> QED
    BY <1>0, <1>1, <1>2, <2>1 DEF WorkerInv, Owned, Busy
<1>6. FailedLeaves'
  BY <1>1 DEF WorkerInv, FailedLeaves
<1> QED
  BY <1>0, <1>3, <1>4, <1>5, <1>6, EndedKeeps DEF WorkerInv

LEMMA EndsKeepingKeeps ==
  ASSUME WorkerInv, CallShape, EndsKeeping
  PROVE  WorkerInv'
<1>0. Busy /\ Ended /\ WorkerType /\ UNCHANGED child
      /\ parent' = [parent EXCEPT !.pc = "idle"]
  BY DEF EndsKeeping, WorkerInv
<1>1. /\ parent' \in ParentType
      /\ parent'.pc = "idle" /\ parent'.owned = parent.owned
      /\ parent'.generation = parent.generation /\ parent'.next = parent.next
      /\ parent'.closed = parent.closed
  BY <1>0 DEF WorkerType, ParentType
<1>2. WorkerType'
  BY <1>0, <1>1, EndedKeeps DEF CallShape, WorkerType
<1>3. Counted'
  <2>1. parent.generation \in Nat /\ parent.next \in Nat
    BY <1>0 DEF WorkerType, ParentType
  <2> QED
    BY <1>0, <1>1, <2>1, EndedKeeps DEF WorkerInv, Counted, Busy
<1>4. Owned'
  BY <1>0, <1>1 DEF WorkerInv, Owned, Busy, Alive
<1>5. FailedLeaves'
  BY <1>0 DEF WorkerInv, FailedLeaves
<1> QED
  BY <1>0, <1>2, <1>3, <1>4, <1>5, EndedKeeps DEF WorkerInv

LEMMA GoesOnKeeps ==
  ASSUME WorkerInv, CallShape, GoesOn
  PROVE  WorkerInv'
<1>0. /\ WorkerType /\ UNCHANGED <<child, outcomes>> /\ Busy /\ Len(outcomes) \in Nat
      /\ MaxScores \in Nat
  BY WorkerAssumption DEF GoesOn, WorkerInv, WorkerType, Busy
<1>1. /\ parent \in ParentType /\ parent.next \in Nat /\ parent.next > 0
      /\ parent.generation \in Nat /\ Len(outcomes) < MaxScores
      /\ parent.generation <= Len(outcomes) + 1
  BY <1>0 DEF WorkerType, ParentType, WorkerInv, Counted
<1>2. /\ parent' \in ParentType
      /\ parent'.owned = parent.owned /\ parent'.generation = parent.generation
      /\ parent'.closed = parent.closed
      /\ parent'.pc \notin {"idle", "check"} /\ parent'.id > 0
      /\ parent'.next <= Len(outcomes) + 2
  <2>1. CASE parent.pc = "check" /\
             parent' = [parent EXCEPT !.pc = "send", !.id = parent.next, !.next = @ + 1]
    <3>1. parent.next <= Len(outcomes) + 1
      BY <1>0, <2>1 DEF WorkerInv, Counted
    <3>2. parent.next \in 0..MaxScores /\ parent.next + 1 \in 1..(MaxScores + 1)
          /\ parent.next + 1 <= Len(outcomes) + 2
      BY <1>0, <1>1, <3>1
    <3>3. /\ parent'.pc = "send" /\ parent'.id = parent.next /\ parent'.next = parent.next + 1
          /\ parent'.owned = parent.owned /\ parent'.generation = parent.generation
          /\ parent'.closed = parent.closed
      BY <1>1, <2>1 DEF ParentType
    <3>4. parent' \in ParentType
      BY <1>1, <2>1, <3>2 DEF ParentType
    <3>5. parent'.id > 0 /\ parent'.next <= Len(outcomes) + 2
      BY <1>1, <3>2, <3>3
    <3>6. parent'.pc \notin {"idle", "check"}
      BY <3>3
    <3> QED
      BY <3>3, <3>4, <3>5, <3>6
  <2>2. CASE parent.pc \notin {"idle", "check"} /\
             \E pc \in {"wait", "poll", "alive", "recv"} : parent' = [parent EXCEPT !.pc = pc]
    <3>1. PICK pc \in {"wait", "poll", "alive", "recv"} : parent' = [parent EXCEPT !.pc = pc]
      BY <2>2
    <3>2. parent.id > 0 /\ parent.next <= Len(outcomes) + 2
      BY <1>0, <2>2 DEF WorkerInv, Counted
    <3>3. /\ parent'.pc = pc /\ parent'.id = parent.id /\ parent'.next = parent.next
          /\ parent'.owned = parent.owned /\ parent'.generation = parent.generation
          /\ parent'.closed = parent.closed
      BY <1>1, <3>1 DEF ParentType
    <3>4. parent' \in ParentType
      BY <1>1, <3>1 DEF ParentType
    <3>5. parent'.pc \notin {"idle", "check"}
      BY <3>3
    <3>6. parent'.id > 0 /\ parent'.next <= Len(outcomes) + 2
      BY <3>2, <3>3
    <3> QED
      BY <3>3, <3>4, <3>5, <3>6
  <2> QED
    BY <2>1, <2>2 DEF GoesOn
<1>4. WorkerType'
  BY <1>0, <1>2 DEF CallShape, WorkerType
<1>5. Counted'
  <2>1. Len(outcomes') = Len(outcomes)
    BY <1>0
  <2>2. parent'.generation <= Len(outcomes') + 1 /\ parent'.next <= Len(outcomes') + 2
        /\ Len(outcomes') < MaxScores /\ Len(outcomes') <= MaxScores
    BY <1>0, <1>1, <1>2, <2>1
  <2> QED
    BY <1>2, <2>2 DEF Counted, Busy
<1>6. Owned' /\ FailedLeaves'
  BY <1>0, <1>2 DEF WorkerInv, Owned, Busy, Alive, FailedLeaves
<1>7. RowOfItsOwnRequest'
  BY <1>0 DEF WorkerInv, RowOfItsOwnRequest
<1> QED
  BY <1>4, <1>5, <1>6, <1>7 DEF WorkerInv

LEMMA CallStepKeeps ==
  ASSUME WorkerInv, CallStep
  PROVE  WorkerInv'
  BY CallStepShape, EndsDiscardingKeeps, EndsKeepingKeeps, GoesOnKeeps DEF CallShape

-----------------------------------------------------------------------------
(* A call begins, or the worker is closed.                                  *)
LEMMA RefusalKeeps ==
  ASSUME WorkerInv, Len(outcomes) < MaxScores,
         outcomes' = Append(outcomes, [kind |-> "refused", id |-> 0, of |-> 0])
  PROVE  /\ outcomes' \in Seq([kind : Kinds, id : 0..MaxScores, of : 0..MaxScores])
         /\ Len(outcomes) \in Nat /\ Len(outcomes') = Len(outcomes) + 1
         /\ Len(outcomes') <= MaxScores
         /\ RowOfItsOwnRequest'
<1> DEFINE refused == [kind |-> "refused", id |-> 0, of |-> 0]
<1>1. /\ outcomes \in Seq([kind : Kinds, id : 0..MaxScores, of : 0..MaxScores])
      /\ Len(outcomes) \in Nat
  BY DEF WorkerInv, WorkerType
<1>2. refused \in [kind : Kinds, id : 0..MaxScores, of : 0..MaxScores] /\ refused.kind # "row"
  BY WorkerAssumption DEF Kinds
<1> HIDE DEF refused
<1>3. /\ outcomes' \in Seq([kind : Kinds, id : 0..MaxScores, of : 0..MaxScores])
      /\ Len(outcomes') = Len(outcomes) + 1
      /\ outcomes'[Len(outcomes) + 1] = refused
      /\ \A i \in 1..Len(outcomes) : outcomes'[i] = outcomes[i]
  BY <1>1, <1>2 DEF refused
<1>4. Len(outcomes') <= MaxScores
  BY <1>1, <1>3, WorkerAssumption
<1>5. RowOfItsOwnRequest'
  <2> SUFFICES ASSUME NEW i \in 1..Len(outcomes'), outcomes'[i].kind = "row"
               PROVE  outcomes'[i].of = outcomes'[i].id /\ outcomes'[i].id > 0
    BY DEF RowOfItsOwnRequest
  <2>1. i # Len(outcomes) + 1
    BY <1>2, <1>3
  <2>2. i \in 1..Len(outcomes)
    BY <1>1, <1>3, <2>1
  <2> QED
    BY <1>3, <2>2 DEF WorkerInv, RowOfItsOwnRequest
<1> QED
  BY <1>1, <1>3, <1>4, <1>5

LEMMA ScoreKeeps ==
  ASSUME WorkerInv, Score
  PROVE  WorkerInv'
<1>0. /\ WorkerType /\ parent \in ParentType /\ parent.pc = "idle" /\ ~Busy
      /\ Len(outcomes) < MaxScores /\ Len(outcomes) \in Nat /\ MaxScores \in Nat
      /\ UNCHANGED <<request, response>>
      /\ parent.generation \in Nat /\ parent.next \in Nat
      /\ parent.generation <= Len(outcomes) /\ parent.next <= Len(outcomes) + 1
  BY WorkerAssumption DEF WorkerInv, WorkerType, ParentType, Score, At, Busy, Counted
<1>1. CASE parent.closed /\ UNCHANGED <<parent, child>> /\
           outcomes' = Append(outcomes, [kind |-> "refused", id |-> 0, of |-> 0])
  <2>1. WorkerType' /\ RowOfItsOwnRequest'
    BY <1>0, <1>1, RefusalKeeps DEF WorkerType
  <2>2. Counted'
    BY <1>0, <1>1, RefusalKeeps DEF Counted, Busy
  <2>3. Owned' /\ FailedLeaves'
    BY <1>1 DEF WorkerInv, Owned, Busy, Alive, FailedLeaves
  <2> QED
    BY <2>1, <2>2, <2>3 DEF WorkerInv
<1>2. CASE /\ ~parent.closed /\ Alive(parent.owned) /\ UNCHANGED <<child, outcomes>>
           /\ parent' = [parent EXCEPT !.pc = "check", !.id = 0]
  <2>1. /\ parent' \in ParentType /\ parent'.pc = "check"
        /\ parent'.owned = parent.owned /\ parent'.generation = parent.generation
        /\ parent'.next = parent.next /\ parent'.closed = parent.closed
    <3>1. parent' \in ParentType
      <4>1. 0 \in 0..MaxScores
        BY <1>0
      <4> QED
        BY <1>0, <1>2, <4>1 DEF ParentType
    <3>2. /\ parent'.pc = "check"
          /\ parent'.owned = parent.owned /\ parent'.generation = parent.generation
          /\ parent'.next = parent.next /\ parent'.closed = parent.closed
      BY <1>0, <1>2 DEF ParentType
    <3> QED
      BY <3>1, <3>2
  <2>2. WorkerType'
    BY <1>0, <1>2, <2>1 DEF WorkerType
  <2>3. Counted'
    <3>1. Len(outcomes') = Len(outcomes) /\ Len(outcomes) <= MaxScores
          /\ parent.generation <= Len(outcomes) + 1
      BY <1>0, <1>2
    <3> QED
      BY <1>0, <2>1, <3>1 DEF Counted, Busy
  <2>4. Owned' /\ FailedLeaves'
    BY <1>2, <2>1 DEF WorkerInv, Owned, Busy, Alive, FailedLeaves
  <2>5. RowOfItsOwnRequest'
    BY <1>2 DEF WorkerInv, RowOfItsOwnRequest
  <2> QED
    BY <2>2, <2>3, <2>4, <2>5 DEF WorkerInv
<1>3. CASE /\ parent' = [parent EXCEPT !.id = 0] /\ UNCHANGED child
           /\ outcomes' = Append(outcomes, [kind |-> "refused", id |-> 0, of |-> 0])
  <2>1. /\ parent' \in ParentType /\ parent'.pc = "idle"
        /\ parent'.owned = parent.owned /\ parent'.generation = parent.generation
        /\ parent'.next = parent.next /\ parent'.closed = parent.closed
    BY <1>0, <1>3, SMTT(20) DEF ParentType
  <2>2. WorkerType' /\ RowOfItsOwnRequest'
    BY <1>0, <1>3, <2>1, RefusalKeeps DEF WorkerType
  <2>3. Counted'
    BY <1>0, <1>3, <2>1, RefusalKeeps DEF Counted, Busy
  <2>4. Owned' /\ FailedLeaves'
    BY <1>0, <1>3, <2>1 DEF WorkerInv, Owned, Busy, Alive, FailedLeaves
  <2> QED
    BY <2>2, <2>3, <2>4 DEF WorkerInv
<1>4. CASE /\ ~parent.closed /\ ~Alive(parent.owned) /\ UNCHANGED outcomes
           /\ parent' = [parent EXCEPT !.pc = "check", !.id = 0, !.generation = @ + 1,
                                       !.owned = parent.generation + 1]
           /\ child' = [child EXCEPT ![parent.generation + 1] = [NoChild EXCEPT !.pc = "recv"]]
  <2> DEFINE forked == parent.generation + 1
             fresh == [NoChild EXCEPT !.pc = "recv"]
  <2>1. forked \in 1..MaxScores /\ forked \in 0..MaxScores /\ forked # 0 /\ forked \in Generations
    BY <1>0 DEF Generations
  <2>2. /\ parent' \in ParentType /\ parent'.pc = "check"
        /\ parent'.owned = forked /\ parent'.generation = forked
        /\ parent'.next = parent.next /\ parent'.closed = parent.closed
    <3>1. parent.generation + 1 = forked /\ 0 \in 0..MaxScores
      BY <1>0
    <3> HIDE DEF forked
    <3>2. parent' = [parent EXCEPT !.pc = "check", !.id = 0, !.generation = forked,
                                   !.owned = forked]
      BY <1>4, <3>1
    <3>3. parent' \in ParentType
      BY <1>0, <2>1, <3>1, <3>2 DEF ParentType
    <3>4. /\ parent'.pc = "check"
          /\ parent'.owned = forked /\ parent'.generation = forked
          /\ parent'.next = parent.next /\ parent'.closed = parent.closed
      BY <1>0, <3>2 DEF ParentType
    <3> QED
      BY <3>3, <3>4
  <2>3. fresh \in ChildType /\ fresh.failed = FALSE
    <3>1. 0 \in 0..MaxScores
      BY <1>0
    <3>2. NoChild \in ChildType /\ NoChild.failed = FALSE
      BY <3>1 DEF ChildType, NoChild
    <3> QED
      BY <3>2 DEF ChildType
  <2>4. /\ child' \in [Generations -> ChildType]
        /\ child'[forked] = fresh
        /\ \A g \in Generations : g # forked => child'[g] = child[g]
    BY <1>0, <1>4, <2>1, <2>3 DEF WorkerType
  <2> HIDE DEF fresh
  <2>5. WorkerType'
    BY <1>0, <1>4, <2>2, <2>4 DEF WorkerType
  <2>6. Counted'
    <3>1. forked <= Len(outcomes') + 1 /\ Len(outcomes') <= MaxScores
          /\ Len(outcomes') < MaxScores /\ parent.next <= Len(outcomes') + 1
      BY <1>0, <1>4
    <3> QED
      BY <2>2, <3>1 DEF Counted, Busy
  <2>7. Owned'
    <3>1. \A g \in Generations : g > forked => child'[g].pc = "none"
      <4> SUFFICES ASSUME NEW g \in Generations, g > forked
                   PROVE  child'[g].pc = "none"
        OBVIOUS
      <4>1. g > parent.generation /\ g # forked
        BY <1>0 DEF Generations
      <4> QED
        BY <2>4, <4>1 DEF WorkerInv, Owned
    <3>2. \A g \in Generations : Alive(g)' => child'[g].killed \/ g = forked
      <4> SUFFICES ASSUME NEW g \in Generations, Alive(g)', g # forked
                   PROVE  child'[g].killed
        OBVIOUS
      <4>1. child'[g] = child[g] /\ Alive(g)
        BY <2>4 DEF Alive
      <4> QED
        BY <1>4, <4>1 DEF WorkerInv, Owned
    <3> QED
      BY <1>4, <2>1, <2>2, <3>1, <3>2 DEF Owned, Busy
  <2>8. FailedLeaves'
    BY <2>3, <2>4 DEF WorkerInv, FailedLeaves
  <2>9. RowOfItsOwnRequest'
    BY <1>4 DEF WorkerInv, RowOfItsOwnRequest
  <2> QED
    BY <2>5, <2>6, <2>7, <2>8, <2>9 DEF WorkerInv
<1> QED
  BY <1>1, <1>2, <1>3, <1>4 DEF Score, Start

LEMMA CloseKeeps ==
  ASSUME WorkerInv, Close
  PROVE  WorkerInv'
<1>0. /\ WorkerType /\ parent \in ParentType /\ parent.pc = "idle" /\ ~Busy
      /\ UNCHANGED <<response, outcomes>>
      /\ parent' = [parent EXCEPT !.owned = 0, !.closed = TRUE]
  BY DEF WorkerInv, WorkerType, Close, At, Busy
<1>1. /\ parent' \in ParentType /\ parent'.pc = "idle" /\ parent'.owned = 0 /\ parent'.closed
      /\ parent'.generation = parent.generation /\ parent'.next = parent.next
  <2>1. 0 \in 0..MaxScores
    BY WorkerAssumption
  <2>2. parent' \in ParentType
    BY <1>0, <2>1 DEF ParentType
  <2>3. /\ parent'.pc = "idle" /\ parent'.owned = 0 /\ parent'.closed
        /\ parent'.generation = parent.generation /\ parent'.next = parent.next
    BY <1>0 DEF ParentType
  <2> QED
    BY <2>2, <2>3
<1>2. /\ child' \in [Generations -> ChildType]
      /\ \A g \in Generations :
           /\ child'[g].pc = child[g].pc /\ child'[g].failed = child[g].failed
           /\ child[g].killed => child'[g].killed
           /\ g = parent.owned /\ Alive(g) => child'[g].killed
      /\ request' \in [Generations -> Seq(Requests)]
  <2>1. CASE Alive(parent.owned)
    <3>1. parent.owned \in Generations
      BY <1>0, <2>1, WorkerAssumption DEF Alive, ParentType, Generations
    <3>2. child' = [child EXCEPT ![parent.owned].killed = TRUE]
      BY <2>1 DEF Close
    <3>3. request' = [request EXCEPT ![parent.owned] = Append(@, [kind |-> "close", id |-> 0])]
      BY <2>1 DEF Close
    <3>4. [kind |-> "close", id |-> 0] \in Requests
      BY WorkerAssumption DEF Requests
    <3>5. \A g \in Generations :
            Append(request[g], [kind |-> "close", id |-> 0]) \in Seq(Requests)
      BY <1>0, <3>4 DEF WorkerType
    <3>6. request' \in [Generations -> Seq(Requests)]
      BY <1>0, <3>3, <3>5 DEF WorkerType
    <3>7. child' \in [Generations -> ChildType]
      BY <1>0, <3>1, <3>2 DEF WorkerType, ChildType
    <3>8. \A g \in Generations :
            /\ child'[g].pc = child[g].pc /\ child'[g].failed = child[g].failed
            /\ child[g].killed => child'[g].killed
            /\ g = parent.owned => child'[g].killed
      BY <1>0, <3>1, <3>2 DEF WorkerType, ChildType
    <3> QED
      BY <3>6, <3>7, <3>8
  <2>2. CASE ~Alive(parent.owned)
    BY <1>0, <2>2 DEF Close, WorkerType
  <2> QED
    BY <2>1, <2>2
<1>3. WorkerType'
  BY <1>0, <1>1, <1>2 DEF WorkerType
<1>4. Counted'
  BY <1>0, <1>1 DEF WorkerInv, Counted, Busy
<1>5. Owned'
  <2>1. \A g \in Generations : Alive(g)' => Alive(g)
    BY <1>2 DEF Alive
  <2> QED
    BY <1>1, <1>2, <2>1 DEF WorkerInv, Owned, Busy
<1>6. FailedLeaves' /\ RowOfItsOwnRequest'
  BY <1>0, <1>2 DEF WorkerInv, FailedLeaves, RowOfItsOwnRequest
<1> QED
  BY <1>3, <1>4, <1>5, <1>6 DEF WorkerInv

-----------------------------------------------------------------------------
(* A step of a child changes that child and its two pipes, never makes a    *)
(* child alive, and never lets one that has failed go on.                   *)
LEMMA ChildMoveKeeps ==
  ASSUME WorkerInv, NEW g \in Generations,
         /\ UNCHANGED <<parent, outcomes>>
         /\ request' \in [Generations -> Seq(Requests)]
         /\ response' \in [Generations -> Seq(Message)]
         /\ child' \in [Generations -> ChildType],
         Alive(g),
         child'[g].killed = child[g].killed,
         child'[g].failed => child'[g].pc \in {"exit", "dead"},
         \A h \in Generations : h # g => child'[h] = child[h]
  PROVE  WorkerInv'
<1>1. WorkerType' /\ Counted' /\ RowOfItsOwnRequest'
  BY DEF WorkerInv, WorkerType, Counted, Busy, RowOfItsOwnRequest
<1>2. FailedLeaves'
  BY DEF WorkerInv, FailedLeaves
<1>3. Owned'
  <2>1. \A h \in Generations : Alive(h)' => child'[h].killed \/ h = parent.owned
    BY DEF WorkerInv, Owned, Alive
  <2>2. \A h \in Generations : h > parent.generation => child'[h].pc = "none"
    BY DEF WorkerInv, Owned, Alive
  <2> QED
    BY <2>1, <2>2 DEF WorkerInv, Owned, Busy
<1> QED
  BY <1>1, <1>2, <1>3 DEF WorkerInv

\* What a child sends is a message.
LEMMA SendsType ==
  ASSUME WorkerInv, NEW g \in Generations,
         NEW kind \in {"score", "torn", "other", "budget"}, Sends(g, kind)
  PROVE  response' \in [Generations -> Seq(Message)]
<1>1. child[g].task \in 0..MaxScores
  BY DEF WorkerInv, WorkerType, ChildType
<1>2. Reply(g, kind) \in Message
  BY <1>1 DEF Reply, Message
<1>3. \A h \in Generations : Append(response[h], Reply(g, kind)) \in Seq(Message)
  BY <1>2 DEF WorkerInv, WorkerType
<1> QED
  BY <1>3 DEF Sends, WorkerInv, WorkerType

LEMMA ChildReceivesKeeps ==
  ASSUME WorkerInv, NEW g \in Generations, ChildReceives(g)
  PROVE  WorkerInv'
<1>1. /\ UNCHANGED <<parent, outcomes>> /\ child \in [Generations -> ChildType]
      /\ child[g] \in ChildType /\ child[g].pc = "recv" /\ Alive(g) /\ child[g].failed = FALSE
  BY WorkerAssumption
     DEF ChildReceives, ChildAt, WorkerInv, WorkerType, ChildType, Alive, Generations, FailedLeaves
<1>2. Head(request[g]) \in Requests /\ Tail(request[g]) \in Seq(Requests)
  BY DEF ChildReceives, WorkerInv, WorkerType
<1>3. request' \in [Generations -> Seq(Requests)]
  BY <1>2 DEF ChildReceives, WorkerInv, WorkerType
<1>4. CASE /\ child' = [child EXCEPT ![g].pc = "exit", ![g].task = 0]
           /\ response' = [response EXCEPT ![g] =
                              Append(@, [kind |-> "closed", id |-> 0, generation |-> g])]
  <2>0. 0 \in 0..MaxScores
    BY WorkerAssumption
  <2>1. [kind |-> "closed", id |-> 0, generation |-> g] \in Message
    BY <2>0 DEF Message
  <2>2. \A h \in Generations :
          Append(response[h], [kind |-> "closed", id |-> 0, generation |-> g]) \in Seq(Message)
    BY <2>1 DEF WorkerInv, WorkerType
  <2>3. response' \in [Generations -> Seq(Message)]
    BY <1>4, <2>2 DEF WorkerInv, WorkerType
  <2>4. child' \in [Generations -> ChildType]
    BY <1>1, <1>4, <2>0 DEF ChildType
  <2>5. /\ child'[g].killed = child[g].killed /\ child'[g].pc = "exit"
        /\ \A h \in Generations : h # g => child'[h] = child[h]
    BY <1>1, <1>4 DEF ChildType
  <2> QED
    BY <1>1, <1>3, <2>3, <2>4, <2>5, ChildMoveKeeps
<1>5. CASE /\ child' = [child EXCEPT ![g].pc = "run", ![g].task = Head(request[g]).id]
           /\ UNCHANGED response
  <2>1. response' \in [Generations -> Seq(Message)]
    BY <1>5 DEF WorkerInv, WorkerType
  <2>2. Head(request[g]).id \in 0..MaxScores
    BY <1>2 DEF Requests
  <2>3. child' \in [Generations -> ChildType]
    BY <1>1, <1>5, <2>2 DEF ChildType
  <2>4. /\ child'[g].killed = child[g].killed /\ child'[g].failed = FALSE
        /\ \A h \in Generations : h # g => child'[h] = child[h]
    BY <1>1, <1>5 DEF ChildType
  <2> QED
    BY <1>1, <1>3, <2>1, <2>3, <2>4, ChildMoveKeeps
<1> QED
  BY <1>4, <1>5 DEF ChildReceives

LEMMA ChildEndsKeeps ==
  ASSUME WorkerInv, NEW g \in Generations,
         ChildScores(g) \/ ChildFails(g) \/ ChildTears(g)
  PROVE  WorkerInv'
<1>1. /\ UNCHANGED <<parent, outcomes>> /\ child \in [Generations -> ChildType]
      /\ child[g].pc = "run" /\ Alive(g) /\ child[g].failed = FALSE
      /\ request' \in [Generations -> Seq(Requests)]
  BY WorkerAssumption
     DEF ChildScores, ChildFails, ChildTears, ChildAt, WorkerInv, WorkerType, ChildType, Alive,
         Generations, FailedLeaves
<1>2. response' \in [Generations -> Seq(Message)]
  BY SendsType, ErrorKinds DEF ChildScores, ChildFails, ChildTears
<1>3. CASE child' = [child EXCEPT ![g].pc = "recv"]
  BY <1>1, <1>2, <1>3, ChildMoveKeeps DEF ChildType
<1>4. CASE child' = [child EXCEPT ![g].pc = "exit", ![g].failed = TRUE]
  <2>1. child' \in [Generations -> ChildType]
    BY <1>1, <1>4 DEF ChildType
  <2>2. /\ child'[g].killed = child[g].killed /\ child'[g].pc = "exit"
        /\ \A h \in Generations : h # g => child'[h] = child[h]
    BY <1>1, <1>4 DEF ChildType
  <2> QED
    BY <1>1, <1>2, <2>1, <2>2, ChildMoveKeeps
<1>5. CASE child' = [child EXCEPT ![g].pc = "dead"]
  BY <1>1, <1>2, <1>5, ChildMoveKeeps DEF ChildType
<1> QED
  BY <1>3, <1>4, <1>5 DEF ChildScores, ChildFails, ChildTears

LEMMA ChildDiesKeeps ==
  ASSUME WorkerInv, NEW g \in Generations,
         ChildExits(g) \/ Terminated(g) \/ Crash(g)
  PROVE  WorkerInv'
<1>1. /\ UNCHANGED <<parent, outcomes>> /\ child \in [Generations -> ChildType]
      /\ request' \in [Generations -> Seq(Requests)]
      /\ response' \in [Generations -> Seq(Message)]
      /\ child' = [child EXCEPT ![g].pc = "dead"]
  BY DEF ChildExits, Terminated, Crash, Dies, WorkerInv, WorkerType
<1>2. Alive(g)
  BY WorkerAssumption DEF ChildExits, Terminated, Crash, ChildAt, Alive, Generations
<1>3. child' \in [Generations -> ChildType]
  BY <1>1 DEF ChildType
<1>4. /\ child'[g].killed = child[g].killed /\ child'[g].pc = "dead"
      /\ \A h \in Generations : h # g => child'[h] = child[h]
  BY <1>1 DEF ChildType
<1> QED
  BY <1>1, <1>2, <1>3, <1>4, ChildMoveKeeps

-----------------------------------------------------------------------------
(* Steps of the system                                                      *)

\* A step of the worker leaves the runtime alone.
Apart == UNCHANGED <<canceled, threaded, runtimeVars, poolVars, signal>>

LEMMA ApartKeeps ==
  ASSUME IInv, Apart
  PROVE  RuntimeType' /\ LateEnds'
<1>1. UNCHANGED <<canceled, mode, rpc, rows, late, session, key, active, signal>>
  BY DEF Apart, runtimeVars, poolVars
<1> QED
  BY <1>1 DEF IInv, RuntimeType, LateEnds

LEMMA WorkerStepKeeps ==
  ASSUME IInv, Worker(CallStep)
  PROVE  IInv'
<1>1. WorkerInv /\ WorkerInv' /\ RuntimeType' /\ LateEnds' /\ Busy /\ CallShape
  <2>1. CallStep /\ Apart
    BY DEF Worker, Apart
  <2>2. Busy
    BY <2>1 DEF CallStep, ParentStep, Check, Send, Wait, Poll, LookAlive, Receive, Interrupt,
                At, Busy
  <2> QED
    BY <2>1, <2>2, ApartKeeps, CallStepKeeps, CallStepShape DEF IInv
<1>2. parent'.closed = parent.closed
  BY <1>1 DEF WorkerInv, WorkerType, ParentType, CallShape, EndsDiscarding, EndsKeeping, GoesOn,
              Discard
<1>3. UNCHANGED <<mode, rpc, rows>>
  BY DEF Worker, runtimeVars
<1>4. Driven'
  BY <1>1, <1>2, <1>3 DEF IInv, Driven
<1> QED
  BY <1>1, <1>4 DEF IInv

LEMMA ChildStepKeeps ==
  ASSUME IInv, NEW g \in Generations, Worker(ChildMove(g))
  PROVE  IInv'
<1>1. ChildMove(g) /\ Apart
  BY DEF Worker, Apart
<1>2. WorkerInv' /\ RuntimeType' /\ LateEnds'
  BY <1>1, ApartKeeps, ChildReceivesKeeps, ChildEndsKeeps, ChildDiesKeeps DEF IInv, ChildMove
<1>3. UNCHANGED <<parent, mode, rpc, rows>>
  BY <1>1 DEF ChildMove, ChildReceives, ChildScores, ChildFails, ChildTears, ChildExits,
              Terminated, Crash, Dies, Apart, runtimeVars
<1>4. Driven'
  BY <1>3 DEF IInv, Driven, Busy
<1> QED
  BY <1>2, <1>4 DEF IInv

LEMMA WorkerInvFrame ==
  ASSUME WorkerInv, UNCHANGED workerVars
  PROVE  WorkerInv'
<1>1. UNCHANGED <<parent, child, request, response, outcomes>>
  BY DEF workerVars
<1>2. WorkerType' /\ RowOfItsOwnRequest'
  BY <1>1 DEF WorkerInv, WorkerType, RowOfItsOwnRequest
<1>3. Counted' /\ Owned' /\ FailedLeaves'
  BY <1>1 DEF WorkerInv, Counted, Owned, FailedLeaves, Busy, Alive
<1> QED
  BY <1>2, <1>3 DEF WorkerInv

\* What score and close leave of the parent.
LEMMA ScoreLeaves ==
  ASSUME WorkerInv, Score
  PROVE  parent'.closed = parent.closed
<1>1. parent \in ParentType
  BY DEF WorkerInv, WorkerType
<1> QED
  BY <1>1 DEF Score, Start, ParentType

LEMMA CloseLeaves ==
  ASSUME WorkerInv, Close
  PROVE  parent'.closed /\ parent'.pc = "idle" /\ ~parent.closed
<1>1. parent \in ParentType /\ parent.pc = "idle" /\ ~parent.closed
      /\ parent' = [parent EXCEPT !.owned = 0, !.closed = TRUE]
  BY DEF WorkerInv, WorkerType, Close, At
<1> QED
  BY <1>1 DEF ParentType

LEMMA DirectKeeps ==
  ASSUME IInv, DirectScore \/ DirectClose
  PROVE  IInv'
<1>1. mode = "direct" /\ Apart /\ (Score \/ Close)
  BY DEF DirectScore, DirectClose, Apart
<1>2. WorkerInv' /\ RuntimeType' /\ LateEnds'
  BY <1>1, ApartKeeps, ScoreKeeps, CloseKeeps DEF IInv
<1>3. UNCHANGED <<mode, rpc, rows>>
  BY <1>1 DEF Apart, runtimeVars
<1>4. Driven'
  BY <1>1, <1>3 DEF IInv, Driven
<1> QED
  BY <1>2, <1>4 DEF IInv

-----------------------------------------------------------------------------
(* The markers of a backtest                                                *)
LEMMA NextMarkerKeeps ==
  ASSUME IInv, NextMarker \/ LastMarker
  PROVE  IInv'
<1>1. /\ UNCHANGED workerVars
      /\ UNCHANGED <<parent, canceled, mode, rows, late, session, key, active, signal>>
      /\ rpc = "ready" /\ rpc' \in {"closing", "dispatch"}
      /\ rpc' = "dispatch" => rows < MaxScores /\ ~canceled
  BY DEF NextMarker, LastMarker, RunsAt, workerVars, poolVars
<1>2. WorkerInv'
  BY <1>1, WorkerInvFrame DEF IInv
<1>3. RuntimeType'
  BY <1>1 DEF IInv, RuntimeType, Stages
<1>4. LateEnds'
  BY <1>1 DEF IInv, LateEnds
<1>5. Driven'
  BY <1>1 DEF IInv, Driven, Busy
<1> QED
  BY <1>2, <1>3, <1>4, <1>5 DEF IInv

LEMMA DispatchKeeps ==
  ASSUME IInv, Dispatch
  PROVE  IInv'
<1>1. /\ mode = "process" /\ rpc = "dispatch" /\ rpc' \in {"closing", "scoring"}
      /\ UNCHANGED <<canceled, mode, rows, late, session, key, active, signal>>
      /\ Score \/ (rpc' = "closing" /\ UNCHANGED workerVars)
      /\ rpc' = "closing" => UNCHANGED <<workerVars, parent>>
  BY DEF Dispatch, RunsAt, workerVars, poolVars
<1>2. WorkerInv' /\ parent'.closed = parent.closed
  BY <1>1, ScoreKeeps, ScoreLeaves, WorkerInvFrame DEF IInv, workerVars
<1>3. RuntimeType'
  BY <1>1 DEF IInv, RuntimeType, Stages
<1>4. LateEnds'
  <2>1. late # 1
    BY <1>1 DEF IInv, LateEnds
  <2> QED
    BY <1>1, <2>1 DEF IInv, LateEnds
<1>5. Driven'
  <2>1. ~Busy /\ ~parent.closed
    BY <1>1 DEF IInv, Driven
  <2>2. rpc' = "closing" => ~Busy'
    BY <1>1, <2>1 DEF Busy
  <2> QED
    BY <1>1, <1>2, <2>1, <2>2 DEF IInv, Driven
<1> QED
  BY <1>2, <1>3, <1>4, <1>5 DEF IInv

\* A row that is collected takes the place the marker had left for it.
LEMMA CollectsKeeps ==
  ASSUME IInv, Collects, rpc \in {"scoring", "finished"}, canceled' = canceled, rpc' = "ready"
  PROVE  /\ rows' \in 0..MaxScores /\ late' \in 0..MaxScores
         /\ LateEnds'
<1>1. rows < MaxScores /\ rows \in 0..MaxScores
  BY DEF IInv, Driven, RuntimeType
<1>2. late = 0
  BY DEF IInv, LateEnds
<1>3. rows' = rows + 1
  BY DEF Collects
<1>4. late' = 1 \/ late' = 0
  BY <1>2 DEF Collects
<1>5. late' = 1 => canceled
  BY <1>2 DEF Collects
<1>6. rows' \in 0..MaxScores /\ late' \in 0..MaxScores
  BY <1>1, <1>3, <1>4, WorkerAssumption
<1>7. canceled' \in BOOLEAN /\ (late' = 1 => canceled')
  BY <1>5 DEF IInv, LateEnds
<1>8. late' \in 0..1
  BY <1>4
<1> QED
  BY <1>6, <1>7, <1>8 DEF LateEnds

LEMMA AdoptKeeps ==
  ASSUME IInv, Adopt
  PROVE  IInv'
<1>1. /\ UNCHANGED workerVars
      /\ UNCHANGED <<parent, canceled, mode, session, key, active, signal>>
      /\ rpc = "scoring" /\ ~Busy
  BY DEF Adopt, At, Busy, workerVars, poolVars
<1>2. WorkerInv'
  BY <1>1, WorkerInvFrame DEF IInv
<1>3. /\ rpc' \in {"ready", "closing"}
      /\ rows' \in 0..MaxScores /\ late' \in 0..MaxScores
      /\ LateEnds'
  <2>1. CASE Collects /\ rpc' = "ready"
    BY <1>1, <2>1, CollectsKeeps
  <2>2. CASE UNCHANGED <<rows, late>> /\ rpc' = "closing"
    BY <1>1, <2>2 DEF IInv, RuntimeType, LateEnds
  <2> QED
    BY <2>1, <2>2 DEF Adopt
<1>4. RuntimeType'
  BY <1>1, <1>3 DEF IInv, RuntimeType, Stages
<1>5. Driven'
  BY <1>1, <1>3 DEF IInv, Driven, Busy
<1> QED
  BY <1>2, <1>3, <1>4, <1>5 DEF IInv

LEMMA ShutdownKeeps ==
  ASSUME IInv, Shutdown
  PROVE  IInv'
<1>1. /\ rpc = "closing" /\ rpc' = "ended"
      /\ UNCHANGED <<canceled, mode, rows, late, key, active, signal>>
      /\ session' = [k \in Keys |-> "none"]
  BY DEF Shutdown, RunsAt
<1>2. RuntimeType'
  BY <1>1 DEF IInv, RuntimeType, Stages
<1>3. LateEnds'
  BY <1>1 DEF IInv, LateEnds
<1>4. WorkerInv' /\ Driven'
  <2>1. CASE mode = "process"
    <3>1. Close
      BY <2>1 DEF Shutdown
    <3>2. WorkerInv' /\ parent'.closed /\ parent'.pc = "idle"
      BY <3>1, CloseKeeps, CloseLeaves DEF IInv
    <3> QED
      BY <1>1, <2>1, <3>2 DEF IInv, Driven, Busy
  <2>2. CASE mode # "process"
    <3>1. UNCHANGED workerVars /\ UNCHANGED parent
      BY <2>2 DEF Shutdown, workerVars
    <3>2. WorkerInv'
      BY <3>1, WorkerInvFrame DEF IInv
    <3> QED
      BY <1>1, <2>2, <3>1, <3>2 DEF IInv, Driven, Busy
  <2> QED
    BY <2>1, <2>2
<1> QED
  BY <1>2, <1>3, <1>4 DEF IInv

-----------------------------------------------------------------------------
(* The pool                                                                 *)
PoolAction == Pool \/ OpenFails \/ RunFails

LEMMA PoolKeeps ==
  ASSUME IInv, PoolAction
  PROVE  IInv'
<1>1. /\ UNCHANGED workerVars /\ UNCHANGED <<parent, canceled, mode, signal>>
      /\ mode = "inprocess"
  BY DEF PoolAction, Pool, OpenFails, RunFails, Open, Publish, Reset, RunEnds, Deliver, PoolStep,
         workerVars
<1>2. WorkerInv'
  BY <1>1, WorkerInvFrame DEF IInv
<1>3. /\ session' \in [Keys -> {"none", "clean", "used"}]
      /\ key' \in Keys \cup {NoKey} /\ active' \in Keys \cup {NoKey}
  <2>1. CASE \E k \in Keys : Open(k)
    BY <2>1 DEF Open, IInv, RuntimeType
  <2>2. CASE OpenFails \/ Publish \/ Reset \/ RunEnds \/ Deliver
    BY <2>2 DEF OpenFails, Publish, Reset, RunEnds, Deliver, poolVars, IInv, RuntimeType
  <2>3. CASE RunFails
    BY <2>3 DEF RunFails, IInv, RuntimeType
  <2> QED
    BY <2>1, <2>2, <2>3 DEF PoolAction, Pool
<1>4. CASE Deliver
  <2>1. Collects /\ rpc = "finished" /\ rpc' = "ready"
    BY <1>4 DEF Deliver, PoolStep, RunsAt
  <2>2. rows' \in 0..MaxScores /\ late' \in 0..MaxScores /\ LateEnds'
    BY <1>1, <2>1, CollectsKeeps
  <2>3. RuntimeType'
    BY <1>1, <1>3, <2>1, <2>2 DEF IInv, RuntimeType, Stages
  <2>4. Driven'
    BY <1>1, <2>1 DEF IInv, Driven, Busy
  <2> QED
    BY <1>2, <2>2, <2>3, <2>4 DEF IInv
<1>5. CASE ~Deliver
  <2>1. /\ UNCHANGED <<rows, late>>
        /\ rpc \in {"dispatch", "opened", "published", "running"}
        /\ rpc' \in {"opened", "published", "running", "finished", "closing"}
    BY <1>5 DEF PoolAction, Pool, OpenFails, RunFails, Open, Publish, Reset, RunEnds, PoolStep,
                RunsAt
  <2>2. RuntimeType'
    BY <1>1, <1>3, <2>1 DEF IInv, RuntimeType, Stages
  <2>3. LateEnds'
    BY <1>1, <2>1 DEF IInv, LateEnds
  <2>4. Driven'
    BY <1>1, <2>1 DEF IInv, Driven, Busy
  <2> QED
    BY <1>2, <2>2, <2>3, <2>4 DEF IInv
<1> QED
  BY <1>4, <1>5

-----------------------------------------------------------------------------
(* The rest of the world                                                    *)
LEMMA WorldKeeps ==
  ASSUME IInv, Cancel \/ CancelReads \/ CancelSignals \/ Thread
  PROVE  IInv'
<1>1. /\ UNCHANGED workerVars
      /\ UNCHANGED <<parent, mode, rpc, rows, late, session, key, active>>
      /\ canceled' = canceled \/ canceled' = TRUE
  BY DEF Cancel, CancelReads, CancelSignals, Thread, workerVars, runtimeVars, poolVars
<1>2. WorkerInv'
  BY <1>1, WorkerInvFrame DEF IInv
<1>3. signal' \in {"none", "set"} \cup Keys
  BY DEF Cancel, CancelReads, CancelSignals, Thread, IInv, RuntimeType
<1>4. RuntimeType'
  BY <1>1, <1>3 DEF IInv, RuntimeType
<1>5. LateEnds'
  BY <1>1 DEF IInv, LateEnds
<1>6. Driven'
  BY <1>1 DEF IInv, Driven, Busy
<1> QED
  BY <1>2, <1>4, <1>5, <1>6 DEF IInv

LEMMA NextKeepsIInv == IInv /\ [Next]_vars => IInv'
<1> SUFFICES ASSUME IInv, [Next]_vars
             PROVE  IInv'
  OBVIOUS
<1>1. CASE \/ Worker(Check) \/ Worker(Send) \/ Worker(Wait) \/ Worker(Poll)
           \/ Worker(LookAlive) \/ Worker(Receive) \/ Worker(Interrupt)
  <2>1. Worker(CallStep)
    BY <1>1 DEF Worker, CallStep, ParentStep
  <2> QED
    BY <2>1, WorkerStepKeeps
<1>2. CASE \E g \in Generations :
             \/ Worker(ChildReceives(g)) \/ Worker(ChildScores(g)) \/ Worker(ChildFails(g))
             \/ Worker(ChildTears(g)) \/ Worker(ChildExits(g)) \/ Worker(Terminated(g))
             \/ Worker(Crash(g))
  <2>1. PICK g \in Generations : Worker(ChildMove(g))
    BY <1>2 DEF Worker, ChildMove
  <2> QED
    BY <2>1, ChildStepKeeps
<1>3. CASE Markers
  BY <1>3, NextMarkerKeeps, DispatchKeeps, AdoptKeeps, ShutdownKeeps DEF Markers
<1>4. CASE Pool \/ OpenFails \/ RunFails
  BY <1>4, PoolKeeps DEF PoolAction
<1>5. CASE Cancel \/ CancelReads \/ CancelSignals \/ Thread
  BY <1>5, WorldKeeps
<1>6. CASE DirectScore \/ DirectClose
  BY <1>6, DirectKeeps
<1>7. CASE UNCHANGED vars
  <2>1. UNCHANGED workerVars /\ Apart /\ UNCHANGED <<parent, mode, rpc, rows>>
    BY <1>7 DEF vars, workerVars, Apart, runtimeVars, poolVars
  <2>2. WorkerInv' /\ RuntimeType' /\ LateEnds'
    BY <2>1, WorkerInvFrame, ApartKeeps DEF IInv
  <2>3. Driven'
    BY <2>1 DEF IInv, Driven, Busy
  <2> QED
    BY <2>2, <2>3 DEF IInv
<1> QED
  BY <1>1, <1>2, <1>3, <1>4, <1>5, <1>6, <1>7 DEF Next

LEMMA Invariance == Spec => []IInv
  BY InitIInv, NextKeepsIInv, PTL DEF Spec

-----------------------------------------------------------------------------
(* Results                                                                  *)

\* Every variable of the worker and of the runtime keeps its type: in particular
\* one call uses up at most one request id and one generation.
THEOREM TypeCorrect == Spec => []TypeOK
<1>1. IInv => TypeOK
  <2> SUFFICES ASSUME IInv PROVE TypeOK
    OBVIOUS
  <2>1. parent \in ParentType /\ child \in [Generations -> ChildType]
    BY DEF IInv, WorkerInv, WorkerType
  <2>2. /\ \A g \in Generations : request[g] \in Seq(Requests)
        /\ \A g \in Generations : response[g] \in Seq(Message)
    BY DEF IInv, WorkerInv, WorkerType
  <2> QED
    BY <2>1, <2>2 DEF IInv, RuntimeType, TypeOK, ParentType, ChildType, Requests
<1> QED
  BY <1>1, Invariance, PTL

\* A row is the answer to the request of the very call that returns it, however
\* earlier calls on the same child have ended.
THEOREM RowOfItsOwnRequestTheorem == Spec => []RowOfItsOwnRequest
<1>1. IInv => RowOfItsOwnRequest
  BY DEF IInv, WorkerInv
<1> QED
  BY <1>1, Invariance, PTL

\* A child that has failed a task never runs another one.
THEOREM FailedChildRunsNothingTheorem == Spec => []FailedChildRunsNothing
<1>1. IInv => FailedChildRunsNothing
  BY DEF IInv, WorkerInv, FailedLeaves, FailedChildRunsNothing
<1> QED
  BY <1>1, Invariance, PTL

\* The parent never loses a child it has not told to stop.
THEOREM NoStrayChildTheorem == Spec => []NoStrayChild
<1>1. IInv => NoStrayChild
  <2> SUFFICES ASSUME IInv, NEW g \in Generations, Alive(g), ~child[g].killed
               PROVE  g = parent.owned /\ ~parent.closed /\ rpc # "ended"
    BY DEF NoStrayChild
  <2>1. g = parent.owned /\ g # 0
    BY DEF IInv, WorkerInv, Owned, Alive
  <2>2. ~parent.closed
    BY <2>1 DEF IInv, WorkerInv, Owned
  <2>3. rpc # "ended"
    BY <2>1, <2>2 DEF IInv, Driven, RuntimeType
  <2> QED
    BY <2>1, <2>2, <2>3
<1> QED
  BY <1>1, Invariance, PTL

\* However many markers are left, cancel() lets at most one more row through.
THEOREM AtMostOneLateRowTheorem == Spec => []AtMostOneLateRow
<1>1. IInv => AtMostOneLateRow
  BY DEF IInv, LateEnds, AtMostOneLateRow
<1> QED
  BY <1>1, Invariance, PTL
=============================================================================
