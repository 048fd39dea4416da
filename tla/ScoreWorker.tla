----------------------------- MODULE ScoreWorker -----------------------------
(***************************************************************************)
(* ForkReactiveWfoWorkerV1 and the child it forks                          *)
(* (backends/reactive_wfo_workers.py): one parent that scores one task at  *)
(* a time, one child per generation, and a pair of pipes per child.        *)
(*                                                                         *)
(* The parent is interrupted between any two of its actions by steps of    *)
(* the child, by a death of the child, by a cancellation set in another    *)
(* thread, and by an exception raised in the middle of a call              *)
(* (KeyboardInterrupt), which leaves the call without any clean-up.        *)
(***************************************************************************)
EXTENDS Naturals, Sequences

CONSTANTS
  MaxScores,   \* bound: calls of score
  HasDeadline  \* is runtime_budget.max_wall_time_ms set

ASSUME WorkerAssumption == MaxScores \in Nat \ {0} /\ HasDeadline \in BOOLEAN

VARIABLES
  parent,     \* pc, the request id and the next one, the owned child (0: none),
              \* the identity's generation, closed
  child,      \* by generation: pc, task, has a task of it failed, was it told to stop
  request,    \* by generation: the pipe to the child
  response,   \* by generation: the pipe to the parent
  canceled,   \* the runtime's cancellation
  threaded,   \* has the parent got a second thread
  outcomes    \* what each finished call of score returned or raised

workerVars == <<parent, child, request, response, outcomes>>

Generations == 1..MaxScores    \* one call starts at most one child
Errors == {"other"} \cup (IF HasDeadline THEN {"budget"} ELSE {})

NoChild == [pc |-> "none", task |-> 0, failed |-> FALSE, killed |-> FALSE]

WorkerInit ==
  /\ parent = [pc |-> "idle", id |-> 0, next |-> 1, owned |-> 0, generation |-> 0,
               closed |-> FALSE]
  /\ child = [g \in Generations |-> NoChild]
  /\ request = [g \in Generations |-> << >>]
  /\ response = [g \in Generations |-> << >>]
  /\ outcomes = << >>

Alive(g) == g # 0 /\ child[g].pc \notin {"none", "dead"}

-----------------------------------------------------------------------------
(* The parent *)

At(pc) == parent.pc = pc
Goes(pc) == parent' = [parent EXCEPT !.pc = pc]

\* A row is remembered with the request it was asked for and the one it answers.
Outcome(kind, of) == [kind |-> kind, id |-> parent.id, of |-> of]
Reports(kind) == outcomes' = Append(outcomes, Outcome(kind, 0))

\* _discard and the end of the call: a child that is not dead by the end of the
\* join is terminated, the pipes are closed, and the parent owns no child.
Discard ==
  /\ parent' = [parent EXCEPT !.pc = "idle", !.owned = 0]
  /\ child' = IF Alive(parent.owned)
                THEN [child EXCEPT ![parent.owned].killed = TRUE]
                ELSE child

\* Fault: a second child is started next to a living one.
StartAlways ==
  /\ parent' = [parent EXCEPT !.pc = "check", !.id = 0, !.generation = @ + 1,
                              !.owned = parent.generation + 1]
  /\ child' = [child EXCEPT ![parent.generation + 1] = [NoChild EXCEPT !.pc = "recv"]]
  /\ UNCHANGED outcomes

\* _start keeps a living child.  Otherwise it forks the next generation, which
\* it refuses to do when the parent has got another thread.
Start ==
  \/ /\ Alive(parent.owned)
     /\ parent' = [parent EXCEPT !.pc = "check", !.id = 0]
     /\ UNCHANGED <<child, outcomes>>
  \/ /\ ~Alive(parent.owned)
     /\ threaded
     /\ parent' = [parent EXCEPT !.id = 0]
     /\ outcomes' = Append(outcomes, [kind |-> "refused", id |-> 0, of |-> 0])
     /\ UNCHANGED child
  \/ /\ ~Alive(parent.owned)
     /\ ~threaded
     /\ parent' = [parent EXCEPT !.pc = "check", !.id = 0, !.generation = @ + 1,
                                 !.owned = parent.generation + 1]
     /\ child' = [child EXCEPT ![parent.generation + 1] = [NoChild EXCEPT !.pc = "recv"]]
     /\ UNCHANGED outcomes

\* score is called; a closed worker refuses.
Score ==
  /\ At("idle")
  /\ Len(outcomes) < MaxScores
  /\ \/ /\ parent.closed
        /\ outcomes' = Append(outcomes, [kind |-> "refused", id |-> 0, of |-> 0])
        /\ UNCHANGED <<parent, child>>
     \/ ~parent.closed /\ Start
  /\ UNCHANGED <<request, response>>

\* canceled() before the dispatch.
Check ==
  /\ At("check")
  /\ \/ canceled /\ Discard /\ Reports("canceled")
     \/ /\ ~canceled
        /\ parent' = [parent EXCEPT !.pc = "send", !.id = parent.next, !.next = @ + 1]
        /\ UNCHANGED <<child, outcomes>>
  /\ UNCHANGED <<request, response>>

\* The request is sent.  A dead child breaks the pipe: the exception leaves
\* the call and the dead child stays owned.
Send ==
  /\ At("send")
  /\ \/ /\ Alive(parent.owned)
        /\ request' = [request EXCEPT ![parent.owned] =
                         Append(@, [kind |-> "score", id |-> parent.id])]
        /\ Goes("wait")
        /\ UNCHANGED outcomes
     \/ ~Alive(parent.owned) /\ Goes("idle") /\ Reports("raised") /\ UNCHANGED request
  /\ UNCHANGED <<child, response>>

\* Fault: the loop does not look at the cancellation.
WaitDeaf == At("wait") /\ Goes("poll") /\ UNCHANGED <<child, request, response, outcomes>>

\* The top of the loop: canceled() is looked at before every poll.
Wait ==
  /\ At("wait")
  /\ \/ canceled /\ Discard /\ Reports("canceled")
     \/ ~canceled /\ Goes("poll") /\ UNCHANGED <<child, outcomes>>
  /\ UNCHANGED <<request, response>>

\* poll(0.05) is true when there is a message or the end of the pipe.
Poll ==
  /\ At("poll")
  /\ Goes(IF response[parent.owned] # << >> \/ ~Alive(parent.owned) THEN "recv" ELSE "alive")
  /\ UNCHANGED <<child, request, response, outcomes>>

\* is_alive() after a poll that timed out: a child that is dead by now is given
\* up, whatever it has sent since the poll.
LookAlive ==
  /\ At("alive")
  /\ \/ Alive(parent.owned) /\ Goes("wait") /\ UNCHANGED <<child, outcomes>>
     \/ ~Alive(parent.owned) /\ Discard /\ Reports("exited")
  /\ UNCHANGED <<request, response>>

\* Fault: any answer is taken for the answer to this request.
TrustsReply(reply) == TRUE

\* The answer carries this request and this generation.
Answers(reply) == reply.id = parent.id /\ reply.generation = parent.generation

\* recv and what follows it, for the first message of the pipe.
Receive ==
  /\ At("recv")
  /\ LET pipe == response[parent.owned] IN
     \/ pipe = << >> /\ Discard /\ Reports("eof") /\ UNCHANGED response
     \/ /\ pipe # << >>
        /\ response' = [response EXCEPT ![parent.owned] = Tail(@)]
        /\ LET reply == Head(pipe) IN
           \/ reply.kind = "torn" /\ Goes("idle") /\ Reports("raised") /\ UNCHANGED child
           \/ reply.kind # "torn" /\ ~Answers(reply) /\ Discard /\ Reports("stale")
           \/ /\ reply.kind = "score" /\ Answers(reply)
              /\ Goes("idle")
              /\ outcomes' = Append(outcomes, Outcome("row", reply.id))
              /\ UNCHANGED child
           \/ /\ reply.kind \in Errors /\ Answers(reply)
              /\ Discard
              /\ Reports(reply.kind)
  /\ UNCHANGED request

\* An exception from outside (KeyboardInterrupt) leaves the call where it is.
Interrupt ==
  /\ ~At("idle")
  /\ Goes("idle")
  /\ Reports("raised")
  /\ UNCHANGED <<child, request, response>>

\* close: the child is asked to close and then discarded like any other.
Close ==
  /\ At("idle") /\ ~parent.closed
  /\ request' = IF Alive(parent.owned)
                  THEN [request EXCEPT ![parent.owned] = Append(@, [kind |-> "close", id |-> 0])]
                  ELSE request
  /\ parent' = [parent EXCEPT !.owned = 0, !.closed = TRUE]
  /\ child' = IF Alive(parent.owned)
                THEN [child EXCEPT ![parent.owned].killed = TRUE]
                ELSE child
  /\ UNCHANGED <<response, outcomes>>

ParentStep == Check \/ Send \/ Wait \/ Poll \/ LookAlive \/ Receive

-----------------------------------------------------------------------------
(* The child of generation g: _fork_score_worker_main *)

ChildAt(g, pc) == child[g].pc = pc
Reply(g, kind) == [kind |-> kind, id |-> child[g].task, generation |-> g]
Sends(g, kind) == response' = [response EXCEPT ![g] = Append(@, Reply(g, kind))]

\* The next request; "close" is answered and ends the loop.  The child holds an
\* end of its own request pipe: it never sees the pipe closed.
ChildReceives(g) ==
  /\ ChildAt(g, "recv")
  /\ request[g] # << >>
  /\ request' = [request EXCEPT ![g] = Tail(@)]
  /\ \/ /\ Head(request[g]).kind = "close"
        /\ child' = [child EXCEPT ![g].pc = "exit", ![g].task = 0]
        /\ response' = [response EXCEPT ![g] =
                          Append(@, [kind |-> "closed", id |-> 0, generation |-> g])]
     \/ /\ Head(request[g]).kind = "score"
        /\ child' = [child EXCEPT ![g].pc = "run", ![g].task = Head(request[g]).id]
        /\ UNCHANGED response
  /\ UNCHANGED <<parent, outcomes>>

ChildScores(g) ==
  /\ ChildAt(g, "run")
  /\ Sends(g, "score")
  /\ child' = [child EXCEPT ![g].pc = "recv"]
  /\ UNCHANGED <<parent, request, outcomes>>

\* Fault: after a failed task the child waits for the next one.
ChildCarriesOn(g) ==
  /\ ChildAt(g, "run")
  /\ \E error \in Errors : Sends(g, error)
  /\ child' = [child EXCEPT ![g].pc = "recv", ![g].failed = TRUE]
  /\ UNCHANGED <<parent, request, outcomes>>

\* A task that raises is answered with one typed row, and the child leaves.
ChildFails(g) ==
  /\ ChildAt(g, "run")
  /\ \E error \in Errors : Sends(g, error)
  /\ child' = [child EXCEPT ![g].pc = "exit", ![g].failed = TRUE]
  /\ UNCHANGED <<parent, request, outcomes>>

\* Killed or crashed in the middle of a send: the pipe ends in half a message.
ChildTears(g) ==
  /\ ChildAt(g, "run")
  /\ Sends(g, "torn")
  /\ child' = [child EXCEPT ![g].pc = "dead"]
  /\ UNCHANGED <<parent, request, outcomes>>

Dies(g) == child' = [child EXCEPT ![g].pc = "dead"] /\ UNCHANGED <<parent, request, response, outcomes>>

ChildExits(g) == ChildAt(g, "exit") /\ Dies(g)
Terminated(g) == Alive(g) /\ child[g].killed /\ Dies(g)   \* SIGTERM takes effect
Crash(g) == Alive(g) /\ ~child[g].killed /\ Dies(g)       \* any other death

ChildStep(g) == ChildReceives(g) \/ ChildExits(g) \/ Terminated(g)
=============================================================================
