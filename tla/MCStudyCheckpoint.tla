-------------------------- MODULE MCStudyCheckpoint --------------------------
EXTENDS StudyCheckpoint

(* A sampler and a pruner that depend on everything told so far. *)
MCSuggest(trials) ==
  (Len(trials) + Cardinality({i \in DOMAIN trials : trials[i].value = 1})) % 2

MCPruned(trials, n) ==
  LET mine     == trials[n].reports
      complete == {i \in DOMAIN trials : trials[i].state = "COMPLETE"}
  IN Len(mine) > 0 /\ mine[Len(mine)] < 1 + Cardinality(complete)

(***************************************************************************)
(* Bounds.  They are no reduction: behaviours are lost, and what they show *)
(* is checked for the rest only.  One process at a time is between two     *)
(* points its session could be saved at, with no other save under way; and *)
(* two processes have unsaved work at once only between the first save and *)
(* the second, in studies of one trial.  Two saves with different new work *)
(* then race for the lock, the guard and the name; such races of larger    *)
(* studies, and later ones, are cut.                                       *)
(***************************************************************************)
SavedEvents(p) == IF proc[p].prev = Absent THEN <<>> ELSE proc[p].prev.events

MidStudy(p) == ~Savable(proc[p].session)
Unsaved(p) ==
  /\ proc[p].pc = "work"
  /\ proc[p].session.poisoned \/ proc[p].session.journal # SavedEvents(p)

AllSmall ==
  /\ \A p \in Process : Len(proc[p].session.journal) <= 2
  /\ \A c \in mayBe \ {Absent} : Len(c.events) <= 2

OneStudyAtATime ==
  \A p, q \in Process : p # q =>
    /\ MidStudy(p) => proc[q].pc \notin Saving /\ ~MidStudy(q)
    /\ Unsaved(p) /\ Unsaved(q) => saves = 1 /\ AllSmall

(***************************************************************************)
(* More bounds.  No work is explored that no save is left for.  Before the *)
(* first save one chosen process works: that the other does instead is the *)
(* mirror image, that both do is cut.  Reports and pruning queries, the    *)
(* latter after a report, failed trials and operations that fail half way  *)
(* are tried up to that first checkpoint only, and saves past the second   *)
(* with studies of one trial that have something new.                      *)
(***************************************************************************)
First == CHOOSE p \in Process : TRUE

NewEvents(p) ==
  LET all == proc[p].session.journal
  IN {all[i] : i \in Len(SavedEvents(p)) + 1 .. Len(all)}

NewWork(p) ==
  /\ Unsaved(p)
  /\ proc[p].text = Absent \/ proc[p].session.journal # proc[p].text.events

NoIdleWork ==
  /\ saves > 2 => AllSmall
  /\ \A p \in Process : proc[p].pc = "locking" /\ saves > 1
       => proc[p].text # proc[p].prev
  /\ \A p \in Process : NewWork(p) =>
       /\ saves < MaxSaves
       /\ saves = 0 => p = First
       /\ saves > 0 => /\ ~proc[p].session.poisoned
                       /\ \A e \in NewEvents(p) :
                            \/ e.op = "ask"
                            \/ e.op = "tell" /\ e.state # "FAIL"
       /\ saves > 1 => AllSmall
       /\ (\E e \in NewEvents(p) : e.op = "prune")
            => \E e \in NewEvents(p) : e.op = "report"
=============================================================================
