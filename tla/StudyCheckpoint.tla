--------------------------- MODULE StudyCheckpoint ---------------------------
(***************************************************************************)
(* Processes that drive a study and keep it in one checkpoint file         *)
(* (optimization/continuation: session.py save and load, storage.py).      *)
(*                                                                         *)
(* A process works on a session of its own, new or loaded from the file,   *)
(* and saves it with write_checkpoint: take the .lock file, compare the    *)
(* file's digest with the one the caller last saw, write and sync a        *)
(* temporary file, rename it over the checkpoint, sync the directory,      *)
(* release the lock.  Any of these may raise; a process may die between    *)
(* any two of them; the machine may lose power.                            *)
(*                                                                         *)
(* A digest stands for the checkpoint it was computed from, so comparing   *)
(* digests is comparing checkpoints.  The disk: a rename is visible at     *)
(* once and certain to outlive a power loss only when the directory has    *)
(* been synced; until then the name may come back as it was.               *)
(***************************************************************************)
EXTENDS StudySession, FiniteSets

CONSTANTS
  Process,
  MaxSaves,    \* bound: calls of save
  MaxCrashes   \* bound: deaths of a process and losses of power

ASSUME CheckpointAssumption ==
  /\ {MaxSaves, MaxCrashes} \subseteq Nat
  /\ None \notin Process

VARIABLES
  proc,     \* process -> its pc, session and pending save
  file,     \* the checkpoint a reader finds
  mayBe,    \* what the name may hold after a power loss now
  holder,   \* the process that holds the .lock file, or None
  acked,    \* checkpoints whose save has returned
  saves, crashes

vars == <<proc, file, mayBe, holder, acked, saves, crashes>>

(* No file, no digest. *)
Absent == [absent |-> TRUE]

(* d is the study c with more work done. *)
Extends(c, d) == c = Absent \/ (d # Absent /\ IsPrefix(c.events, d.events))

(* A renamed file whose data never reached the disk: without events after  *)
(* a power loss, and a witness no session without events has.              *)
Empty == Dumps([NewSession EXCEPT !.stopped = TRUE])

(* prev: the digest the process would pass as previous_digest; text: what  *)
(* its last unfinished save means to write; durable: the temporary file    *)
(* has been synced.                                                        *)
Off == [pc |-> "off", session |-> NewSession, prev |-> Absent, text |-> Absent,
        durable |-> FALSE]

Saving == {"locking", "locked", "guarded", "written", "replaced", "synced"}

Init ==
  /\ proc = [p \in Process |-> Off]
  /\ file = Absent /\ mayBe = {Absent}
  /\ holder = None
  /\ acked = {}
  /\ saves = 0 /\ crashes = 0

-----------------------------------------------------------------------------
(* The session's own operations.                                           *)

At(p, pc) == proc[p].pc = pc
Goto(p, pc) == proc' = [proc EXCEPT ![p].pc = pc]
disk == <<file, mayBe, holder, acked, saves, crashes>>

NewStudy(p) ==
  /\ At(p, "off")
  /\ proc' = [proc EXCEPT ![p].pc = "work"]
  /\ UNCHANGED disk

(* load: with the digest of the checkpoint it finds; the lock is not taken *)
Load(p) ==
  /\ At(p, "off") /\ file # Absent
  /\ Loadable(file)
  /\ proc' = [proc EXCEPT ![p].pc = "work", ![p].prev = file,
                          ![p].session = Described(file)]
  /\ UNCHANGED disk

(* The caller gives the session up. *)
Discard(p) ==
  /\ At(p, "work")
  /\ proc' = [proc EXCEPT ![p] = Off]
  /\ UNCHANGED disk

Study(p, s) ==
  /\ At(p, "work")
  /\ proc' = [proc EXCEPT ![p].session = s]
  /\ UNCHANGED disk

DoAsk(p) == MayAsk(proc[p].session) /\ Study(p, Ask(proc[p].session))

DoAskFails(p) == MayAsk(proc[p].session) /\ Study(p, AskFails(proc[p].session))

DoReport(p) ==
  \E n \in proc[p].session.pending, v \in Values :
    /\ MayReport(proc[p].session, n)
    /\ Study(p, Report(proc[p].session, n, v))

DoPrune(p) ==
  \E n \in proc[p].session.pending :
    /\ Owned(proc[p].session, n)
    /\ Study(p, ShouldPrune(proc[p].session, n))

DoTell(p) ==
  \E n \in proc[p].session.pending, out \in Outcomes :
    /\ MayTell(proc[p].session, n, out)
    /\ Study(p, Tell(proc[p].session, n, out))

DoHalf(p) ==
  /\ Usable(proc[p].session) /\ proc[p].session.pending # {}
  /\ Study(p, HalfDone(proc[p].session))

-----------------------------------------------------------------------------
(* save: dumps, then write_checkpoint.                                     *)

Save(p) ==
  /\ At(p, "work") /\ saves < MaxSaves
  /\ Savable(proc[p].session)
  /\ proc' = [proc EXCEPT ![p].pc = "locking",
                          ![p].text = Dumps(proc[p].session)]
  /\ saves' = saves + 1
  /\ UNCHANGED <<file, mayBe, holder, acked, crashes>>

Lock(p) ==
  /\ At(p, "locking") /\ holder = None
  /\ holder' = p
  /\ Goto(p, "locked")
  /\ UNCHANGED <<file, mayBe, acked, saves, crashes>>

(* previous_digest is required, and must be the file's, when there is one; *)
(* and must be absent when there is none.                                  *)
GuardExists(p) ==  \* fault: a digest is asked for, and not compared
  file = Absent <=> proc[p].prev = Absent

GuardHolds(p) == file = proc[p].prev

Guard(p) ==
  /\ At(p, "locked") /\ GuardHolds(p)
  /\ Goto(p, "guarded")
  /\ UNCHANGED disk

(* The save raises: the lock file is closed, the temporary file removed,   *)
(* and the caller still has its session.                                   *)
RaisesLocked(p) ==  \* fault: the error path keeps the lock file open
  /\ proc' = [proc EXCEPT ![p].pc = "work", ![p].durable = FALSE]
  /\ UNCHANGED disk

Raises(p) ==
  /\ proc' = [proc EXCEPT ![p].pc = "work", ![p].durable = FALSE]
  /\ holder' = None
  /\ UNCHANGED <<file, mayBe, acked, saves, crashes>>

GuardFails(p) == At(p, "locked") /\ ~GuardHolds(p) /\ Raises(p)

IOError(p) ==
  /\ proc[p].pc \in {"guarded", "written", "replaced"}
  /\ Raises(p)

WriteTemp(p) ==
  /\ At(p, "guarded")
  /\ proc' = [proc EXCEPT ![p].pc = "written", ![p].durable = TRUE]
  /\ UNCHANGED disk

Replace(p) ==
  /\ At(p, "written")
  /\ file' = proc[p].text
  /\ mayBe' = mayBe \cup {file'}
                    \cup (IF proc[p].durable THEN {} ELSE {Empty})
  /\ Goto(p, "replaced")
  /\ UNCHANGED <<holder, acked, saves, crashes>>

SyncDirSkipped(p) ==  \* fault: the directory is not synced
  /\ At(p, "replaced")
  /\ Goto(p, "synced")
  /\ UNCHANGED disk

SyncDir(p) ==
  /\ At(p, "replaced")
  /\ mayBe' = {file}
  /\ Goto(p, "synced")
  /\ UNCHANGED <<file, holder, acked, saves, crashes>>

(* The lock is released and save returns the digest of what it wrote. *)
Return(p) ==
  /\ At(p, "synced")
  /\ holder' = None
  /\ acked' = acked \cup {proc[p].text}
  /\ proc' = [proc EXCEPT ![p].pc = "work", ![p].prev = proc[p].text,
                          ![p].text = Absent, ![p].durable = FALSE]
  /\ UNCHANGED <<file, mayBe, saves, crashes>>

(* A save that raised after its rename: the caller finds the digest it     *)
(* meant to write in the file and takes it for the previous one of its     *)
(* retry.  The save is not acknowledged by that.                           *)
Reconcile(p) ==
  /\ At(p, "work") /\ proc[p].text # Absent
  /\ file = proc[p].text /\ proc[p].prev # file
  /\ proc' = [proc EXCEPT ![p].prev = file]
  /\ UNCHANGED disk

-----------------------------------------------------------------------------
(* A process dies: its lock goes with it, a rename it made stays.          *)
Crash(p) ==
  /\ proc[p].pc # "off" /\ crashes < MaxCrashes
  /\ proc' = [proc EXCEPT ![p] = Off]
  /\ holder' = IF holder = p THEN None ELSE holder
  /\ crashes' = crashes + 1
  /\ UNCHANGED <<file, mayBe, acked, saves>>

PowerLoss ==
  /\ crashes < MaxCrashes
  /\ file' \in mayBe /\ mayBe' = {file'}
  /\ proc' = [p \in Process |-> Off]
  /\ holder' = None
  /\ crashes' = crashes + 1
  /\ UNCHANGED <<acked, saves>>

SaveStep(p) ==
  \/ Lock(p) \/ Guard(p) \/ GuardFails(p) \/ WriteTemp(p)
  \/ Replace(p) \/ SyncDir(p) \/ Return(p)

StudyStep(p) ==
  \/ NewStudy(p) \/ Load(p) \/ Discard(p)
  \/ DoAsk(p) \/ DoAskFails(p) \/ DoReport(p) \/ DoPrune(p) \/ DoTell(p)
  \/ DoHalf(p)

Next ==
  \/ \E p \in Process :
       StudyStep(p) \/ Save(p) \/ SaveStep(p) \/ Reconcile(p) \/ IOError(p)
       \/ Crash(p)
  \/ PowerLoss

(***************************************************************************)
(* A save under way goes on, and a process waiting in flock gets the lock  *)
(* if it keeps coming free (waiters are queued): strong fairness, which    *)
(* past the lock is weak fairness, nothing disabling the step.  Nothing is *)
(* assumed of the callers: a session may never be saved.                   *)
(***************************************************************************)
Fairness == \A p \in Process : SF_vars(SaveStep(p))

Spec == Init /\ [][Next]_vars /\ Fairness

-----------------------------------------------------------------------------
(* Every process, the file and the acknowledged saves hold what they       *)
(* should, and the lock's holder is the one process between lock and       *)
(* unlock.                                                                 *)
TypeOK ==
  /\ \A p \in Process :
       /\ DOMAIN proc[p] = DOMAIN Off
       /\ proc[p].pc \in Saving \cup {"off", "work"}
       /\ IsSession(proc[p].session)
       /\ proc[p].durable \in BOOLEAN
       /\ proc[p].pc \in Saving => proc[p].text # Absent
       /\ holder = p <=> proc[p].pc \in Saving \ {"locking"}
  /\ holder \in Process \cup {None}
  /\ file \in mayBe
  /\ saves \in 0..MaxSaves /\ crashes \in 0..MaxCrashes

(* A session that has not been poisoned is exactly what its journal        *)
(* replays to (trials, so sampler and pruner state; seen set; early        *)
(* stopping; duplicates), and every checkpoint in the file, or that a      *)
(* power loss may bring back, loads (session.py _record, loads).           *)
ReplayExact ==
  /\ \A p \in Process : Usable(proc[p].session)
       => Replay(proc[p].session.journal) = proc[p].session
  /\ \A c \in mayBe \ {Absent} : Loadable(c)

(* Whatever the name may hold, now or after a power loss, continues every  *)
(* checkpoint whose save has returned: no stale writer, interrupted save   *)
(* or crash takes acknowledged work back (storage.py write_checkpoint).    *)
AckedWorkSurvives ==
  \A a \in acked, m \in mayBe : Extends(a, m)

(* A save that has begun ends, by returning or raising (or its process     *)
(* dies): the lock is never kept (storage.py _locked).                     *)
SavesEnd ==
  \A p \in Process : At(p, "locking") ~> proc[p].pc \in {"work", "off"}

(* The file keeps the promises of AtomicCheckpoint. *)
Promise == INSTANCE AtomicCheckpoint
Refinement == Promise!Spec
=============================================================================
