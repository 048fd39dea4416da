------------------------ MODULE StudyCheckpointProofs ------------------------
(***************************************************************************)
(* Proofs about the checkpoint file, for any number of processes, any      *)
(* sampler and pruner, and any bounds.                                     *)
(***************************************************************************)
EXTENDS StudyCheckpoint, FiniteSetTheorems, TLAPS

\* A sequence, of whatever elements.
Sq(s) == \E S : s \in Seq(S)

\* What being a prefix says of the elements.
LEMMA PrefixElements ==
  ASSUME NEW s, NEW t, Sq(s), Sq(t)
  PROVE  IsPrefix(s, t) <=> /\ Len(s) <= Len(t)
                            /\ \A i \in 1..Len(s) : s[i] = t[i]
<1>1. PICK S : s \in Seq(S)
  BY DEF Sq
<1>2. PICK T : t \in Seq(T)
  BY DEF Sq
<1>3. Len(s) \in Nat /\ Len(t) \in Nat
  BY <1>1, <1>2
<1>4. SUFFICES ASSUME Len(s) <= Len(t)
               PROVE  SubSeq(s, 1, Len(s)) = SubSeq(t, 1, Len(s))
                        <=> \A i \in 1..Len(s) : s[i] = t[i]
  BY DEF IsPrefix
<1>5. SubSeq(s, 1, Len(s)) = [i \in 1..Len(s) |-> s[i]]
  BY <1>1, <1>3
<1>6. SubSeq(t, 1, Len(s)) = [i \in 1..Len(s) |-> t[i]]
  BY <1>2, <1>3, <1>4
<1> QED
  BY <1>5, <1>6

\* Every sequence is a prefix of itself.
LEMMA PrefixReflexive ==
  ASSUME NEW s, Sq(s)
  PROVE  IsPrefix(s, s)
<1>1. Len(s) \in Nat
  BY DEF Sq
<1> QED
  BY <1>1, PrefixElements

\* Prefixes compose.
LEMMA PrefixTransitive ==
  ASSUME NEW s, NEW t, NEW u, Sq(s), Sq(t), Sq(u), IsPrefix(s, t), IsPrefix(t, u)
  PROVE  IsPrefix(s, u)
<1>1. Len(s) \in Nat /\ Len(t) \in Nat /\ Len(u) \in Nat
  BY DEF Sq
<1>2. Len(s) <= Len(t) /\ \A i \in 1..Len(s) : s[i] = t[i]
  BY PrefixElements
<1>3. Len(t) <= Len(u) /\ \A i \in 1..Len(t) : t[i] = u[i]
  BY PrefixElements
<1>4. Len(s) <= Len(u) /\ \A i \in 1..Len(s) : s[i] = u[i]
  BY <1>1, <1>2, <1>3
<1> QED
  BY <1>4, PrefixElements

\* Appending to a sequence continues it.
LEMMA PrefixAppend ==
  ASSUME NEW s, NEW e, Sq(s)
  PROVE  Sq(Append(s, e)) /\ IsPrefix(s, Append(s, e))
<1>1. PICK S : s \in Seq(S)
  BY DEF Sq
<1>2. s \in Seq(S \cup {e})
  BY <1>1
<1>3. Append(s, e) \in Seq(S \cup {e})
  BY <1>2
<1>4. Len(Append(s, e)) = Len(s) + 1 /\ \A i \in 1..Len(s) : Append(s, e)[i] = s[i]
  BY <1>2
<1>5. Sq(Append(s, e))
  BY <1>3 DEF Sq
<1>6. Len(s) <= Len(Append(s, e))
  BY <1>1, <1>4
<1> QED
  BY <1>4, <1>5, <1>6, PrefixElements

-----------------------------------------------------------------------------
\* The fields of a session, and a journal that is a sequence.
Shaped(s) == DOMAIN s = DOMAIN NewSession /\ Sq(s.journal)

\* t is the session s after more operations.
Continues(s, t) == Shaped(t) /\ IsPrefix(s.journal, t.journal)

LEMMA SessionFields ==
  DOMAIN NewSession = {"trials", "pending", "seen", "stopped", "early",
                       "poisoned", "journal"}
  BY DEF NewSession

\* Recording an event continues the journal, or leaves it alone.
LEMMA RecordContinues ==
  ASSUME NEW s, NEW e, Shaped(s)
  PROVE  Continues(s, Record(s, e))
<1>1. "journal" \in DOMAIN s /\ "poisoned" \in DOMAIN s
  BY SessionFields DEF Shaped
<1>2. CASE Len(s.journal) >= MaxEvents
  <2>1. /\ Record(s, e).journal = s.journal
        /\ DOMAIN Record(s, e) = DOMAIN s
    BY <1>1, <1>2 DEF Record
  <2> QED
    BY <2>1, PrefixReflexive DEF Shaped, Continues
<1>3. CASE ~(Len(s.journal) >= MaxEvents)
  <2>1. /\ Record(s, e).journal = Append(s.journal, e)
        /\ DOMAIN Record(s, e) = DOMAIN s
    BY <1>1, <1>3 DEF Record
  <2> QED
    BY <2>1, PrefixAppend DEF Shaped, Continues
<1> QED
  BY <1>2, <1>3

\* So does recording it in a session that differs elsewhere.
LEMMA RecordAfter ==
  ASSUME NEW s, NEW t, NEW e, Shaped(s),
         DOMAIN t = DOMAIN s, t.journal = s.journal
  PROVE  Continues(s, Record(t, e))
<1>1. Shaped(t)
  BY DEF Shaped
<1>2. Continues(t, Record(t, e))
  BY <1>1, RecordContinues
<1> QED
  BY <1>2 DEF Continues

\* Every operation of a session continues it.
LEMMA AskContinues ==
  ASSUME NEW s, Shaped(s)
  PROVE  Continues(s, Ask(s)) /\ Continues(s, AskFails(s)) /\ Continues(s, HalfDone(s))
<1> DEFINE n == Len(s.trials) + 1
           p == Suggest(s.trials)
           dup == p \in s.seen
           asked == [s EXCEPT !.trials = Append(@, NewTrial(p, dup)),
                              !.pending = @ \cup {n}, !.seen = @ \cup {p}]
<1>1. DOMAIN asked = DOMAIN s /\ asked.journal = s.journal
  BY SessionFields DEF Shaped
<1>2. Continues(s, Record(asked, [op |-> "ask", number |-> n, effective |-> p, duplicate |-> dup]))
  <2> HIDE DEF asked
  <2> QED
    BY <1>1, RecordAfter
<1>3. Continues(s, Ask(s))
  BY <1>2 DEF Ask
<1>4. /\ DOMAIN AskFails(s) = DOMAIN s /\ AskFails(s).journal = s.journal
      /\ DOMAIN HalfDone(s) = DOMAIN s /\ HalfDone(s).journal = s.journal
  BY SessionFields DEF Shaped, AskFails, HalfDone
<1>5. Continues(s, AskFails(s)) /\ Continues(s, HalfDone(s))
  BY <1>4, PrefixReflexive DEF Shaped, Continues
<1> QED
  BY <1>3, <1>5

LEMMA ReportContinues ==
  ASSUME NEW s, NEW n, NEW v, Shaped(s)
  PROVE  Continues(s, Report(s, n, v)) /\ Continues(s, ShouldPrune(s, n))
<1> DEFINE reported == [s EXCEPT !.trials[n].reports = Append(@, v)]
<1>1. DOMAIN reported = DOMAIN s /\ reported.journal = s.journal
  BY SessionFields DEF Shaped
<1>2. Continues(s, Record(reported, [op |-> "report", number |-> n, value |-> v]))
  <2> HIDE DEF reported
  <2> QED
    BY <1>1, RecordAfter
<1>3. Continues(s, Report(s, n, v))
  BY <1>2 DEF Report
<1>4. Continues(s, ShouldPrune(s, n))
  BY RecordContinues DEF ShouldPrune
<1> QED
  BY <1>3, <1>4

LEMMA TellContinues ==
  ASSUME NEW s, NEW n, NEW out, Shaped(s)
  PROVE  Continues(s, Tell(s, n, out))
<1> DEFINE told == [s EXCEPT !.trials[n].state = out.state,
                             !.trials[n].value = out.value,
                             !.pending = @ \ {n}]
           after == IF out.state = "COMPLETE" THEN EarlyStopping(told) ELSE told
           event == [op |-> "tell", number |-> n, value |-> out.value,
                     state |-> out.state, stopped |-> after.stopped]
<1>1. DOMAIN told = DOMAIN s /\ told.journal = s.journal
  BY SessionFields DEF Shaped
<1>2. DOMAIN EarlyStopping(told) = DOMAIN told /\ EarlyStopping(told).journal = told.journal
  <2> HIDE DEF told
  <2> QED
    BY <1>1, SessionFields DEF Shaped, EarlyStopping
<1>3. DOMAIN after = DOMAIN s /\ after.journal = s.journal
  <2> HIDE DEF told
  <2> QED
    BY <1>1, <1>2
<1>4. Continues(s, Record(after, event))
  <2> HIDE DEF after, event
  <2> QED
    BY <1>3, RecordAfter
<1> QED
  BY <1>4 DEF Tell

-----------------------------------------------------------------------------
\* The part of the inductive invariant about one process: its session and the
\* save it has begun continue the checkpoint it last saw.
Kept(c) == c # Absent => Sq(c.events)

ProcessInv(r) ==
  /\ DOMAIN r = DOMAIN Off
  /\ r.pc \in Saving \cup {"off", "work"}
  /\ Shaped(r.session)
  /\ Kept(r.prev) /\ Kept(r.text)
  /\ r.prev # Absent => IsPrefix(r.prev.events, r.session.journal)
  /\ r.text # Absent => IsPrefix(r.text.events, r.session.journal)
  /\ r.pc \in Saving => r.text # Absent /\ Extends(r.prev, r.text)
  /\ r.pc = "written" => r.durable = TRUE
  /\ r.pc = "off" => r.text = Absent

\* The part about the lock: one process is between lock and unlock, and what
\* the file holds there is what that process makes of it.
Critical == Saving \ {"locking"}

LockInv ==
  /\ holder \in Process \cup {None}
  /\ \A p \in Process :
       /\ holder = p <=> proc[p].pc \in Critical
       /\ proc[p].pc \in {"guarded", "written"} => file = proc[p].prev
       /\ proc[p].pc \in {"replaced", "synced"} => file = proc[p].text
       /\ proc[p].pc = "synced" => mayBe = {file}

\* The part about the disk: the file continues whatever its name may come back
\* as, and that continues every acknowledged save.
DiskInv ==
  /\ file \in mayBe
  /\ \A m \in mayBe : Kept(m) /\ Extends(m, file)
  /\ \A a \in acked : a # Absent /\ Kept(a)
  /\ AckedWorkSurvives

IInv ==
  /\ proc = [p \in Process |-> proc[p]]
  /\ \A p \in Process : ProcessInv(proc[p])
  /\ LockInv
  /\ DiskInv

\* Checkpoints continue themselves, and continuing composes.
LEMMA ExtendsReflexive ==
  ASSUME NEW c, Kept(c)
  PROVE  Extends(c, c)
  BY PrefixReflexive DEF Extends, Kept

LEMMA ExtendsTransitive ==
  ASSUME NEW c, NEW d, NEW e, Kept(c), Kept(d), Kept(e), Extends(c, d), Extends(d, e)
  PROVE  Extends(c, e)
  BY PrefixTransitive DEF Extends, Kept

\* A checkpoint is not the absence of one.
LEMMA DumpsPresent ==
  ASSUME NEW s
  PROVE  Dumps(s) # Absent /\ Dumps(s).events = s.journal
<1>1. DOMAIN Dumps(s) = {"events", "witness"} /\ DOMAIN Absent = {"absent"}
  BY DEF Dumps, Absent
<1> QED
  BY <1>1 DEF Dumps

\* A process that is off.
LEMMA OffInv == ProcessInv(Off)
<1>1. Sq(<<>>)
  BY DEF Sq
<1>2. Shaped(NewSession)
  BY <1>1 DEF Shaped, NewSession
<1>3. /\ Off.pc = "off" /\ Off.session = NewSession
      /\ Off.prev = Absent /\ Off.text = Absent
  BY DEF Off
<1> QED
  BY <1>2, <1>3 DEF ProcessInv, Kept, Saving

LEMMA InitIInv == Init => IInv
<1> SUFFICES ASSUME Init PROVE IInv
  OBVIOUS
<1>1. proc = [p \in Process |-> proc[p]] /\ \A p \in Process : proc[p] = Off
  BY DEF Init
<1>2. \A p \in Process : ProcessInv(proc[p])
  BY <1>1, OffInv
<1>3. LockInv
  BY <1>1, CheckpointAssumption DEF Init, LockInv, Critical, Saving, Off
<1>4. DiskInv
  BY DEF Init, DiskInv, AckedWorkSurvives, Kept, Extends
<1> QED
  BY <1>1, <1>2, <1>3, <1>4 DEF IInv

-----------------------------------------------------------------------------
\* A step of process p alone.
Touches(p) ==
  /\ proc' = [q \in Process |-> proc'[q]]
  /\ \A q \in Process \ {p} : proc'[q] = proc[q]

LEMMA RecordFields ==
  DOMAIN Off = {"pc", "session", "prev", "text", "durable"}
  BY DEF Off

\* A step that changes process p and nothing else keeps the invariant, if it
\* keeps what the invariant says of that process.
LEMMA LocalStep ==
  ASSUME IInv, NEW p \in Process, Touches(p), UNCHANGED disk,
         ProcessInv(proc'[p]),
         proc'[p].pc \in Critical <=> proc[p].pc \in Critical,
         proc'[p].pc \in {"guarded", "written"} => file = proc'[p].prev,
         proc'[p].pc \in {"replaced", "synced"} => file = proc'[p].text,
         proc'[p].pc = "synced" => mayBe = {file}
  PROVE  IInv'
<1>1. UNCHANGED <<file, mayBe, holder, acked>>
  BY DEF disk
<1>2. (\A q \in Process : ProcessInv(proc[q]))'
  <2>1. \A q \in Process : ProcessInv(proc'[q])
    BY DEF IInv, Touches
  <2> QED
    BY <2>1
<1>3. LockInv'
  <2> SUFFICES ASSUME NEW q \in Process
               PROVE  /\ holder' = q <=> proc'[q].pc \in Critical
                      /\ proc'[q].pc \in {"guarded", "written"} => file' = proc'[q].prev
                      /\ proc'[q].pc \in {"replaced", "synced"} => file' = proc'[q].text
                      /\ proc'[q].pc = "synced" => mayBe' = {file'}
    BY <1>1 DEF IInv, LockInv
  <2>1. CASE q = p
    BY <1>1, <2>1 DEF IInv, LockInv
  <2>2. CASE q # p
    BY <1>1, <2>2 DEF IInv, LockInv, Touches
  <2> QED
    BY <2>1, <2>2
<1>4. DiskInv'
  BY <1>1 DEF IInv, DiskInv, AckedWorkSurvives
<1>5. (proc = [q \in Process |-> proc[q]])'
  BY DEF Touches
<1> QED
  BY <1>2, <1>3, <1>4, <1>5 DEF IInv

\* A step that puts r in the place of process p touches p.
LEMMA ExceptTouches ==
  ASSUME IInv, NEW p \in Process, NEW r, proc' = [proc EXCEPT ![p] = r]
  PROVE  Touches(p) /\ proc'[p] = r
  BY DEF IInv, Touches

\* The operations of a session.
LEMMA StudyStepKeeps ==
  ASSUME IInv, NEW p \in Process, NEW s, Study(p, s), Continues(proc[p].session, s)
  PROVE  IInv'
<1> DEFINE r == [proc[p] EXCEPT !.session = s]
<1>0. ProcessInv(proc[p]) /\ proc[p].pc = "work"
  BY DEF IInv, Study, At
<1>1. /\ DOMAIN r = DOMAIN Off /\ r.pc = "work" /\ r.session = s
      /\ r.prev = proc[p].prev /\ r.text = proc[p].text
  BY <1>0, RecordFields DEF ProcessInv
<1>2. proc' = [proc EXCEPT ![p] = r]
  BY DEF Study, IInv
<1>3. proc'[p] = r /\ Touches(p)
  <2> HIDE DEF r
  <2> QED
    BY <1>2, ExceptTouches
<1>4. ProcessInv(r)
  <2> HIDE DEF r
  <2>1. Sq(proc[p].session.journal) /\ Sq(s.journal)
    BY <1>0 DEF ProcessInv, Shaped, Continues
  <2>2. IsPrefix(proc[p].session.journal, s.journal)
    BY DEF Continues
  <2>3. r.prev # Absent => IsPrefix(r.prev.events, s.journal)
    BY <1>0, <1>1, <2>1, <2>2, PrefixTransitive DEF ProcessInv, Kept
  <2>4. r.text # Absent => IsPrefix(r.text.events, s.journal)
    BY <1>0, <1>1, <2>1, <2>2, PrefixTransitive DEF ProcessInv, Kept
  <2> QED
    BY <1>0, <1>1, <2>3, <2>4 DEF ProcessInv, Continues, Saving
<1>5. UNCHANGED disk
  BY DEF Study
<1> HIDE DEF r
<1> QED
  BY <1>0, <1>1, <1>3, <1>4, <1>5, LocalStep DEF Critical, Saving

LEMMA OperationsKeep ==
  ASSUME IInv, NEW p \in Process,
         DoAsk(p) \/ DoAskFails(p) \/ DoReport(p) \/ DoPrune(p) \/ DoTell(p) \/ DoHalf(p)
  PROVE  IInv'
<1> DEFINE s == proc[p].session
<1>0. Shaped(s)
  BY DEF IInv, ProcessInv
<1>1. CASE DoAsk(p) \/ DoAskFails(p) \/ DoHalf(p)
  <2>1. PICK t : Study(p, t) /\ t \in {Ask(s), AskFails(s), HalfDone(s)}
    BY <1>1 DEF DoAsk, DoAskFails, DoHalf
  <2> QED
    BY <1>0, <2>1, AskContinues, StudyStepKeeps
<1>2. CASE DoReport(p)
  <2>1. PICK n \in s.pending, v \in Values : Study(p, Report(s, n, v))
    BY <1>2 DEF DoReport
  <2> QED
    BY <1>0, <2>1, ReportContinues, StudyStepKeeps
<1>3. CASE DoPrune(p)
  <2>1. PICK n \in s.pending : Study(p, ShouldPrune(s, n))
    BY <1>3 DEF DoPrune
  <2> QED
    BY <1>0, <2>1, ReportContinues, StudyStepKeeps
<1>4. CASE DoTell(p)
  <2>1. PICK n \in s.pending, out \in Outcomes : Study(p, Tell(s, n, out))
    BY <1>4 DEF DoTell
  <2> QED
    BY <1>0, <2>1, TellContinues, StudyStepKeeps
<1> QED
  BY <1>1, <1>2, <1>3, <1>4

-----------------------------------------------------------------------------
\* Starting, loading and giving up a study.
LEMMA StartsKeep ==
  ASSUME IInv, NEW p \in Process, NewStudy(p) \/ Load(p) \/ Discard(p)
  PROVE  IInv'
<1>0. /\ ProcessInv(proc[p]) /\ proc[p].pc \in {"off", "work"}
      /\ UNCHANGED disk
  BY DEF IInv, NewStudy, Load, Discard, At
<1>1. CASE NewStudy(p)
  <2> DEFINE r == [proc[p] EXCEPT !.pc = "work"]
  <2>1. /\ DOMAIN r = DOMAIN Off /\ r.pc = "work" /\ r.session = proc[p].session
        /\ r.prev = proc[p].prev /\ r.text = proc[p].text
    BY <1>0, RecordFields DEF ProcessInv
  <2>2. proc' = [proc EXCEPT ![p] = r]
    BY <1>1 DEF NewStudy, IInv
  <2> HIDE DEF r
  <2>3. proc'[p] = r /\ Touches(p)
    BY <2>2, ExceptTouches
  <2>4. ProcessInv(r)
    BY <1>0, <2>1 DEF ProcessInv, Saving
  <2> QED
    BY <1>0, <2>1, <2>3, <2>4, LocalStep DEF Critical, Saving
<1>2. CASE Load(p)
  <2> DEFINE s == Described(file)
             r == [proc[p] EXCEPT !.pc = "work", !.prev = file, !.session = s]
  <2>1. /\ DOMAIN r = DOMAIN Off /\ r.pc = "work" /\ r.session = s
        /\ r.prev = file /\ r.text = proc[p].text
    BY <1>0, RecordFields DEF ProcessInv
  <2>2. proc' = [proc EXCEPT ![p] = r]
    BY <1>2 DEF Load, IInv
  <2>3. DOMAIN s = DOMAIN NewSession /\ s.journal = file.events
    BY SessionFields DEF Described
  <2>4. Sq(file.events)
    BY <1>2 DEF Load, IInv, DiskInv, Kept
  <2>5. proc[p].text = Absent
    BY <1>0, <1>2 DEF ProcessInv, Load, At
  <2> HIDE DEF r, s
  <2>6. proc'[p] = r /\ Touches(p)
    BY <2>2, ExceptTouches
  <2>7. ProcessInv(r)
    BY <1>0, <2>1, <2>3, <2>4, <2>5, PrefixReflexive
       DEF ProcessInv, Saving, Shaped, Kept
  <2> QED
    BY <1>0, <2>1, <2>6, <2>7, LocalStep DEF Critical, Saving
<1>3. CASE Discard(p)
  <2>1. proc'[p] = Off /\ Touches(p)
    BY <1>3, ExceptTouches DEF Discard
  <2> QED
    BY <1>0, <2>1, OffInv, LocalStep DEF Critical, Saving, Off
<1> QED
  BY <1>1, <1>2, <1>3

\* What a step that only moves process p along its save leaves of it.
Moved(p, pc) ==
  /\ Touches(p)
  /\ DOMAIN proc'[p] = DOMAIN Off
  /\ proc'[p].pc = pc
  /\ proc'[p].session = proc[p].session
  /\ proc'[p].prev = proc[p].prev
  /\ proc'[p].text = proc[p].text

LEMMA GotoMoves ==
  ASSUME IInv, NEW p \in Process, NEW pc, NEW d,
         \/ proc' = [proc EXCEPT ![p].pc = pc] /\ d = proc[p].durable
         \/ proc' = [proc EXCEPT ![p].pc = pc, ![p].durable = d]
  PROVE  Moved(p, pc) /\ proc'[p].durable = d
<1> DEFINE r1 == [proc[p] EXCEPT !.pc = pc]
           r2 == [proc[p] EXCEPT !.pc = pc, !.durable = d]
<1>0. DOMAIN proc[p] = DOMAIN Off
  BY DEF IInv, ProcessInv
<1>1. CASE proc' = [proc EXCEPT ![p].pc = pc] /\ d = proc[p].durable
  <2>1. proc' = [proc EXCEPT ![p] = r1]
    BY <1>1 DEF IInv
  <2>2. /\ DOMAIN r1 = DOMAIN Off /\ r1.pc = pc /\ r1.session = proc[p].session
        /\ r1.prev = proc[p].prev /\ r1.text = proc[p].text
        /\ r1.durable = proc[p].durable
    BY <1>0, RecordFields
  <2> HIDE DEF r1
  <2>3. proc'[p] = r1 /\ Touches(p)
    BY <2>1, ExceptTouches
  <2> QED
    BY <1>1, <2>2, <2>3 DEF Moved
<1>2. CASE proc' = [proc EXCEPT ![p].pc = pc, ![p].durable = d]
  <2>1. proc' = [proc EXCEPT ![p] = r2]
    BY <1>2 DEF IInv
  <2>2. /\ DOMAIN r2 = DOMAIN Off /\ r2.pc = pc /\ r2.session = proc[p].session
        /\ r2.prev = proc[p].prev /\ r2.text = proc[p].text
        /\ r2.durable = d
    BY <1>0, RecordFields
  <2> HIDE DEF r2
  <2>3. proc'[p] = r2 /\ Touches(p)
    BY <2>1, ExceptTouches
  <2> QED
    BY <2>2, <2>3 DEF Moved
<1> QED
  BY <1>1, <1>2

\* A process that has begun to save stays in order wherever it moves to.
LEMMA MovedInv ==
  ASSUME IInv, NEW p \in Process, NEW pc \in Saving \cup {"work"}, Moved(p, pc),
         proc[p].pc \in Saving,
         pc = "written" => proc'[p].durable = TRUE
  PROVE  ProcessInv(proc'[p])
  BY DEF IInv, ProcessInv, Moved, Saving

\* The same when the lock's holder or the disk changes with it.
LEMMA OthersInv ==
  ASSUME IInv, NEW p \in Process, Touches(p), ProcessInv(proc'[p])
  PROVE  /\ (proc = [q \in Process |-> proc[q]])'
         /\ (\A q \in Process : ProcessInv(proc[q]))'
<1>1. \A q \in Process : ProcessInv(proc'[q])
  BY DEF IInv, Touches
<1>2. (\A q \in Process : ProcessInv(proc[q]))'
  BY <1>1
<1> QED
  BY <1>2 DEF Touches

\* A step of the lock's holder, or of a process that takes or drops the lock:
\* nobody else is between lock and unlock.
LEMMA HolderStep ==
  ASSUME IInv, NEW p \in Process, Touches(p), holder \in {p, None},
         holder' = IF proc'[p].pc \in Critical THEN p ELSE None,
         proc'[p].pc \in {"guarded", "written"} => file' = proc'[p].prev,
         proc'[p].pc \in {"replaced", "synced"} => file' = proc'[p].text,
         proc'[p].pc = "synced" => mayBe' = {file'}
  PROVE  LockInv'
<1> SUFFICES ASSUME NEW q \in Process
             PROVE  /\ holder' = q <=> proc'[q].pc \in Critical
                    /\ proc'[q].pc \in {"guarded", "written"} => file' = proc'[q].prev
                    /\ proc'[q].pc \in {"replaced", "synced"} => file' = proc'[q].text
                    /\ proc'[q].pc = "synced" => mayBe' = {file'}
  BY DEF LockInv
<1>1. CASE q = p
  BY <1>1, CheckpointAssumption
<1>2. CASE q # p
  <2>1. proc'[q] = proc[q] /\ holder # q
    BY <1>2, CheckpointAssumption DEF Touches
  <2>2. proc[q].pc \notin Critical
    BY <2>1 DEF IInv, LockInv
  <2>3. holder' # q
    BY <1>2, CheckpointAssumption
  <2> QED
    BY <2>1, <2>2, <2>3 DEF Critical, Saving
<1> QED
  BY <1>1, <1>2

-----------------------------------------------------------------------------
\* save begins: what it means to write continues what the process last saw.
LEMMA SaveKeeps ==
  ASSUME IInv, NEW p \in Process, Save(p)
  PROVE  IInv'
<1> DEFINE text == Dumps(proc[p].session)
           r == [proc[p] EXCEPT !.pc = "locking", !.text = text]
<1>0. ProcessInv(proc[p]) /\ proc[p].pc = "work"
  BY DEF IInv, Save, At
<1>1. /\ DOMAIN r = DOMAIN Off /\ r.pc = "locking" /\ r.session = proc[p].session
      /\ r.prev = proc[p].prev /\ r.text = text
  BY <1>0, RecordFields DEF ProcessInv
<1>2. proc' = [proc EXCEPT ![p] = r]
  BY DEF Save, IInv
<1>3. text # Absent /\ text.events = proc[p].session.journal
  BY DumpsPresent
<1> HIDE DEF r, text
<1>4. proc'[p] = r /\ Touches(p)
  BY <1>2, ExceptTouches
<1>5. Sq(proc[p].session.journal)
  BY <1>0 DEF ProcessInv, Shaped
<1>6. ProcessInv(r)
  BY <1>0, <1>1, <1>3, <1>5, PrefixReflexive DEF ProcessInv, Kept, Extends, Saving
<1>7. LockInv'
  <2>1. UNCHANGED <<file, mayBe, holder>>
    BY DEF Save
  <2> QED
    BY <1>0, <1>1, <1>4, <2>1 DEF IInv, LockInv, Touches, Critical, Saving
<1>8. DiskInv'
  <2>1. UNCHANGED <<file, mayBe, acked>>
    BY DEF Save
  <2> QED
    BY <2>1 DEF IInv, DiskInv, AckedWorkSurvives
<1> QED
  BY <1>4, <1>6, <1>7, <1>8, OthersInv DEF IInv

\* Taking the lock, the guard, the temporary file, and a save that raises: the
\* disk is left alone.
LEMMA QuietStepsKeep ==
  ASSUME IInv, NEW p \in Process,
         Lock(p) \/ Guard(p) \/ WriteTemp(p) \/ GuardFails(p) \/ IOError(p)
  PROVE  IInv'
<1>1. UNCHANGED <<file, mayBe, acked>>
  BY DEF Lock, Guard, WriteTemp, GuardFails, IOError, Raises, disk
<1>2. DiskInv'
  BY <1>1 DEF IInv, DiskInv, AckedWorkSurvives
<1>3. CASE Lock(p)
  <2>1. Moved(p, "locked") /\ proc[p].pc = "locking" /\ holder = None /\ holder' = p
    BY <1>3, GotoMoves DEF Lock, Goto, At
  <2>2. ProcessInv(proc'[p])
    BY <2>1, MovedInv DEF Saving
  <2>3. LockInv'
    BY <2>1, HolderStep DEF Moved, Critical, Saving
  <2> QED
    BY <1>2, <2>1, <2>2, <2>3, OthersInv DEF IInv, Moved
<1>4. CASE Guard(p)
  <2>1. Moved(p, "guarded") /\ proc[p].pc = "locked" /\ file = proc[p].prev /\ UNCHANGED disk
    BY <1>4, GotoMoves DEF Guard, GuardHolds, Goto, At
  <2>2. ProcessInv(proc'[p])
    BY <2>1, MovedInv DEF Saving
  <2> QED
    BY <2>1, <2>2, LocalStep DEF Moved, Critical, Saving
<1>5. CASE WriteTemp(p)
  <2>1. /\ Moved(p, "written") /\ proc'[p].durable = TRUE
        /\ proc[p].pc = "guarded" /\ UNCHANGED disk
    BY <1>5, GotoMoves DEF WriteTemp, At
  <2>2. ProcessInv(proc'[p])
    BY <2>1, MovedInv DEF Saving
  <2>3. file = proc[p].prev
    BY <2>1 DEF IInv, LockInv
  <2> QED
    BY <2>1, <2>2, <2>3, LocalStep DEF Moved, Critical, Saving
<1>6. CASE GuardFails(p) \/ IOError(p)
  <2>1. Moved(p, "work") /\ proc[p].pc \in Critical /\ holder' = None
    BY <1>6, GotoMoves DEF GuardFails, IOError, Raises, At, Critical, Saving
  <2>2. ProcessInv(proc'[p])
    BY <2>1, MovedInv DEF Critical
  <2>3. holder = p
    BY <2>1 DEF IInv, LockInv
  <2>4. LockInv'
    BY <2>1, <2>3, HolderStep DEF Moved, Critical, Saving
  <2> QED
    BY <1>2, <2>1, <2>2, <2>4, OthersInv DEF IInv, Moved
<1> QED
  BY <1>3, <1>4, <1>5, <1>6

\* The rename: the file becomes what the save means to write, which continues
\* everything the name may have held.
LEMMA ReplaceContinues ==
  ASSUME IInv, NEW p \in Process, Replace(p)
  PROVE  /\ file' # Absent /\ Extends(file, file')
         /\ mayBe' = mayBe \cup {file'} /\ Kept(file')
         /\ file' = proc[p].text
<1>1. ProcessInv(proc[p]) /\ proc[p].pc = "written" /\ file = proc[p].prev
  BY DEF IInv, LockInv, Replace, At
<1>2. proc[p].durable = TRUE /\ file' = proc[p].text
  BY <1>1 DEF ProcessInv, Replace
<1> QED
  BY <1>1, <1>2 DEF ProcessInv, Replace, Saving

LEMMA ReplaceKeeps ==
  ASSUME IInv, NEW p \in Process, Replace(p)
  PROVE  IInv'
<1>1. Moved(p, "replaced") /\ proc[p].pc = "written" /\ UNCHANGED <<holder, acked>>
  BY GotoMoves DEF Replace, Goto, At
<1>2. ProcessInv(proc'[p])
  BY <1>1, MovedInv DEF Saving
<1>3. holder = p /\ holder' = p
  BY <1>1 DEF IInv, LockInv, Critical, Saving
<1>4. file' = proc'[p].text
  BY <1>1, ReplaceContinues DEF Moved
<1>5. LockInv'
  BY <1>1, <1>3, <1>4, HolderStep DEF Moved, Critical, Saving
<1>6. DiskInv'
  <2>1. \A m \in mayBe' : Kept(m) /\ Extends(m, file')
    <3>1. \A m \in mayBe : Kept(m) /\ Extends(m, file) /\ Kept(file)
      BY DEF IInv, DiskInv
    <3> QED
      BY <3>1, ReplaceContinues, ExtendsTransitive, ExtendsReflexive
  <2>2. \A a \in acked, m \in mayBe' : Extends(a, m)
    <3>1. \A a \in acked : Kept(a) /\ Kept(file) /\ Extends(a, file)
      BY DEF IInv, DiskInv, AckedWorkSurvives
    <3>2. \A a \in acked : Extends(a, file')
      BY <3>1, ReplaceContinues, ExtendsTransitive
    <3> QED
      BY <3>2, ReplaceContinues DEF IInv, DiskInv, AckedWorkSurvives
  <2>3. file' \in mayBe'
    BY ReplaceContinues
  <2> QED
    BY <1>1, <2>1, <2>2, <2>3 DEF IInv, DiskInv, AckedWorkSurvives
<1> QED
  BY <1>1, <1>2, <1>5, <1>6, OthersInv DEF IInv, Moved

\* The directory is synced: nothing but the file can come back.
LEMMA SyncDirKeeps ==
  ASSUME IInv, NEW p \in Process, SyncDir(p)
  PROVE  IInv'
<1>1. /\ Moved(p, "synced") /\ proc[p].pc = "replaced" /\ UNCHANGED <<file, holder, acked>>
      /\ mayBe' = {file}
  BY GotoMoves DEF SyncDir, Goto, At
<1>2. ProcessInv(proc'[p])
  BY <1>1, MovedInv DEF Saving
<1>3. holder = p /\ file = proc[p].text
  BY <1>1 DEF IInv, LockInv, Critical, Saving
<1>4. LockInv'
  BY <1>1, <1>3, HolderStep DEF Moved, Critical, Saving
<1>5. DiskInv'
  <2>1. Kept(file) /\ Extends(file, file)
    BY ExtendsReflexive DEF IInv, DiskInv
  <2> QED
    BY <1>1, <2>1 DEF IInv, DiskInv, AckedWorkSurvives
<1> QED
  BY <1>1, <1>2, <1>4, <1>5, OthersInv DEF IInv, Moved

\* save returns: what it acknowledges is all the name can hold.
LEMMA ReturnKeeps ==
  ASSUME IInv, NEW p \in Process, Return(p)
  PROVE  IInv' /\ acked' = acked \cup {file} /\ file # Absent
<1> DEFINE text == proc[p].text
           r == [proc[p] EXCEPT !.pc = "work", !.prev = text, !.text = Absent,
                                !.durable = FALSE]
<1>0. /\ ProcessInv(proc[p]) /\ proc[p].pc = "synced"
      /\ holder = p /\ file = text /\ mayBe = {file}
      /\ UNCHANGED <<file, mayBe>> /\ holder' = None
      /\ acked' = acked \cup {text}
  BY DEF IInv, LockInv, Critical, Saving, Return, At
<1>1. /\ DOMAIN r = DOMAIN Off /\ r.pc = "work" /\ r.session = proc[p].session
      /\ r.prev = text /\ r.text = Absent
  BY <1>0, RecordFields DEF ProcessInv
<1>2. proc' = [proc EXCEPT ![p] = r]
  BY DEF Return, IInv
<1>3. text # Absent /\ Kept(text) /\ IsPrefix(text.events, proc[p].session.journal)
  BY <1>0 DEF ProcessInv, Saving
<1> HIDE DEF r
<1>4. proc'[p] = r /\ Touches(p)
  BY <1>2, ExceptTouches
<1>5. ProcessInv(r)
  BY <1>0, <1>1, <1>3 DEF ProcessInv, Kept, Saving
<1>6. LockInv'
  BY <1>0, <1>1, <1>4, HolderStep DEF Critical, Saving
<1>7. DiskInv'
  <2>1. Extends(text, text)
    BY <1>3, ExtendsReflexive
  <2> QED
    BY <1>0, <1>3, <2>1 DEF IInv, DiskInv, AckedWorkSurvives
<1> QED
  BY <1>0, <1>3, <1>4, <1>5, <1>6, <1>7, OthersInv DEF IInv

\* The caller takes the digest it meant to write for its previous one.
LEMMA ReconcileKeeps ==
  ASSUME IInv, NEW p \in Process, Reconcile(p)
  PROVE  IInv'
<1> DEFINE r == [proc[p] EXCEPT !.prev = file]
<1>0. /\ ProcessInv(proc[p]) /\ proc[p].pc = "work" /\ UNCHANGED disk
      /\ proc[p].text # Absent /\ file = proc[p].text
  BY DEF IInv, Reconcile, At
<1>1. /\ DOMAIN r = DOMAIN Off /\ r.pc = "work" /\ r.session = proc[p].session
      /\ r.prev = file /\ r.text = proc[p].text
  BY <1>0, RecordFields DEF ProcessInv
<1>2. proc' = [proc EXCEPT ![p] = r]
  BY DEF Reconcile, IInv
<1> HIDE DEF r
<1>3. proc'[p] = r /\ Touches(p)
  BY <1>2, ExceptTouches
<1>4. ProcessInv(r)
  BY <1>0, <1>1 DEF ProcessInv, Saving
<1> QED
  BY <1>0, <1>1, <1>3, <1>4, LocalStep DEF Critical, Saving

\* A process dies; what it has done to the disk stays.
LEMMA CrashKeeps ==
  ASSUME IInv, NEW p \in Process, Crash(p)
  PROVE  IInv'
<1>1. proc'[p] = Off /\ Touches(p) /\ UNCHANGED <<file, mayBe, acked>>
  BY ExceptTouches DEF Crash
<1>2. DiskInv'
  BY <1>1 DEF IInv, DiskInv, AckedWorkSurvives
<1>3. LockInv'
  <2>1. Off.pc \notin Critical
    BY DEF Off, Critical, Saving
  <2>2. CASE holder = p
    BY <1>1, <2>1, <2>2, HolderStep DEF Crash, Off
  <2>3. CASE holder # p
    <3>1. holder' = holder
      BY <2>3 DEF Crash
    <3> QED
      BY <1>1, <2>1, <2>3, <3>1 DEF IInv, LockInv, Touches, Off
  <2> QED
    BY <2>2, <2>3
<1> QED
  BY <1>1, <1>2, <1>3, OffInv, OthersInv DEF IInv

\* Power is lost: the name comes back as one of the things it may hold.
LEMMA PowerLossKeeps ==
  ASSUME IInv, PowerLoss
  PROVE  IInv' /\ Extends(file', file) /\ \A a \in acked : Extends(a, file')
<1>1. /\ proc' = [q \in Process |-> Off] /\ holder' = None
      /\ file' \in mayBe /\ mayBe' = {file'} /\ acked' = acked
  BY DEF PowerLoss
<1>2. \A q \in Process : proc'[q] = Off
  BY <1>1
<1>3. (\A q \in Process : ProcessInv(proc[q]))'
  <2>1. \A q \in Process : ProcessInv(proc'[q])
    BY <1>2, OffInv
  <2> QED
    BY <2>1
<1>4. LockInv'
  BY <1>1, <1>2, CheckpointAssumption DEF LockInv, Off, Critical, Saving
<1>5. Kept(file') /\ Extends(file', file) /\ \A a \in acked : Extends(a, file')
  BY <1>1 DEF IInv, DiskInv, AckedWorkSurvives
<1>6. DiskInv'
  <2>1. Extends(file', file')
    BY <1>5, ExtendsReflexive
  <2> QED
    BY <1>1, <1>5, <2>1 DEF IInv, DiskInv, AckedWorkSurvives
<1>7. (proc = [q \in Process |-> proc[q]])'
  BY <1>1
<1> QED
  BY <1>3, <1>4, <1>5, <1>6, <1>7 DEF IInv

-----------------------------------------------------------------------------
\* Every step keeps the invariant.
LEMMA StepKeeps ==
  ASSUME IInv, [Next]_vars
  PROVE  IInv'
<1>1. CASE UNCHANGED vars
  BY <1>1 DEF IInv, LockInv, DiskInv, AckedWorkSurvives, vars
<1>2. CASE PowerLoss
  BY <1>2, PowerLossKeeps
<1>3. ASSUME NEW p \in Process,
             StudyStep(p) \/ Save(p) \/ SaveStep(p) \/ Reconcile(p) \/ IOError(p) \/ Crash(p)
      PROVE  IInv'
  <2>1. CASE StudyStep(p)
    BY <2>1, StartsKeep, OperationsKeep DEF StudyStep
  <2>2. CASE SaveStep(p) \/ IOError(p)
    BY <2>2, QuietStepsKeep, ReplaceKeeps, SyncDirKeeps, ReturnKeeps DEF SaveStep
  <2>3. CASE Save(p) \/ Reconcile(p) \/ Crash(p)
    BY <2>3, SaveKeeps, ReconcileKeeps, CrashKeeps
  <2> QED
    BY <1>3, <2>1, <2>2, <2>3
<1> QED
  BY <1>1, <1>2, <1>3 DEF Next

LEMMA Invariance == Spec => []IInv
  BY InitIInv, StepKeeps, PTL DEF Spec

\* Whatever the checkpoint's name may hold, now or after a power loss, continues
\* every checkpoint whose save has returned (storage.py write_checkpoint).
THEOREM AckedWorkSurvivesTheorem == Spec => []AckedWorkSurvives
<1>1. IInv => AckedWorkSurvives
  BY DEF IInv, DiskInv
<1> QED
  BY <1>1, Invariance, PTL

\* One process at a time is between taking and releasing the lock file
\* (storage.py _locked).
OneWriter ==
  \A p, q \in Process :
    proc[p].pc \in Critical /\ proc[q].pc \in Critical => p = q

THEOREM OneWriterTheorem == Spec => []OneWriter
<1>1. IInv => OneWriter
  BY DEF IInv, LockInv, OneWriter
<1> QED
  BY <1>1, Invariance, PTL

-----------------------------------------------------------------------------
\* The two specifications mean the same by one study continuing another.
LEMMA PromisedExtends ==
  ASSUME NEW c, NEW d, Extends(c, d)
  PROVE  Promise!Extends(c, d)
  BY DEF Extends, Promise!Extends, IsPrefix, Promise!IsPrefix

\* The file, its writers and its losses are those of AtomicCheckpoint: a rename
\* grows it, a save that returns acknowledges it, a power loss rolls it back,
\* and every other step leaves it alone.
LEMMA StepImplements ==
  ASSUME IInv, [Next]_vars
  PROVE  [Promise!Next]_(Promise!vars)
<1> SUFFICES \/ Promise!Grow \/ Promise!Acknowledge \/ Promise!Rollback
             \/ UNCHANGED <<file, acked>>
  BY DEF Promise!Next, Promise!vars
<1>1. CASE UNCHANGED vars
  BY <1>1 DEF vars
<1>2. CASE PowerLoss
  <2>1. Extends(file', file) /\ (\A a \in acked : Extends(a, file')) /\ acked' = acked
    BY <1>2, PowerLossKeeps DEF PowerLoss
  <2> QED
    BY <2>1, PromisedExtends DEF Promise!Rollback
<1>3. ASSUME NEW p \in Process,
             StudyStep(p) \/ Save(p) \/ SaveStep(p) \/ Reconcile(p) \/ IOError(p) \/ Crash(p)
      PROVE  Promise!Grow \/ Promise!Acknowledge \/ UNCHANGED <<file, acked>>
  <2>1. CASE Replace(p)
    <3>1. file' # Absent /\ Extends(file, file') /\ acked' = acked
      BY <2>1, ReplaceContinues DEF Replace
    <3> QED
      BY <3>1, PromisedExtends DEF Promise!Grow
  <2>2. CASE Return(p)
    <3>1. acked' = acked \cup {file} /\ file # Absent /\ file' = file
      BY <2>2, ReturnKeeps DEF Return
    <3>2. Extends(file, file)
      BY ExtendsReflexive DEF IInv, DiskInv
    <3> QED
      BY <3>1, <3>2, PromisedExtends DEF Promise!Acknowledge
  <2>3. CASE ~Replace(p) /\ ~Return(p)
    <3>1. CASE StudyStep(p)
      BY <3>1 DEF StudyStep, NewStudy, Load, Discard, DoAsk, DoAskFails, DoReport,
                  DoPrune, DoTell, DoHalf, Study, disk
    <3>2. CASE Save(p) \/ Reconcile(p) \/ IOError(p) \/ Crash(p)
      BY <3>2 DEF Save, Reconcile, IOError, Raises, Crash, disk
    <3>3. CASE SaveStep(p)
      BY <2>3, <3>3 DEF SaveStep, Lock, Guard, GuardFails, Raises, WriteTemp, SyncDir, disk
    <3> QED
      BY <1>3, <3>1, <3>2, <3>3
  <2> QED
    BY <2>1, <2>2, <2>3
<1> QED
  BY <1>1, <1>2, <1>3 DEF Next

\* The checkpoint file keeps the promises of AtomicCheckpoint (docs/
\* meta_selection/EXACT_CONTINUATION.md, Durability And Cost).
THEOREM ImplementsAtomicCheckpoint == Spec => Refinement
<1>1. Init => Promise!Init
  BY DEF Init, Promise!Init
<1> QED
  BY <1>1, Invariance, StepImplements, PTL DEF Spec, Refinement, Promise!Spec
-----------------------------------------------------------------------------
(* What a session replays to *)

\* The operation of a fold, for DataLemmas.
Applied(env, s, e) == Apply(s, e)

Data == INSTANCE DataLemmas WITH Op <- Applied

LEMMA ReplayIsFold ==
  ASSUME NEW j, NEW n \in Nat, DOMAIN j = 1..n
  PROVE  Replay(j) = Data!After(0, NewSession, j, n)
<1>1. Replay(j) = Data!Iteration(0, NewSession, j)[DOMAIN j]
  BY DEF Replay, FoldLeft, MapThenFoldSet, Max, Applied, Data!Iteration, Data!Highest
<1> QED
  BY <1>1 DEF Data!After

\* A new session has an empty journal, which replays to it.
LEMMA ReplayNew == Replay(<<>>) = NewSession
<1>1. 0 \in Nat /\ DOMAIN <<>> = 1..0
  OBVIOUS
<1>2. Data!Steps(0, NewSession, <<>>, 0)
  BY <1>1, Data!AfterOne
<1>3. Replay(<<>>) = Data!After(0, NewSession, <<>>, 0)
  BY <1>1, ReplayIsFold
<1> QED
  BY <1>2, <1>3 DEF Data!Steps

\* One more event is one more operation.
LEMMA ReplayAppend ==
  ASSUME NEW j, NEW e, Sq(j)
  PROVE  Replay(Append(j, e)) = Apply(Replay(j), e)
<1>1. PICK S : j \in Seq(S)
  BY DEF Sq
<1>2. j \in Seq(S \cup {e})
  BY <1>1
<1> DEFINE n == Len(j)
           k == Append(j, e)
<1>3. n \in Nat /\ DOMAIN j = 1..n
  BY <1>2
<1>4. /\ DOMAIN k = 1..(n + 1) /\ k[n + 1] = e
      /\ \A i \in 1..n : k[i] = j[i]
  BY <1>2
<1>5. n + 1 \in Nat
  BY <1>3
<1> HIDE DEF n, k
<1>6. Data!After(0, NewSession, k, n + 1) = Apply(Data!After(0, NewSession, j, n), k[n + 1])
  BY <1>3, <1>4, Data!AfterAppend DEF Applied
<1>7. Replay(j) = Data!After(0, NewSession, j, n)
  BY <1>3, ReplayIsFold
<1>8. Replay(k) = Data!After(0, NewSession, k, n + 1)
  BY <1>4, <1>5, ReplayIsFold
<1> QED
  BY <1>4, <1>6, <1>7, <1>8 DEF k
-----------------------------------------------------------------------------
(* What a session is made of *)

\* A trial, the trials of a study, those told complete.
TrialFields == {"param", "duplicate", "state", "value", "reports"}

IsTrial(t) ==
  /\ DOMAIN t = TrialFields
  /\ t.state \in {"RUNNING", "COMPLETE", "PRUNED", "FAIL"}
  /\ t.value \in Values \cup {None}
  /\ t.state = "COMPLETE" <=> t.value # None
  /\ Sq(t.reports) /\ Len(t.reports) <= MaxReports

Trials(tr) ==
  /\ Sq(tr) /\ Len(tr) <= Budget
  /\ \A n \in DOMAIN tr : IsTrial(tr[n])

Complete(tr) == {n \in DOMAIN tr : tr[n].state = "COMPLETE"}

Running(tr, pending) == pending \subseteq {n \in DOMAIN tr : tr[n].state = "RUNNING"}

Asked(tr, seen) == seen \subseteq {tr[n].param : n \in DOMAIN tr}

Counted(tr, early) ==
  /\ early.best \in Values \cup {None}
  /\ early.completed = Cardinality(Complete(tr))
  /\ early.stale \in 0..early.completed

Build(trials, pending, seen, stopped, early, poisoned, journal) ==
  [trials |-> trials, pending |-> pending, seen |-> seen, stopped |-> stopped,
   early |-> early, poisoned |-> poisoned, journal |-> journal]

\* A session, with nothing said of its replay.
Formed(s) ==
  /\ s = Build(s.trials, s.pending, s.seen, s.stopped, s.early, s.poisoned, s.journal)
  /\ Trials(s.trials)
  /\ Running(s.trials, s.pending)
  /\ Asked(s.trials, s.seen)
  /\ Counted(s.trials, s.early)
  /\ s.stopped \in BOOLEAN /\ s.poisoned \in BOOLEAN
  /\ Sq(s.journal) /\ Len(s.journal) <= MaxEvents

LEMMA FormedIsSession ==
  ASSUME NEW s, Formed(s)
  PROVE  IsSession(s) /\ Shaped(s)
<1>1. DOMAIN s = DOMAIN NewSession
  BY SessionFields DEF Formed, Build
<1> QED
  BY <1>1 DEF Formed, IsSession, Shaped, Trials, IsTrial, Running, Asked, Counted, Complete

\* A session assembled from parts that fit is one.
LEMMA BuildFormed ==
  ASSUME NEW tr, NEW pe, NEW se, NEW st \in BOOLEAN, NEW ea, NEW po \in BOOLEAN, NEW jo,
         Trials(tr), Running(tr, pe), Asked(tr, se), Counted(tr, ea),
         Sq(jo), Len(jo) <= MaxEvents
  PROVE  Formed(Build(tr, pe, se, st, ea, po, jo))
BY DEF Formed, Build

\* The fields of a record with the fields of a session are all of it.
LEMMA Rebuilt ==
  ASSUME NEW s, Formed(s), NEW u, u = [x \in DOMAIN s |-> u[x]]
  PROVE  u = Build(u.trials, u.pending, u.seen, u.stopped, u.early, u.poisoned, u.journal)
<1>1. DOMAIN s = {"trials", "pending", "seen", "stopped", "early", "poisoned", "journal"}
  BY DEF Formed, Build
<1>2. u = [x \in {"trials", "pending", "seen", "stopped", "early", "poisoned", "journal"}
             |-> u[x]]
  BY <1>1
<1> QED
  BY <1>2 DEF Build

\* A session that is poisoned, with or without one more trial.
LEMMA PoisonedBuilt ==
  ASSUME NEW s, Formed(s), NEW tr, NEW po
  PROVE  [s EXCEPT !.trials = tr, !.poisoned = po]
           = Build(tr, s.pending, s.seen, s.stopped, s.early, po, s.journal)
<1> DEFINE u == [s EXCEPT !.trials = tr, !.poisoned = po]
<1>1. DOMAIN s = {"trials", "pending", "seen", "stopped", "early", "poisoned", "journal"}
  BY DEF Formed, Build
<1>2. /\ u.trials = tr /\ u.pending = s.pending /\ u.seen = s.seen
      /\ u.stopped = s.stopped /\ u.early = s.early /\ u.poisoned = po
      /\ u.journal = s.journal
  BY <1>1
<1>3. u = [x \in DOMAIN s |-> u[x]]
  OBVIOUS
<1> HIDE DEF u
<1>4. u = Build(tr, s.pending, s.seen, s.stopped, s.early, po, s.journal)
  BY <1>2, <1>3, Rebuilt
<1> QED
  BY <1>4 DEF u

LEMMA NewFormed == Formed(NewSession)
<1>1. Sq(<<>>) /\ Len(<<>>) = 0 /\ DOMAIN <<>> = {}
  BY DEF Sq
<1>2. Trials(<<>>) /\ Running(<<>>, {}) /\ Asked(<<>>, {})
  BY <1>1, SessionAssumption DEF Trials, Running, Asked
<1>3. Complete(<<>>) = {}
  BY <1>1 DEF Complete
<1> DEFINE early == [best |-> None, stale |-> 0, completed |-> 0]
<1>4. Counted(<<>>, early)
  BY <1>3, FS_EmptySet DEF Counted
<1>5. NewSession = Build(<<>>, {}, {}, FALSE, early, FALSE, <<>>)
  BY DEF NewSession, Build
<1>6. Len(<<>>) <= MaxEvents
  BY <1>1, SessionAssumption
<1> HIDE DEF early
<1> QED
  BY <1>1, <1>2, <1>4, <1>5, <1>6, BuildFormed

\* The complete trials are a finite set.
LEMMA CompleteFinite ==
  ASSUME NEW tr, Trials(tr)
  PROVE  IsFiniteSet(Complete(tr)) /\ Cardinality(Complete(tr)) \in Nat
<1>1. Len(tr) \in Nat /\ DOMAIN tr = 1..Len(tr)
  BY DEF Trials, Sq
<1>2. IsFiniteSet(1..Len(tr))
  BY <1>1, FS_Interval
<1>3. Complete(tr) \subseteq 1..Len(tr)
  BY <1>1 DEF Complete
<1>4. IsFiniteSet(Complete(tr))
  BY <1>2, <1>3, FS_Subset
<1> QED
  BY <1>4, FS_CardinalityType

\* A trial that is asked for.
LEMMA TrialAdded ==
  ASSUME NEW tr, NEW t, NEW pe, NEW se, Trials(tr), Len(tr) < Budget,
         Running(tr, pe), Asked(tr, se), IsTrial(t), t.state = "RUNNING"
  PROVE  /\ Trials(Append(tr, t))
         /\ Running(Append(tr, t), pe \cup {Len(tr) + 1})
         /\ Running(Append(tr, t), pe)
         /\ Asked(Append(tr, t), se \cup {t.param})
         /\ Asked(Append(tr, t), se)
         /\ Complete(Append(tr, t)) = Complete(tr)
<1>1. PICK S : tr \in Seq(S)
  BY DEF Trials, Sq
<1>2. tr \in Seq(S \cup {t})
  BY <1>1
<1>3. /\ Len(tr) \in Nat /\ DOMAIN tr = 1..Len(tr)
      /\ Append(tr, t) \in Seq(S \cup {t})
      /\ DOMAIN Append(tr, t) = 1..(Len(tr) + 1)
      /\ Len(Append(tr, t)) = Len(tr) + 1
      /\ Append(tr, t)[Len(tr) + 1] = t
      /\ \A n \in 1..Len(tr) : Append(tr, t)[n] = tr[n]
  BY <1>2
<1> DEFINE u == Append(tr, t)
           m == Len(tr)
<1>4. /\ m \in Nat /\ DOMAIN tr = 1..m /\ u \in Seq(S \cup {t})
      /\ DOMAIN u = 1..(m + 1) /\ Len(u) = m + 1
      /\ u[m + 1] = t /\ \A n \in 1..m : u[n] = tr[n]
  BY <1>3
<1>5. Len(u) <= Budget
  BY <1>4, SessionAssumption
<1> HIDE DEF u, m
<1>6. \A n \in DOMAIN u : n \in DOMAIN tr \/ n = m + 1
  BY <1>4
<1>7. Trials(u)
  BY <1>4, <1>5, <1>6 DEF Trials, Sq
<1>8. Running(u, pe \cup {m + 1}) /\ Running(u, pe)
  BY <1>4 DEF Running
<1>9. Asked(u, se \cup {t.param}) /\ Asked(u, se)
  <2>1. \A n \in DOMAIN tr : n \in DOMAIN u /\ u[n].param = tr[n].param
    BY <1>4
  <2>2. m + 1 \in DOMAIN u /\ u[m + 1].param = t.param
    BY <1>4
  <2> QED
    BY <2>1, <2>2 DEF Asked
<1>10. Complete(u) = Complete(tr)
  <2>1. \A n \in DOMAIN tr : n \in DOMAIN u /\ u[n].state = tr[n].state
    BY <1>4
  <2>2. u[m + 1].state # "COMPLETE"
    BY <1>4
  <2> QED
    BY <1>6, <2>1, <2>2 DEF Complete
<1> QED
  BY <1>7, <1>8, <1>9, <1>10 DEF u, m

\* A trial that moves on.
LEMMA TrialMoved ==
  ASSUME NEW tr, NEW n \in DOMAIN tr, NEW t, NEW pe, NEW se, Trials(tr),
         Running(tr, pe), Asked(tr, se), IsTrial(t), t.param = tr[n].param
  PROVE  LET u == [tr EXCEPT ![n] = t] IN
         /\ Trials(u)
         /\ t.state = "RUNNING" => Running(u, pe)
         /\ Running(u, pe \ {n})
         /\ Asked(u, se)
         /\ Complete(u) = IF t.state = "COMPLETE" THEN Complete(tr) \cup {n}
                                                  ELSE Complete(tr) \ {n}
<1> DEFINE u == [tr EXCEPT ![n] = t]
<1>1. PICK S : tr \in Seq(S)
  BY DEF Trials, Sq
<1>2. tr \in Seq(S \cup {t}) /\ n \in 1..Len(tr)
  BY <1>1
<1>3. /\ u \in Seq(S \cup {t}) /\ DOMAIN u = DOMAIN tr /\ Len(u) = Len(tr)
      /\ u[n] = t /\ \A m \in DOMAIN tr \ {n} : u[m] = tr[m]
  BY <1>2
<1> HIDE DEF u
<1>4. Trials(u)
  <2>1. Sq(u)
    BY <1>3 DEF Sq
  <2> QED
    BY <1>3, <2>1 DEF Trials
<1>5. (t.state = "RUNNING" => Running(u, pe)) /\ Running(u, pe \ {n})
  BY <1>3 DEF Running
<1>6. Asked(u, se)
  <2>1. \A m \in DOMAIN tr : m \in DOMAIN u /\ u[m].param = tr[m].param
    BY <1>3
  <2> QED
    BY <2>1 DEF Asked
<1>7. Complete(u) = IF t.state = "COMPLETE" THEN Complete(tr) \cup {n}
                                            ELSE Complete(tr) \ {n}
  BY <1>3 DEF Complete
<1> QED
  BY <1>4, <1>5, <1>6, <1>7 DEF u
-----------------------------------------------------------------------------
(* The operations of a session, and replaying them *)

\* A session that has not been poisoned is what its journal replays to.
Exact(s) == Usable(s) => Replay(s.journal) = s

Good(s) == Formed(s) /\ Exact(s)

LEMMA NewGood == Good(NewSession)
  BY NewFormed, ReplayNew DEF Good, Exact, NewSession

LEMMA RecordCases ==
  ASSUME NEW t, NEW e, Formed(t)
  PROVE  /\ Formed(Record(t, e))
         /\ Len(t.journal) >= MaxEvents => ~Usable(Record(t, e))
         /\ ~(Len(t.journal) >= MaxEvents) => Record(t, e).journal = Append(t.journal, e)
<1>1. t = Build(t.trials, t.pending, t.seen, t.stopped, t.early, t.poisoned, t.journal)
  BY DEF Formed
<1>2. CASE Len(t.journal) >= MaxEvents
  <2>1. Record(t, e) = Build(t.trials, t.pending, t.seen, t.stopped, t.early, TRUE, t.journal)
    BY <1>1, <1>2 DEF Record, Build
  <2>2. Record(t, e).poisoned = TRUE
    BY <2>1 DEF Build
  <2>3. /\ Trials(t.trials) /\ Running(t.trials, t.pending) /\ Asked(t.trials, t.seen)
        /\ Counted(t.trials, t.early) /\ t.stopped \in BOOLEAN
        /\ Sq(t.journal) /\ Len(t.journal) <= MaxEvents
    BY DEF Formed
  <2>4. Formed(Record(t, e))
    BY <2>1, <2>3, BuildFormed
  <2> QED
    BY <1>2, <2>2, <2>4 DEF Usable
<1>3. CASE ~(Len(t.journal) >= MaxEvents)
  <2>1. Record(t, e) = Build(t.trials, t.pending, t.seen, t.stopped, t.early, t.poisoned,
                             Append(t.journal, e))
    BY <1>1, <1>3 DEF Record, Build
  <2>2. Record(t, e).journal = Append(t.journal, e)
    BY <2>1 DEF Build
  <2>3. Sq(Append(t.journal, e))
    BY PrefixAppend DEF Formed
  <2>4. Len(Append(t.journal, e)) <= MaxEvents
    <3>1. PICK S : t.journal \in Seq(S)
      BY DEF Formed, Sq
    <3>2. t.journal \in Seq(S \cup {e})
      BY <3>1
    <3>3. Len(t.journal) \in Nat /\ Len(Append(t.journal, e)) = Len(t.journal) + 1
      BY <3>2
    <3> QED
      BY <1>3, <3>3, SessionAssumption
  <2>5. /\ Trials(t.trials) /\ Running(t.trials, t.pending) /\ Asked(t.trials, t.seen)
        /\ Counted(t.trials, t.early) /\ t.stopped \in BOOLEAN /\ t.poisoned \in BOOLEAN
    BY DEF Formed
  <2>6. Formed(Record(t, e))
    BY <2>1, <2>3, <2>4, <2>5, BuildFormed
  <2> QED
    BY <1>3, <2>2, <2>6
<1> QED
  BY <1>2, <1>3

\* An operation that replays as it was done leaves a session that replays.
LEMMA Recorded ==
  ASSUME NEW s, NEW t, NEW e, Good(s), Usable(s), Formed(t), t.journal = s.journal,
         Apply(s, e) = Record(t, e)
  PROVE  Good(Record(t, e))
<1>1. CASE Len(t.journal) >= MaxEvents
  BY <1>1, RecordCases DEF Good, Exact
<1>2. CASE ~(Len(t.journal) >= MaxEvents)
  <2>1. Formed(Record(t, e)) /\ Record(t, e).journal = Append(s.journal, e)
    BY <1>2, RecordCases
  <2>2. Replay(Append(s.journal, e)) = Apply(Replay(s.journal), e)
    BY ReplayAppend DEF Good, Formed
  <2>3. Replay(s.journal) = s
    BY DEF Good, Exact
  <2> QED
    BY <2>1, <2>2, <2>3 DEF Good, Exact
<1> QED
  BY <1>1, <1>2

LEMMA NewTrialIs ==
  ASSUME NEW p, NEW dup
  PROVE  /\ IsTrial(NewTrial(p, dup)) /\ NewTrial(p, dup).state = "RUNNING"
         /\ NewTrial(p, dup).param = p
<1>1. Sq(<<>>) /\ Len(<<>>) = 0
  BY DEF Sq
<1> QED
  BY <1>1, SessionAssumption DEF NewTrial, IsTrial, TrialFields

LEMMA AskGood ==
  ASSUME NEW s, Good(s), MayAsk(s)
  PROVE  Good(Ask(s)) /\ Good(AskFails(s))
<1> DEFINE n == Len(s.trials) + 1
           p == Suggest(s.trials)
           dup == p \in s.seen
           asked == Build(Append(s.trials, NewTrial(p, dup)), s.pending \cup {n},
                          s.seen \cup {p}, s.stopped, s.early, s.poisoned, s.journal)
           failed == Build(Append(s.trials, NewTrial(None, FALSE)), s.pending,
                           s.seen, s.stopped, s.early, TRUE, s.journal)
           event == [op |-> "ask", number |-> n, effective |-> p, duplicate |-> dup]
<1>1. Formed(s) /\ Usable(s) /\ Len(s.trials) < Budget
  BY DEF Good, MayAsk
<1>0. DOMAIN s = {"trials", "pending", "seen", "stopped", "early", "poisoned", "journal"}
  BY <1>1 DEF Formed, Build
<1>p. /\ Trials(s.trials) /\ Running(s.trials, s.pending) /\ Asked(s.trials, s.seen)
      /\ Counted(s.trials, s.early) /\ s.stopped \in BOOLEAN /\ s.poisoned \in BOOLEAN
      /\ Sq(s.journal) /\ Len(s.journal) <= MaxEvents
  BY <1>1 DEF Formed
<1>2. Ask(s) = Record(asked, event)
  <2> DEFINE u == [s EXCEPT !.trials = Append(@, NewTrial(p, dup)),
                            !.pending = @ \cup {n}, !.seen = @ \cup {p}]
  <2>1. /\ u.trials = Append(s.trials, NewTrial(p, dup))
        /\ u.pending = s.pending \cup {n} /\ u.seen = s.seen \cup {p}
        /\ u.stopped = s.stopped /\ u.early = s.early /\ u.poisoned = s.poisoned
        /\ u.journal = s.journal
    BY <1>0
  <2>2. u = [x \in DOMAIN s |-> u[x]]
    OBVIOUS
  <2>3. u = asked
    <3> HIDE DEF u, n, p, dup
    <3> QED
      BY <1>1, <2>1, <2>2, Rebuilt, ZenonT(30)
  <2> HIDE DEF asked
  <2> QED
    BY <2>3 DEF Ask
<1>3. Formed(asked) /\ asked.journal = s.journal
  <2>1. /\ Trials(Append(s.trials, NewTrial(p, dup)))
        /\ Running(Append(s.trials, NewTrial(p, dup)), s.pending \cup {n})
        /\ Asked(Append(s.trials, NewTrial(p, dup)), s.seen \cup {p})
        /\ Complete(Append(s.trials, NewTrial(p, dup))) = Complete(s.trials)
    <3> HIDE DEF p, dup
    <3>1. IsTrial(NewTrial(p, dup)) /\ NewTrial(p, dup).state = "RUNNING"
          /\ NewTrial(p, dup).param = p
      BY NewTrialIs
    <3> QED
      BY <1>1, <3>1, TrialAdded DEF Formed
  <2>2. Counted(Append(s.trials, NewTrial(p, dup)), s.early)
    BY <1>1, <2>1 DEF Formed, Counted
  <2>3. asked.journal = s.journal
    BY DEF Build
  <2> HIDE DEF p, dup, n
  <2> QED
    BY <1>p, <2>1, <2>2, <2>3, BuildFormed
<1>4. Apply(s, event) = Ask(s)
  <2>1. event.op = "ask"
    OBVIOUS
  <2> HIDE DEF event
  <2> QED
    BY <2>1 DEF Apply
<1>5. Good(Ask(s))
  <2> HIDE DEF asked, event
  <2> QED
    BY <1>1, <1>2, <1>3, <1>4, Recorded
<1>6. AskFails(s) = failed
  BY <1>1, PoisonedBuilt DEF AskFails
<1>7. Formed(failed)
  <2>1. /\ Trials(Append(s.trials, NewTrial(None, FALSE)))
        /\ Running(Append(s.trials, NewTrial(None, FALSE)), s.pending)
        /\ Asked(Append(s.trials, NewTrial(None, FALSE)), s.seen)
        /\ Complete(Append(s.trials, NewTrial(None, FALSE))) = Complete(s.trials)
    <3>1. IsTrial(NewTrial(None, FALSE)) /\ NewTrial(None, FALSE).state = "RUNNING"
      BY NewTrialIs
    <3> QED
      BY <1>1, <1>p, <3>1, TrialAdded
  <2>2. Counted(Append(s.trials, NewTrial(None, FALSE)), s.early)
    BY <1>p, <2>1 DEF Counted
  <2> QED
    BY <1>p, <2>1, <2>2, BuildFormed
<1>8. ~Usable(failed)
  BY DEF Usable, Build
<1> QED
  BY <1>5, <1>6, <1>7, <1>8 DEF Good, Exact

LEMMA HalfDoneGood ==
  ASSUME NEW s, Good(s)
  PROVE  Good(HalfDone(s))
<1>p. /\ Trials(s.trials) /\ Running(s.trials, s.pending) /\ Asked(s.trials, s.seen)
      /\ Counted(s.trials, s.early) /\ s.stopped \in BOOLEAN
      /\ Sq(s.journal) /\ Len(s.journal) <= MaxEvents
  BY DEF Good, Formed
<1>1. HalfDone(s) = Build(s.trials, s.pending, s.seen, s.stopped, s.early, TRUE, s.journal)
  <2>1. HalfDone(s) = [s EXCEPT !.trials = s.trials, !.poisoned = TRUE]
    BY DEF Good, Formed, HalfDone, Build
  <2> QED
    BY <2>1, PoisonedBuilt DEF Good
<1>2. HalfDone(s).poisoned = TRUE
  BY <1>1 DEF Build
<1>3. Formed(HalfDone(s))
  BY <1>p, <1>1, BuildFormed
<1> QED
  BY <1>2, <1>3 DEF Good, Exact, Usable

LEMMA PruneGood ==
  ASSUME NEW s, NEW n, Good(s), Owned(s, n)
  PROVE  Good(ShouldPrune(s, n))
<1> DEFINE event == [op |-> "prune", number |-> n, answer |-> Pruned(s.trials, n)]
<1>1. ShouldPrune(s, n) = Record(s, event)
  BY DEF ShouldPrune
<1>2. Apply(s, event) = ShouldPrune(s, n)
  <2>1. event.op = "prune" /\ event.number = n
    OBVIOUS
  <2> HIDE DEF event
  <2> QED
    BY <2>1 DEF Apply
<1> HIDE DEF event
<1> QED
  BY <1>1, <1>2, Recorded DEF Good, Owned

LEMMA ReportGood ==
  ASSUME NEW s, NEW n, NEW v, Good(s), MayReport(s, n)
  PROVE  Good(Report(s, n, v))
<1> DEFINE t == [s.trials[n] EXCEPT !.reports = Append(@, v)]
           moved == [s.trials EXCEPT ![n] = t]
           reported == Build(moved, s.pending, s.seen, s.stopped, s.early, s.poisoned,
                             s.journal)
           event == [op |-> "report", number |-> n, value |-> v]
<1>1. /\ Formed(s) /\ Usable(s) /\ n \in s.pending /\ n \in DOMAIN s.trials
      /\ s.trials[n].state = "RUNNING" /\ IsTrial(s.trials[n])
      /\ Len(s.trials[n].reports) < MaxReports
  BY DEF Good, MayReport, Owned, Formed, Running, Trials
<1>0. DOMAIN s = {"trials", "pending", "seen", "stopped", "early", "poisoned", "journal"}
  BY <1>1 DEF Formed, Build
<1>p. /\ Trials(s.trials) /\ Running(s.trials, s.pending) /\ Asked(s.trials, s.seen)
      /\ Counted(s.trials, s.early) /\ s.stopped \in BOOLEAN /\ s.poisoned \in BOOLEAN
      /\ Sq(s.journal) /\ Len(s.journal) <= MaxEvents
  BY <1>1 DEF Formed
<1>2. IsTrial(t) /\ t.state = "RUNNING" /\ t.param = s.trials[n].param
  <2>1. PICK r : r = s.trials[n].reports
    OBVIOUS
  <2>2. Sq(r) /\ Len(r) < MaxReports
    BY <1>1, <2>1 DEF IsTrial
  <2>3. PICK S : r \in Seq(S)
    BY <2>2 DEF Sq
  <2>4. r \in Seq(S \cup {v})
    BY <2>3
  <2>5. Append(r, v) \in Seq(S \cup {v}) /\ Len(Append(r, v)) = Len(r) + 1 /\ Len(r) \in Nat
    BY <2>4
  <2>6. Sq(Append(r, v)) /\ Len(Append(r, v)) <= MaxReports
    BY <2>2, <2>5, SessionAssumption DEF Sq
  <2>7. t.reports = Append(r, v)
    BY <1>1, <2>1 DEF IsTrial, TrialFields
  <2>8. /\ DOMAIN t = TrialFields /\ t.state = s.trials[n].state
        /\ t.value = s.trials[n].value /\ t.param = s.trials[n].param
    BY <1>1 DEF IsTrial, TrialFields
  <2> HIDE DEF t
  <2> QED
    BY <1>1, <2>6, <2>7, <2>8 DEF IsTrial
<1>3. Report(s, n, v) = Record(reported, event)
  <2> DEFINE u == [s EXCEPT !.trials[n].reports = Append(@, v)]
  <2>1. u.trials = moved
    BY <1>0
  <2>2. /\ u.pending = s.pending /\ u.seen = s.seen
        /\ u.stopped = s.stopped /\ u.early = s.early /\ u.poisoned = s.poisoned
        /\ u.journal = s.journal
    BY <1>0
  <2>3. u = [x \in DOMAIN s |-> u[x]]
    OBVIOUS
  <2>4. u = reported
    <3> HIDE DEF u, moved
    <3> QED
      BY <1>1, <2>1, <2>2, <2>3, Rebuilt
  <2> HIDE DEF reported
  <2> QED
    BY <2>4 DEF Report
<1>4. Formed(reported) /\ reported.journal = s.journal
  <2>1. /\ Trials(moved) /\ Running(moved, s.pending) /\ Asked(moved, s.seen)
        /\ Complete(moved) = Complete(s.trials) \ {n}
    <3> HIDE DEF t
    <3> QED
      BY <1>1, <1>2, TrialMoved DEF Formed
  <2>2. n \notin Complete(s.trials)
    BY <1>1 DEF Complete
  <2>3. Complete(moved) = Complete(s.trials)
    BY <2>1, <2>2
  <2> HIDE DEF moved
  <2>4. Counted(moved, s.early)
    BY <1>1, <2>3 DEF Formed, Counted
  <2>5. reported.journal = s.journal
    BY DEF Build
  <2> QED
    BY <1>p, <2>1, <2>4, <2>5, BuildFormed
<1>5. Apply(s, event) = Report(s, n, v)
  <2>1. event.op = "report" /\ event.number = n /\ event.value = v
    OBVIOUS
  <2> HIDE DEF event
  <2> QED
    BY <2>1 DEF Apply
<1> HIDE DEF reported, event
<1> QED
  BY <1>1, <1>3, <1>4, <1>5, Recorded
\* The best of the complete trials is one of their values.
LEMMA BestIsValue ==
  ASSUME NEW tr, Trials(tr), Complete(tr) # {}
  PROVE  BestValue(tr) \in Values
<1> DEFINE told == {tr[i].value : i \in Complete(tr)}
           key == [i \in Complete(tr) |-> tr[i].value]
<1>1. Data!IsFiniteSet(Complete(tr))
  BY CompleteFinite DEF IsFiniteSet, Data!IsFiniteSet
<1>2. \A i \in Complete(tr) : tr[i].value \in Values /\ key[i] \in Int
  BY SessionAssumption DEF Trials, IsTrial, Complete
<1>3. PICK i \in Complete(tr) : \A j \in Complete(tr) : key[j] <= key[i]
  <2> HIDE DEF key
  <2> QED
    BY <1>1, <1>2, Data!LargestKey
<1>5. tr[i].value \in told /\ \A w \in told : w <= tr[i].value
  BY <1>3
<1>6. BestValue(tr) = CHOOSE v \in told : \A w \in told : w <= v
  BY DEF BestValue, Complete
<1>7. BestValue(tr) \in told
  <2> HIDE DEF told
  <2> QED
    BY <1>5, <1>6
<1> QED
  BY <1>2, <1>7

\* A tell is determined by the state and the value that are told.
LEMMA TellAlike ==
  ASSUME NEW s, NEW n, NEW o, NEW q, o.state = q.state, o.value = q.value
  PROVE  Tell(s, n, o) = Tell(s, n, q)
<1> DEFINE Body(state, value) ==
      LET told  == [s EXCEPT !.trials[n].state = state,
                             !.trials[n].value = value,
                             !.pending = @ \ {n}]
          after == IF state = "COMPLETE" THEN EarlyStopping(told) ELSE told
      IN Record(after, [op |-> "tell", number |-> n, value |-> value,
                        state |-> state, stopped |-> after.stopped])
<1>1. Tell(s, n, o) = Body(o.state, o.value) /\ Tell(s, n, q) = Body(q.state, q.value)
  BY DEF Tell
<1> HIDE DEF Body
<1> QED
  BY <1>1

\* What the early stopping changes of a session: its count of complete trials,
\* the best value, the trials since, and whether the study is stopped.
Stops(s, t) ==
  /\ t = Build(s.trials, s.pending, s.seen, t.stopped, t.early, s.poisoned, s.journal)
  /\ t.stopped \in BOOLEAN
  /\ t.early.best \in {BestValue(s.trials), s.early.best}
  /\ t.early.completed = s.early.completed + 1
  /\ t.early.stale \in {0, s.early.stale + 1}

LEMMA EarlyStops ==
  ASSUME NEW s, s = [x \in DOMAIN NewSession |-> s[x]]
  PROVE  Stops(s, EarlyStopping(s))
<1> DEFINE u == EarlyStopping(s)
           current   == BestValue(s.trials)
           improved  == s.early.best = None \/ current > s.early.best + MinDelta
           stale     == IF improved THEN 0 ELSE s.early.stale + 1
           completed == s.early.completed + 1
           early == [best      |-> IF improved THEN current ELSE s.early.best,
                     stale     |-> stale,
                     completed |-> completed]
           stopped == s.stopped \/ (completed >= MinTrials /\ stale >= Patience)
<1>1. DOMAIN s = {"trials", "pending", "seen", "stopped", "early", "poisoned", "journal"}
  BY SessionFields
<1>2. u = [s EXCEPT !.early = early, !.stopped = stopped]
  BY DEF EarlyStopping
<1>3. stopped \in BOOLEAN
  OBVIOUS
<1>4. /\ early.best \in {BestValue(s.trials), s.early.best}
      /\ early.completed = s.early.completed + 1
      /\ early.stale \in {0, s.early.stale + 1}
  OBVIOUS
<1>5. /\ u.trials = s.trials /\ u.pending = s.pending /\ u.seen = s.seen
      /\ u.stopped = stopped /\ u.early = early /\ u.poisoned = s.poisoned
      /\ u.journal = s.journal
  <2> HIDE DEF u, early, stopped
  <2> QED
    BY <1>1, <1>2
<1>6. u = [x \in {"trials", "pending", "seen", "stopped", "early", "poisoned", "journal"}
             |-> u[x]]
  <2> HIDE DEF u, early, stopped
  <2> QED
    BY <1>1, <1>2
<1> HIDE DEF u, early, stopped
<1>7. u = Build(u.trials, u.pending, u.seen, u.stopped, u.early, u.poisoned, u.journal)
  BY <1>6 DEF Build
<1>8. u = Build(s.trials, s.pending, s.seen, u.stopped, u.early, s.poisoned, s.journal)
  BY <1>5, <1>7
<1>9. Stops(s, u)
  BY <1>3, <1>4, <1>5, <1>8 DEF Stops
<1> QED
  BY <1>9 DEF u

LEMMA TellGood ==
  ASSUME NEW s, NEW n, NEW out \in Outcomes, Good(s), MayTell(s, n, out)
  PROVE  Good(Tell(s, n, out))
<1> DEFINE t == [s.trials[n] EXCEPT !.state = out.state, !.value = out.value]
           moved == [s.trials EXCEPT ![n] = t]
           told == [s EXCEPT !.trials[n].state = out.state,
                             !.trials[n].value = out.value,
                             !.pending = @ \ {n}]
           after == IF out.state = "COMPLETE" THEN EarlyStopping(told) ELSE told
           event == [op |-> "tell", number |-> n, value |-> out.value,
                     state |-> out.state, stopped |-> after.stopped]
<1>1. /\ Formed(s) /\ Usable(s) /\ n \in s.pending /\ n \in DOMAIN s.trials
      /\ s.trials[n].state = "RUNNING" /\ IsTrial(s.trials[n])
  BY DEF Good, MayTell, Owned, Formed, Running, Trials
<1>0. DOMAIN s = {"trials", "pending", "seen", "stopped", "early", "poisoned", "journal"}
  BY <1>1 DEF Formed, Build
<1>p. /\ Trials(s.trials) /\ Running(s.trials, s.pending) /\ Asked(s.trials, s.seen)
      /\ Counted(s.trials, s.early) /\ s.stopped \in BOOLEAN /\ s.poisoned \in BOOLEAN
      /\ Sq(s.journal) /\ Len(s.journal) <= MaxEvents
  BY <1>1 DEF Formed
<1>2. /\ out.state \in {"COMPLETE", "PRUNED", "FAIL"}
      /\ out.value \in Values \cup {None}
      /\ out.state = "COMPLETE" <=> out.value # None
  BY SessionAssumption DEF Outcomes
<1>3. /\ IsTrial(t) /\ t.state = out.state /\ t.param = s.trials[n].param
  <2>1. /\ DOMAIN t = TrialFields /\ t.state = out.state /\ t.value = out.value
        /\ t.reports = s.trials[n].reports /\ t.param = s.trials[n].param
    BY <1>1 DEF IsTrial, TrialFields
  <2> HIDE DEF t
  <2> QED
    BY <1>1, <1>2, <2>1 DEF IsTrial
<1>4. told = Build(moved, s.pending \ {n}, s.seen, s.stopped, s.early, s.poisoned, s.journal)
  <2>1. told.trials = moved
    BY <1>0
  <2>2. /\ told.pending = s.pending \ {n} /\ told.seen = s.seen
        /\ told.stopped = s.stopped /\ told.early = s.early /\ told.poisoned = s.poisoned
        /\ told.journal = s.journal
    BY <1>0
  <2>3. told = [x \in DOMAIN s |-> told[x]]
    OBVIOUS
  <2> HIDE DEF told, moved
  <2> QED
    BY <1>1, <2>1, <2>2, <2>3, Rebuilt
<1>5. Tell(s, n, out) = Record(after, event)
  BY DEF Tell
<1>6. Apply(s, event) = Tell(s, n, out)
  <2>1. /\ event.op = "tell" /\ event.number = n
        /\ event.state = out.state /\ event.value = out.value
    OBVIOUS
  <2> HIDE DEF event
  <2>2. Tell(s, n, event) = Tell(s, n, out)
    BY <2>1, TellAlike
  <2>3. MayTell(s, n, event)
    BY <2>1 DEF MayTell
  <2> QED
    BY <2>1, <2>2, <2>3 DEF Apply
<1> HIDE DEF event, told
<1>7. /\ Trials(moved) /\ Running(moved, s.pending \ {n}) /\ Asked(moved, s.seen)
      /\ Complete(moved) = IF out.state = "COMPLETE" THEN Complete(s.trials) \cup {n}
                                                     ELSE Complete(s.trials) \ {n}
  <2> HIDE DEF t
  <2>1. /\ Trials(moved) /\ Running(moved, s.pending \ {n}) /\ Asked(moved, s.seen)
        /\ Complete(moved) = IF t.state = "COMPLETE" THEN Complete(s.trials) \cup {n}
                                                     ELSE Complete(s.trials) \ {n}
    BY <1>1, <1>p, <1>3, TrialMoved
  <2> HIDE DEF moved
  <2> QED
    BY <1>3, <2>1
<1>8. n \notin Complete(s.trials)
  BY <1>1 DEF Complete
<1> HIDE DEF moved
<1>9. CASE out.state = "COMPLETE"
  <2>1. told = [x \in DOMAIN NewSession |-> told[x]]
    BY <1>4, SessionFields DEF Build
  <2>2. Stops(told, after)
    BY <1>9, <2>1, EarlyStops
  <2>3. /\ told.trials = moved /\ told.pending = s.pending \ {n} /\ told.seen = s.seen
        /\ told.early = s.early /\ told.poisoned = s.poisoned /\ told.journal = s.journal
    BY <1>4 DEF Build
  <2> HIDE DEF after
  <2>4. after = Build(moved, s.pending \ {n}, s.seen, after.stopped, after.early,
                      s.poisoned, s.journal)
    BY <2>2, <2>3 DEF Stops
  <2>5. Complete(moved) = Complete(s.trials) \cup {n}
    BY <1>7, <1>9
  <2>6. Cardinality(Complete(moved)) = Cardinality(Complete(s.trials)) + 1
    BY <1>p, <1>8, <2>5, CompleteFinite, FS_AddElement
  <2>7. BestValue(moved) \in Values
    BY <1>7, <2>5, BestIsValue
  <2>8. Counted(moved, after.early)
    <3>1. Cardinality(Complete(s.trials)) \in Nat
      BY <1>p, CompleteFinite
    <3> QED
      BY <1>p, <2>2, <2>3, <2>6, <2>7, <3>1 DEF Counted, Stops
  <2>9. after.stopped \in BOOLEAN
    BY <2>2 DEF Stops
  <2>10. Formed(after)
    BY <1>p, <1>7, <2>4, <2>8, <2>9, BuildFormed
  <2>11. after.journal = s.journal
    BY <2>4 DEF Build
  <2> QED
    BY <1>1, <1>5, <1>6, <2>10, <2>11, Recorded
<1>10. CASE out.state # "COMPLETE"
  <2>1. Complete(moved) = Complete(s.trials)
    BY <1>7, <1>8, <1>10
  <2>2. Counted(moved, s.early)
    BY <1>p, <2>1 DEF Counted
  <2>3. Formed(told)
    BY <1>p, <1>4, <1>7, <2>2, BuildFormed
  <2>4. told.journal = s.journal
    BY <1>4 DEF Build
  <2>5. after = told
    BY <1>10
  <2> HIDE DEF after
  <2> QED
    BY <1>1, <1>5, <1>6, <2>3, <2>4, <2>5, Recorded
<1> QED
  BY <1>9, <1>10
-----------------------------------------------------------------------------
(* The sessions of the processes and the checkpoints of the file *)

\* A checkpoint describes a session that replays.
Sound(c) == c # Absent => Good(Described(c))

ReplayInv ==
  /\ \A p \in Process : /\ Good(proc[p].session) /\ Sound(proc[p].text)
                        /\ proc[p].durable \in BOOLEAN
  /\ \A m \in mayBe : Sound(m)
  /\ saves \in 0..MaxSaves /\ crashes \in 0..MaxCrashes

\* What is described by a checkpoint.
LEMMA DescribedBuilt ==
  ASSUME NEW c
  PROVE  /\ Described(c) = Build(c.witness.trials, {}, c.witness.seen, c.witness.stopped,
                                 c.witness.early, FALSE, c.events)
         /\ Usable(Described(c)) /\ Described(c).journal = c.events
<1>1. Described(c) = Build(c.witness.trials, {}, c.witness.seen, c.witness.stopped,
                           c.witness.early, FALSE, c.events)
  <2>1. ASSUME NEW s, DOMAIN s = DOMAIN NewSession
        PROVE  [s EXCEPT !.trials = c.witness.trials, !.seen = c.witness.seen,
                         !.stopped = c.witness.stopped, !.early = c.witness.early,
                         !.journal = c.events]
                 = Build(c.witness.trials, s.pending, c.witness.seen, c.witness.stopped,
                         c.witness.early, s.poisoned, c.events)
    <3> DEFINE u == [s EXCEPT !.trials = c.witness.trials, !.seen = c.witness.seen,
                              !.stopped = c.witness.stopped, !.early = c.witness.early,
                              !.journal = c.events]
    <3>1. DOMAIN s = {"trials", "pending", "seen", "stopped", "early", "poisoned", "journal"}
      BY <2>1, SessionFields
    <3>2. /\ u.trials = c.witness.trials /\ u.pending = s.pending
          /\ u.seen = c.witness.seen /\ u.stopped = c.witness.stopped
          /\ u.early = c.witness.early /\ u.poisoned = s.poisoned
          /\ u.journal = c.events
      BY <3>1
    <3>3. u = [x \in {"trials", "pending", "seen", "stopped", "early", "poisoned", "journal"}
                 |-> u[x]]
      BY <3>1
    <3> HIDE DEF u
    <3>4. u = Build(u.trials, u.pending, u.seen, u.stopped, u.early, u.poisoned, u.journal)
      BY <3>3 DEF Build
    <3>5. u = Build(c.witness.trials, s.pending, c.witness.seen, c.witness.stopped,
                    c.witness.early, s.poisoned, c.events)
      BY <3>2, <3>4
    <3> QED
      BY <3>5 DEF u
  <2>2. NewSession.pending = {} /\ NewSession.poisoned = FALSE
    BY DEF NewSession
  <2>3. Described(c) = Build(c.witness.trials, NewSession.pending, c.witness.seen,
                             c.witness.stopped, c.witness.early, NewSession.poisoned,
                             c.events)
    BY <2>1 DEF Described
  <2> QED
    BY <2>2, <2>3, Zenon
<1> QED
  BY <1>1 DEF Build, Usable

\* A checkpoint describes the session it was made of.
LEMMA DumpsDescribed ==
  ASSUME NEW s, Formed(s), Savable(s)
  PROVE  Described(Dumps(s)) = s
<1> PICK c : c = Dumps(s)
  OBVIOUS
<1>1. /\ c.witness.trials = s.trials /\ c.witness.seen = s.seen
      /\ c.witness.stopped = s.stopped /\ c.witness.early = s.early
      /\ c.events = s.journal
  BY DEF Dumps, Witness
<1>2. s.pending = {} /\ s.poisoned = FALSE
  BY DEF Savable, Usable, Formed
<1>3. Described(c) = Build(s.trials, s.pending, s.seen, s.stopped, s.early, FALSE, s.journal)
  BY <1>1, <1>2, DescribedBuilt
<1>4. s = Build(s.trials, s.pending, s.seen, s.stopped, s.early, FALSE, s.journal)
  BY <1>2 DEF Formed
<1> QED
  BY <1>3, <1>4

LEMMA SoundLoads ==
  ASSUME NEW c, c # Absent, Sound(c)
  PROVE  Loadable(c)
BY DescribedBuilt DEF Sound, Good, Exact, Loadable

LEMMA Fields ==
  ASSUME IInv, NEW p \in Process
  PROVE  /\ DOMAIN proc = Process
         /\ DOMAIN proc[p] = {"pc", "session", "prev", "text", "durable"}
BY RecordFields DEF IInv, ProcessInv

LEMMA OffSound == Good(Off.session) /\ Sound(Off.text) /\ Off.durable \in BOOLEAN
  BY NewGood DEF Off, Sound

LEMMA InitReplay == Init => ReplayInv
<1> SUFFICES ASSUME Init PROVE ReplayInv
  OBVIOUS
<1>1. \A p \in Process : proc[p] = Off
  BY DEF Init
<1>2. mayBe = {Absent} /\ saves = 0 /\ crashes = 0
  BY DEF Init
<1> QED
  BY <1>1, <1>2, OffSound, CheckpointAssumption DEF ReplayInv, Sound

\* A step of process p that leaves the disk as sound as it was.
LEMMA LocalSound ==
  ASSUME ReplayInv, NEW p \in Process, \A q \in Process \ {p} : proc'[q] = proc[q],
         Good(proc'[p].session), Sound(proc'[p].text), proc'[p].durable \in BOOLEAN,
         \A m \in mayBe' : m \in mayBe \/ Sound(m),
         saves' \in 0..MaxSaves, crashes' \in 0..MaxCrashes
  PROVE  ReplayInv'
<1>1. \A q \in Process : /\ Good(proc'[q].session) /\ Sound(proc'[q].text)
                         /\ proc'[q].durable \in BOOLEAN
  BY DEF ReplayInv
<1>2. \A m \in mayBe' : Sound(m)
  BY DEF ReplayInv
<1> QED
  BY <1>1, <1>2 DEF ReplayInv

\* The operations of a session.
LEMMA StudySound ==
  ASSUME IInv, ReplayInv, NEW p \in Process, NEW s, Study(p, s), Good(s)
  PROVE  ReplayInv'
<1>1. /\ \A q \in Process \ {p} : proc'[q] = proc[q]
      /\ proc'[p].session = s /\ proc'[p].text = proc[p].text
      /\ proc'[p].durable = proc[p].durable
  BY Fields DEF Study
<1>2. mayBe' = mayBe /\ saves' = saves /\ crashes' = crashes
  BY DEF Study, disk
<1> QED
  BY <1>1, <1>2, LocalSound DEF ReplayInv

LEMMA OperationsSound ==
  ASSUME IInv, ReplayInv, NEW p \in Process,
         DoAsk(p) \/ DoAskFails(p) \/ DoReport(p) \/ DoPrune(p) \/ DoTell(p) \/ DoHalf(p)
  PROVE  ReplayInv'
<1> DEFINE s == proc[p].session
<1>0. Good(s)
  BY DEF ReplayInv
<1> HIDE DEF s
<1>1. CASE DoAsk(p)
  BY <1>0, <1>1, AskGood, StudySound DEF DoAsk, s
<1>2. CASE DoAskFails(p)
  BY <1>0, <1>2, AskGood, StudySound DEF DoAskFails, s
<1>3. CASE DoReport(p)
  <2>1. PICK n \in s.pending, v \in Values : MayReport(s, n) /\ Study(p, Report(s, n, v))
    BY <1>3 DEF DoReport, s
  <2> QED
    BY <1>0, <2>1, ReportGood, StudySound
<1>4. CASE DoPrune(p)
  <2>1. PICK n \in s.pending : Owned(s, n) /\ Study(p, ShouldPrune(s, n))
    BY <1>4 DEF DoPrune, s
  <2> QED
    BY <1>0, <2>1, PruneGood, StudySound
<1>5. CASE DoTell(p)
  <2>1. PICK n \in s.pending, out \in Outcomes : MayTell(s, n, out) /\ Study(p, Tell(s, n, out))
    BY <1>5 DEF DoTell, s
  <2> QED
    BY <1>0, <2>1, TellGood, StudySound
<1>6. CASE DoHalf(p)
  BY <1>0, <1>6, HalfDoneGood, StudySound DEF DoHalf, s
<1> QED
  BY <1>1, <1>2, <1>3, <1>4, <1>5, <1>6

LEMMA StartsSound ==
  ASSUME IInv, ReplayInv, NEW p \in Process, NewStudy(p) \/ Load(p) \/ Discard(p)
  PROVE  ReplayInv'
<1>1. mayBe' = mayBe /\ saves' = saves /\ crashes' = crashes
  BY DEF NewStudy, Load, Discard, disk
<1>2. CASE NewStudy(p)
  <2>1. /\ \A q \in Process \ {p} : proc'[q] = proc[q]
        /\ proc'[p].session = proc[p].session /\ proc'[p].text = proc[p].text
        /\ proc'[p].durable = proc[p].durable
    BY <1>2, Fields DEF NewStudy
  <2> QED
    BY <1>1, <2>1, LocalSound DEF ReplayInv
<1>3. CASE Load(p)
  <2>1. /\ \A q \in Process \ {p} : proc'[q] = proc[q]
        /\ proc'[p].session = Described(file) /\ proc'[p].text = proc[p].text
        /\ proc'[p].durable = proc[p].durable
    BY <1>3, Fields DEF Load
  <2>2. Good(Described(file))
    BY <1>3 DEF Load, IInv, DiskInv, ReplayInv, Sound
  <2> QED
    BY <1>1, <2>1, <2>2, LocalSound DEF ReplayInv
<1>4. CASE Discard(p)
  <2>1. proc'[p] = Off /\ \A q \in Process \ {p} : proc'[q] = proc[q]
    BY <1>4, Fields DEF Discard
  <2> QED
    BY <1>1, <2>1, OffSound, LocalSound DEF ReplayInv
<1> QED
  BY <1>2, <1>3, <1>4

\* A save writes what its session is; the rename puts it in the file.
LEMMA SaveSound ==
  ASSUME IInv, ReplayInv, NEW p \in Process, Save(p)
  PROVE  ReplayInv'
<1>1. /\ \A q \in Process \ {p} : proc'[q] = proc[q]
      /\ proc'[p].session = proc[p].session /\ proc'[p].text = Dumps(proc[p].session)
      /\ proc'[p].durable = proc[p].durable
  BY Fields DEF Save
<1>2. Sound(Dumps(proc[p].session))
  BY DumpsDescribed DEF Save, ReplayInv, Sound, Good
<1>3. mayBe' = mayBe /\ crashes' = crashes /\ saves' = saves + 1 /\ saves < MaxSaves
  BY DEF Save
<1>4. saves' \in 0..MaxSaves
  BY <1>3, CheckpointAssumption DEF ReplayInv
<1> QED
  BY <1>1, <1>2, <1>3, <1>4, LocalSound DEF ReplayInv

LEMMA ReplaceSound ==
  ASSUME IInv, ReplayInv, NEW p \in Process, Replace(p)
  PROVE  ReplayInv'
<1>1. /\ \A q \in Process \ {p} : proc'[q] = proc[q]
      /\ proc'[p].session = proc[p].session /\ proc'[p].text = proc[p].text
      /\ proc'[p].durable = proc[p].durable
  BY Fields DEF Replace, Goto
<1>2. proc[p].durable = TRUE
  BY DEF IInv, ProcessInv, Replace, At
<1>3. mayBe' = mayBe \cup {proc[p].text} /\ saves' = saves /\ crashes' = crashes
  BY <1>2 DEF Replace
<1> QED
  BY <1>1, <1>3, LocalSound DEF ReplayInv

\* The other steps of a save.
LEMMA QuietSound ==
  ASSUME IInv, ReplayInv, NEW p \in Process,
         \/ Lock(p) \/ Guard(p) \/ GuardFails(p) \/ WriteTemp(p) \/ SyncDir(p)
         \/ Return(p) \/ Reconcile(p) \/ IOError(p)
  PROVE  ReplayInv'
<1>1. saves' = saves /\ crashes' = crashes
  BY DEF Lock, Guard, GuardFails, WriteTemp, SyncDir, Return, Reconcile, IOError, Raises, disk
<1>2. \A m \in mayBe' : m \in mayBe
  BY DEF Lock, Guard, GuardFails, WriteTemp, SyncDir, Return, Reconcile, IOError, Raises, disk,
         IInv, DiskInv
<1>3. \A q \in Process \ {p} : proc'[q] = proc[q]
  BY Fields DEF Lock, Guard, GuardFails, WriteTemp, SyncDir, Return, Reconcile, IOError,
                Raises, Goto
<1>4. proc'[p].session = proc[p].session
  BY Fields DEF Lock, Guard, GuardFails, WriteTemp, SyncDir, Return, Reconcile, IOError,
                Raises, Goto
<1>5. proc'[p].text \in {proc[p].text, Absent}
  BY Fields DEF Lock, Guard, GuardFails, WriteTemp, SyncDir, Return, Reconcile, IOError,
                Raises, Goto
<1>6. proc'[p].durable \in BOOLEAN
  BY Fields DEF Lock, Guard, GuardFails, WriteTemp, SyncDir, Return, Reconcile, IOError,
                Raises, Goto, ReplayInv
<1>7. Good(proc'[p].session) /\ Sound(proc'[p].text)
  BY <1>4, <1>5 DEF ReplayInv, Sound
<1> QED
  BY <1>1, <1>2, <1>3, <1>6, <1>7, LocalSound DEF ReplayInv

LEMMA LossSound ==
  ASSUME IInv, ReplayInv, PowerLoss \/ \E p \in Process : Crash(p)
  PROVE  ReplayInv'
<1>1. \A q \in Process : proc'[q] = proc[q] \/ proc'[q] = Off
  BY Fields DEF PowerLoss, Crash
<1>2. mayBe' \subseteq mayBe /\ saves' = saves
  BY DEF PowerLoss, Crash
<1>3. crashes' = crashes + 1 /\ crashes < MaxCrashes
  BY DEF PowerLoss, Crash
<1>4. crashes' \in 0..MaxCrashes
  BY <1>3, CheckpointAssumption DEF ReplayInv
<1>5. \A q \in Process : /\ Good(proc'[q].session) /\ Sound(proc'[q].text)
                         /\ proc'[q].durable \in BOOLEAN
  BY <1>1, OffSound DEF ReplayInv
<1> QED
  BY <1>2, <1>4, <1>5 DEF ReplayInv

LEMMA StepReplays ==
  ASSUME IInv, ReplayInv, [Next]_vars
  PROVE  ReplayInv'
<1>1. CASE UNCHANGED vars
  BY <1>1 DEF ReplayInv, vars
<1>2. CASE PowerLoss
  BY <1>2, LossSound
<1>3. ASSUME NEW p \in Process,
             StudyStep(p) \/ Save(p) \/ SaveStep(p) \/ Reconcile(p) \/ IOError(p) \/ Crash(p)
      PROVE  ReplayInv'
  <2>1. CASE StudyStep(p)
    BY <2>1, StartsSound, OperationsSound DEF StudyStep
  <2>2. CASE SaveStep(p) \/ Reconcile(p) \/ IOError(p)
    BY <2>2, QuietSound, ReplaceSound DEF SaveStep
  <2>3. CASE Save(p) \/ Crash(p)
    BY <2>3, SaveSound, LossSound
  <2> QED
    BY <1>3, <2>1, <2>2, <2>3
<1> QED
  BY <1>1, <1>2, <1>3 DEF Next

LEMMA Replays == Spec => [](IInv /\ ReplayInv)
  BY InitIInv, StepKeeps, InitReplay, StepReplays, PTL DEF Spec

\* Every process holds a session, every save under way has something to write,
\* and the holder of the lock is the one process between lock and unlock.
THEOREM TypeCorrect == Spec => []TypeOK
<1>1. IInv /\ ReplayInv => TypeOK
  <2> SUFFICES ASSUME IInv, ReplayInv PROVE TypeOK
    OBVIOUS
  <2>1. ASSUME NEW p \in Process
        PROVE  /\ DOMAIN proc[p] = DOMAIN Off
               /\ proc[p].pc \in Saving \cup {"off", "work"}
               /\ IsSession(proc[p].session)
               /\ proc[p].durable \in BOOLEAN
               /\ proc[p].pc \in Saving => proc[p].text # Absent
               /\ holder = p <=> proc[p].pc \in Saving \ {"locking"}
    <3>1. ProcessInv(proc[p]) /\ (holder = p <=> proc[p].pc \in Saving \ {"locking"})
      BY DEF IInv, LockInv, Critical
    <3>2. Good(proc[p].session) /\ proc[p].durable \in BOOLEAN
      BY DEF ReplayInv
    <3> QED
      BY <3>1, <3>2, FormedIsSession DEF ProcessInv, Good
  <2>2. holder \in Process \cup {None} /\ file \in mayBe
    BY DEF IInv, LockInv, DiskInv
  <2>3. saves \in 0..MaxSaves /\ crashes \in 0..MaxCrashes
    BY DEF ReplayInv
  <2> QED
    BY <2>1, <2>2, <2>3 DEF TypeOK
<1> QED
  BY <1>1, Replays, PTL

\* Whatever was asked, reported and told, in whichever process, and wherever a
\* save or the machine stopped: a session that is not poisoned is what its
\* journal replays to, and every checkpoint the file's name may hold loads
\* (session.py _record, loads).
THEOREM ReplayIsExact == Spec => []ReplayExact
<1>1. IInv /\ ReplayInv => ReplayExact
  BY SoundLoads DEF ReplayInv, ReplayExact, Good, Exact
<1> QED
  BY <1>1, Replays, PTL
=============================================================================
