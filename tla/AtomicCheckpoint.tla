-------------------------- MODULE AtomicCheckpoint --------------------------
(***************************************************************************)
(* What a checkpoint file promises the owner of a study, whoever writes it *)
(* and whatever stops in the middle: the file is always one whole          *)
(* checkpoint (or not there yet), it is only ever replaced by a study that *)
(* continues the one in it, and losing power takes back at most work no    *)
(* save has acknowledged.                                                  *)
(***************************************************************************)
EXTENDS Integers, SequencesExt

CONSTANT Absent  \* no file

VARIABLES
  file,   \* the checkpoint a reader finds
  acked   \* the checkpoints whose save has returned to its caller

vars == <<file, acked>>

(* d is the study c with more work done. *)
Extends(c, d) ==
  \/ c = Absent
  \/ c # Absent /\ d # Absent /\ IsPrefix(c.events, d.events)

Init == file = Absent /\ acked = {}

(* A writer replaces the checkpoint by one that continues it. *)
Grow == file' # Absent /\ Extends(file, file') /\ acked' = acked

(* A save returns: the study it wrote is the one in the file, or by now an *)
(* ancestor of it.                                                         *)
Acknowledge ==
  /\ acked \subseteq acked'
  /\ \A c \in acked' \ acked : c # Absent /\ Extends(c, file)
  /\ file' = file

(* Power is lost: an earlier checkpoint comes back, but one every          *)
(* acknowledged save is still part of.                                     *)
Rollback ==
  /\ Extends(file', file)
  /\ \A c \in acked : Extends(c, file')
  /\ acked' = acked

Next == Grow \/ Acknowledge \/ Rollback

Spec == Init /\ [][Next]_vars
=============================================================================
