----------------------------- MODULE BuildRecord -----------------------------
(***************************************************************************)
(* What the console promises about one build's record, seen from the pages *)
(* that poll it: a record is created once, it is concluded only by the     *)
(* worker that follows the build, it is called interrupted only when no    *)
(* worker follows it any more, and it is removed only after it has ended.  *)
(* BuildLifecycle implements this specification.                           *)
(***************************************************************************)

CONSTANT Builds      \* the build ids that are ever minted

VARIABLES
  record,            \* record[b]: the life of b's record, see Lives
  watched            \* the builds a live task of the console is following

recordVars == <<record, watched>>

Ended == {"succeeded", "failed", "interrupted"}
Lives == {"absent", "running", "removed"} \cup Ended

RecordTypeOK ==
  /\ record \in [Builds -> Lives]
  /\ watched \in SUBSET Builds

RecordInit ==
  /\ record = [b \in Builds |-> "absent"]
  /\ watched = {}

(* A submission is accepted: its record exists from now on. *)
Begin(b) ==
  /\ record[b] = "absent"
  /\ record' = [record EXCEPT ![b] = "running"]
  /\ watched' = watched \cup {b}

(* The task that follows b records how it ended. *)
Conclude(b) ==
  /\ b \in watched
  /\ record[b] = "running"
  /\ \E end \in {"succeeded", "failed"} : record' = [record EXCEPT ![b] = end]
  /\ watched' = watched \ {b}

(* Tasks die without a word, and submissions die before their record. *)
Lose(dead, stillborn) ==
  /\ dead \subseteq watched
  /\ \A b \in stillborn : record[b] = "absent"
  /\ watched' = watched \ dead
  /\ record' = [b \in Builds |-> IF b \in stillborn THEN "removed" ELSE record[b]]

(* A record nobody follows is given up. *)
Interrupt(b) ==
  /\ b \notin watched
  /\ record[b] = "running"
  /\ record' = [record EXCEPT ![b] = "interrupted"]
  /\ UNCHANGED watched

Remove(b) ==
  /\ record[b] \in Ended
  /\ record' = [record EXCEPT ![b] = "removed"]
  /\ UNCHANGED watched

RecordNext ==
  \/ \E b \in Builds : Begin(b) \/ Conclude(b) \/ Interrupt(b) \/ Remove(b)
  \/ \E dead, stillborn \in SUBSET Builds : Lose(dead, stillborn)

RecordSafety == RecordInit /\ [][RecordNext]_recordVars

(* A running record does not stay running. *)
RecordFairness == \A b \in Builds : WF_recordVars(Conclude(b) \/ Interrupt(b))

RecordSpec == RecordSafety /\ RecordFairness

=============================================================================
