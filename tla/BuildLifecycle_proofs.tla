------------------------ MODULE BuildLifecycle_proofs ------------------------
(***************************************************************************)
(* Proofs about BuildLifecycle for every set of builds, requests, series,  *)
(* prefixes and images, every pool size and crash bound.                   *)
(***************************************************************************)
EXTENDS BuildLifecycle, TLAPS

USE SelectionAssumption, NoneAssumption, BoundsAssumption
USE DEF disk, daemon, vars, Steps, Live, WorkerSteps, TryWork, PostSteps, Terminal,
        CredStates, Readable, KeyStates, DeleteSteps, RemovalSteps, Artifacts

(* A build's tag is one of the tags buildTag is defined on. *)
LEMMA TagOfType == \A b \in Builds : TagOf(b) \in BuildTags
BY DEF TagOf, BuildTags

(* The records the actions write are status records. *)
LEMMA StatusTypes ==
  /\ NoStatus \in StatusRecords
  /\ StartRecord \in StatusRecords
  /\ IdleRequest \in DeleteRecords
BY DEF NoStatus, StartRecord, StatusRecords, IdleRequest, DeleteRecords

LEMMA InitIInv == Init => IInv
<1> SUFFICES ASSUME Init PROVE IInv
  OBVIOUS
<1>1. TypeOK
  BY StatusTypes DEF Init, TypeOK
<1>2. Quiescent /\ PostOrder /\ KeyOrder /\ WorkerOwnsBuild /\ WorkOrder /\ EndedOrder
  BY DEF Init, Quiescent, PostOrder, KeyOrder, WorkerOwnsBuild, WorkOrder, EndedOrder, NoStatus,
         IdleRequest, Built
<1>3. DeleteOrder /\ DoomOrder /\ DeletesAreUnowned
  BY DEF Init, DeleteOrder, DoomOrder, DeletesAreUnowned, IdleRequest
<1> QED
  BY <1>1, <1>2, <1>3 DEF IInv

(* A request that moves on keeps its build and what it read. *)
LEMMA RequestMoves ==
  ASSUME TypeOK, NEW r \in Requests, NEW s \in DeleteSteps, NEW here \in BOOLEAN,
         \/ del' = [del EXCEPT ![r].pc = s]
         \/ del' = [del EXCEPT ![r].pc = s, ![r].seriesHere = here]
  PROVE  /\ del' \in [Requests -> DeleteRecords]
         /\ \A q \in Requests \ {r} : del'[q] = del[q]
         /\ del'[r].pc = s /\ del'[r].build = del[r].build /\ del'[r].running = del[r].running
<1>1. del \in [Requests -> DeleteRecords]
  BY DEF TypeOK
<1>2. del[r] \in DeleteRecords
  BY <1>1
<1>3. ASSUME NEW d \in DeleteRecords, d.pc = s, d.build = del[r].build,
             d.running = del[r].running, del' = [del EXCEPT ![r] = d]
      PROVE  /\ del' \in [Requests -> DeleteRecords]
             /\ \A q \in Requests \ {r} : del'[q] = del[q]
             /\ del'[r].pc = s /\ del'[r].build = del[r].build
             /\ del'[r].running = del[r].running
  BY <1>1, <1>3
<1>4. CASE del' = [del EXCEPT ![r].pc = s]
  <2> DEFINE e == [del[r] EXCEPT !.pc = s]
  <2>1. del' = [del EXCEPT ![r] = e]
    BY <1>1, <1>4
  <2>2. e \in DeleteRecords /\ e.pc = s /\ e.build = del[r].build
          /\ e.running = del[r].running
    BY <1>2 DEF DeleteRecords
  <2> HIDE DEF e
  <2> QED BY <1>3, <2>1, <2>2
<1>5. CASE del' = [del EXCEPT ![r].pc = s, ![r].seriesHere = here]
  <2> DEFINE e == [del[r] EXCEPT !.pc = s, !.seriesHere = here]
  <2>1. del' = [del EXCEPT ![r] = e]
    BY <1>1, <1>5
  <2>2. e \in DeleteRecords /\ e.pc = s /\ e.build = del[r].build
          /\ e.running = del[r].running
    BY <1>2 DEF DeleteRecords
  <2> HIDE DEF e
  <2> QED BY <1>3, <2>1, <2>2
<1> QED BY <1>4, <1>5

LEMMA RequestEnds ==
  ASSUME TypeOK, NEW r \in Requests, EndRequest(r)
  PROVE  /\ del' \in [Requests -> DeleteRecords]
         /\ \A q \in Requests \ {r} : del'[q] = del[q]
         /\ del'[r].pc = "idle"
<1>1. IdleRequest.pc = "idle"
  BY DEF IdleRequest
<1> QED BY <1>1, StatusTypes DEF TypeOK, EndRequest

(* The steps of POST /build keep the invariant. *)
LEMMA PostIInv ==
  ASSUME IInv, NEW b \in Builds, Post(b) PROVE IInv'
<1> USE DEF IInv, Move
<1>1. CASE CreateContext(b)
  <2>1. TypeOK'
    BY <1>1 DEF TypeOK, CreateContext
  <2>2. (Quiescent /\ PostOrder /\ KeyOrder /\ WorkerOwnsBuild /\ WorkOrder /\ EndedOrder)'
    BY <1>1 DEF TypeOK, CreateContext, EventLoopFree, Quiescent, PostOrder, KeyOrder,
       WorkerOwnsBuild, WorkOrder, EndedOrder, Built
  <2>3. (DeleteOrder /\ DoomOrder /\ DeletesAreUnowned)'
    BY <1>1 DEF TypeOK, CreateContext, DeleteOrder, DoomOrder, DeletesAreUnowned
  <2> QED BY <2>1, <2>2, <2>3
<1>2. CASE StorePlaceholder(b)
  <2>1. TypeOK'
    BY <1>2 DEF TypeOK, StorePlaceholder, HasKey, SaveCredential
  <2>2. (Quiescent /\ PostOrder /\ KeyOrder /\ WorkerOwnsBuild /\ WorkOrder /\ EndedOrder)'
    BY <1>2 DEF TypeOK, StorePlaceholder, HasKey, SaveCredential, Quiescent, PostOrder, KeyOrder,
       WorkerOwnsBuild, WorkOrder, EndedOrder, Built
  <2>3. (DeleteOrder /\ DoomOrder /\ DeletesAreUnowned)'
    BY <1>2 DEF TypeOK, StorePlaceholder, HasKey, SaveCredential, DeleteOrder, DoomOrder, DeletesAreUnowned
  <2> QED BY <2>1, <2>2, <2>3
<1>3. CASE StartBuildRecord(b)
  <2>1. TypeOK'
    BY <1>3, StatusTypes DEF TypeOK, StartBuildRecord, Save
  <2>2. (Quiescent /\ PostOrder /\ KeyOrder /\ WorkerOwnsBuild /\ WorkOrder /\ EndedOrder)'
    BY <1>3 DEF TypeOK, StartBuildRecord, Save, StartRecord, Quiescent, PostOrder, KeyOrder,
       WorkerOwnsBuild, WorkOrder, EndedOrder, Built
  <2>3. (DeleteOrder /\ DoomOrder /\ DeletesAreUnowned)'
    BY <1>3 DEF TypeOK, StartBuildRecord, Save, StartRecord, DeleteOrder, DoomOrder,
       DeletesAreUnowned
  <2> QED BY <2>1, <2>2, <2>3
<1>4. CASE Respond(b)
  <2>1. TypeOK'
    BY <1>4 DEF TypeOK, Respond, Generate
  <2>2. (Quiescent /\ PostOrder /\ KeyOrder /\ WorkerOwnsBuild /\ WorkOrder /\ EndedOrder)'
    BY <1>4 DEF TypeOK, Respond, Generate, Quiescent, PostOrder, KeyOrder, WorkerOwnsBuild, WorkOrder,
       EndedOrder, Built
  <2>3. (DeleteOrder /\ DoomOrder /\ DeletesAreUnowned)'
    BY <1>4 DEF TypeOK, Respond, Generate, DeleteOrder, DoomOrder, DeletesAreUnowned
  <2> QED BY <2>1, <2>2, <2>3
<1>5. CASE PostFails(b)
  <2>1. TypeOK'
    BY <1>5 DEF TypeOK, PostFails
  <2>2. (Quiescent /\ PostOrder /\ KeyOrder /\ WorkerOwnsBuild /\ WorkOrder /\ EndedOrder)'
    BY <1>5 DEF TypeOK, PostFails, Quiescent, PostOrder, KeyOrder, WorkerOwnsBuild, WorkOrder,
       EndedOrder, Built
  <2>3. (DeleteOrder /\ DoomOrder /\ DeletesAreUnowned)'
    BY <1>5 DEF TypeOK, PostFails, DeleteOrder, DoomOrder, DeletesAreUnowned
  <2> QED BY <2>1, <2>2, <2>3
<1>6. CASE MakeKey(b)
  <2>1. TypeOK'
    BY <1>6 DEF TypeOK, MakeKey
  <2>2. (Quiescent /\ PostOrder /\ WorkerOwnsBuild /\ WorkOrder /\ EndedOrder)'
    BY <1>6 DEF TypeOK, MakeKey, Quiescent, PostOrder, WorkerOwnsBuild, WorkOrder,
       EndedOrder, Built
  <2>3. KeyOrder'
    BY <1>6 DEF TypeOK, MakeKey, Quiescent, KeyOrder
  <2>4. (DeleteOrder /\ DoomOrder /\ DeletesAreUnowned)'
    BY <1>6 DEF TypeOK, MakeKey, DeleteOrder, DoomOrder, DeletesAreUnowned
  <2> QED BY <2>1, <2>2, <2>3, <2>4
<1>7. CASE KeyRaises(b)
  <2>1. TypeOK'
    BY <1>7 DEF TypeOK, KeyRaises
  <2>2. (Quiescent /\ PostOrder /\ KeyOrder /\ WorkerOwnsBuild /\ WorkOrder /\ EndedOrder)'
    BY <1>7 DEF TypeOK, KeyRaises, Quiescent, PostOrder, KeyOrder, WorkerOwnsBuild,
       WorkOrder, EndedOrder, Built
  <2>3. (DeleteOrder /\ DoomOrder /\ DeletesAreUnowned)'
    BY <1>7 DEF TypeOK, KeyRaises, DeleteOrder, DoomOrder, DeletesAreUnowned
  <2> QED BY <2>1, <2>2, <2>3
<1> QED BY <1>1, <1>2, <1>3, <1>4, <1>5, <1>6, <1>7 DEF Post, PostGoesOn

(* The steps of the daemon keep it. *)
LEMMA DaemonIInv ==
  ASSUME IInv, NEW b \in Builds, Daemon(b) PROVE IInv'
<1> USE DEF IInv, Move
<1>1. CASE DaemonBuilds(b)
  <2>1. TypeOK'
    BY <1>1, TagOfType DEF TypeOK, DaemonBuilds
  <2>2. (Quiescent /\ PostOrder /\ KeyOrder /\ WorkerOwnsBuild /\ WorkOrder /\ EndedOrder)'
    BY <1>1 DEF TypeOK, DaemonBuilds, Quiescent, PostOrder, KeyOrder, WorkerOwnsBuild, WorkOrder,
       EndedOrder, Built
  <2>3. (DeleteOrder /\ DoomOrder /\ DeletesAreUnowned)'
    BY <1>1 DEF TypeOK, DaemonBuilds, DeleteOrder, DoomOrder, DeletesAreUnowned
  <2> QED BY <2>1, <2>2, <2>3
<1>2. CASE DaemonFails(b)
  <2>1. TypeOK'
    BY <1>2 DEF TypeOK, DaemonFails
  <2>2. (Quiescent /\ PostOrder /\ KeyOrder /\ WorkerOwnsBuild /\ WorkOrder /\ EndedOrder)'
    BY <1>2 DEF TypeOK, DaemonFails, Quiescent, PostOrder, KeyOrder, WorkerOwnsBuild, WorkOrder,
       EndedOrder, Built
  <2>3. (DeleteOrder /\ DoomOrder /\ DeletesAreUnowned)'
    BY <1>2 DEF TypeOK, DaemonFails, DeleteOrder, DoomOrder, DeletesAreUnowned
  <2> QED BY <2>1, <2>2, <2>3
<1> QED BY <1>1, <1>2 DEF Daemon

(* The steps of _run_build keep it. *)
LEMMA WorkerIInv ==
  ASSUME IInv, NEW b \in Builds, Worker(b) PROVE IInv'
<1> USE DEF IInv, Move
<1>1. CASE StartBuild(b)
  <2>1. TypeOK'
    BY <1>1 DEF TypeOK, StartBuild
  <2>2. (Quiescent /\ PostOrder /\ KeyOrder /\ WorkerOwnsBuild /\ WorkOrder /\ EndedOrder)'
    BY <1>1 DEF TypeOK, StartBuild, Quiescent, PostOrder, KeyOrder, WorkerOwnsBuild, WorkOrder,
       EndedOrder, Built
  <2>3. (DeleteOrder /\ DoomOrder /\ DeletesAreUnowned)'
    BY <1>1 DEF TypeOK, StartBuild, DeleteOrder, DoomOrder, DeletesAreUnowned
  <2> QED BY <2>1, <2>2, <2>3
<1>2. CASE StreamEnds(b)
  <2>1. TypeOK'
    BY <1>2 DEF TypeOK, StreamEnds
  <2>2. (Quiescent /\ PostOrder /\ KeyOrder /\ WorkerOwnsBuild /\ WorkOrder /\ EndedOrder)'
    BY <1>2 DEF TypeOK, StreamEnds, Quiescent, PostOrder, KeyOrder, WorkerOwnsBuild, WorkOrder,
       EndedOrder, Built
  <2>3. (DeleteOrder /\ DoomOrder /\ DeletesAreUnowned)'
    BY <1>2 DEF TypeOK, StreamEnds, DeleteOrder, DoomOrder, DeletesAreUnowned
  <2> QED BY <2>1, <2>2, <2>3
<1>3. CASE StreamBreaks(b)
  <2>1. TypeOK'
    BY <1>3 DEF TypeOK, StreamBreaks
  <2>2. (Quiescent /\ PostOrder /\ KeyOrder /\ WorkerOwnsBuild /\ WorkOrder /\ EndedOrder)'
    BY <1>3 DEF TypeOK, StreamBreaks, Quiescent, PostOrder, KeyOrder, WorkerOwnsBuild, WorkOrder,
       EndedOrder, Built
  <2>3. (DeleteOrder /\ DoomOrder /\ DeletesAreUnowned)'
    BY <1>3 DEF TypeOK, StreamBreaks, DeleteOrder, DoomOrder, DeletesAreUnowned
  <2> QED BY <2>1, <2>2, <2>3
<1>4. CASE RecordSuccess(b)
  <2>1. TypeOK'
    BY <1>4 DEF TypeOK, RecordSuccess, SaveCredential
  <2>2. (Quiescent /\ PostOrder /\ KeyOrder /\ WorkerOwnsBuild /\ WorkOrder /\ EndedOrder)'
    BY <1>4 DEF TypeOK, RecordSuccess, SaveCredential, Quiescent, PostOrder, KeyOrder,
       WorkerOwnsBuild, WorkOrder, EndedOrder, Built
  <2>3. (DeleteOrder /\ DoomOrder /\ DeletesAreUnowned)'
    BY <1>4 DEF TypeOK, RecordSuccess, SaveCredential, DeleteOrder, DoomOrder, DeletesAreUnowned
  <2> QED BY <2>1, <2>2, <2>3
<1>5. CASE RecordFailure(b)
  <2>1. TypeOK'
    BY <1>5 DEF TypeOK, RecordFailure, SaveCredential
  <2>2. (Quiescent /\ PostOrder /\ KeyOrder /\ WorkerOwnsBuild /\ WorkOrder /\ EndedOrder)'
    BY <1>5 DEF TypeOK, RecordFailure, SaveCredential, Quiescent, PostOrder, KeyOrder,
       WorkerOwnsBuild, WorkOrder, EndedOrder, Built
  <2>3. (DeleteOrder /\ DoomOrder /\ DeletesAreUnowned)'
    BY <1>5 DEF TypeOK, RecordFailure, SaveCredential, DeleteOrder, DoomOrder, DeletesAreUnowned
  <2> QED BY <2>1, <2>2, <2>3
<1>6. CASE FinishFailed(b)
  <2> DEFINE record ==
        [state |-> "failed", stage |-> "done", buildOk |-> "no"]
  <2>1. pc[b] # "over" /\ status[b].state = "running"
    BY <1>6 DEF TypeOK, FinishFailed, WorkerOwnsBuild
  <2>2. /\ dir' = [dir EXCEPT ![b] = TRUE] /\ status' = [status EXCEPT ![b] = record]
        /\ record \in StatusRecords /\ record.state = "failed"
        /\ record.stage = "done" /\ record.buildOk = "no"
    BY <1>6, <2>1 DEF FinishFailed, Finish, Save, StatusRecords
  <2> HIDE DEF record
  <2>3. TypeOK'
    BY <1>6, <2>1, <2>2 DEF TypeOK, FinishFailed
  <2>4. (Quiescent /\ PostOrder /\ KeyOrder /\ WorkerOwnsBuild /\ WorkOrder /\ EndedOrder)'
    BY <1>6, <2>1, <2>2 DEF TypeOK, FinishFailed, Quiescent, PostOrder, KeyOrder, WorkerOwnsBuild,
       WorkOrder, EndedOrder, Built
  <2>5. (DeleteOrder /\ DoomOrder /\ DeletesAreUnowned)'
    BY <1>6, <2>1, <2>2 DEF TypeOK, FinishFailed, DeleteOrder, DoomOrder, DeletesAreUnowned
  <2> QED BY <2>3, <2>4, <2>5
<1>7. CASE MoveSeriesTag(b)
  <2>1. TypeOK'
    BY <1>7, TagOfType DEF TypeOK, MoveSeriesTag
  <2>2. (Quiescent /\ PostOrder /\ KeyOrder /\ WorkerOwnsBuild /\ WorkOrder /\ EndedOrder)'
    BY <1>7 DEF TypeOK, MoveSeriesTag, Quiescent, PostOrder, KeyOrder, WorkerOwnsBuild, WorkOrder,
       EndedOrder, Built
  <2>3. (DeleteOrder /\ DoomOrder /\ DeletesAreUnowned)'
    BY <1>7 DEF TypeOK, MoveSeriesTag, DeleteOrder, DoomOrder, DeletesAreUnowned
  <2> QED BY <2>1, <2>2, <2>3
<1>8. CASE WriteCompose(b)
  <2>1. TypeOK'
    BY <1>8 DEF TypeOK, WriteCompose, Generate
  <2>2. (Quiescent /\ PostOrder /\ KeyOrder /\ WorkerOwnsBuild /\ WorkOrder /\ EndedOrder)'
    BY <1>8 DEF TypeOK, WriteCompose, Generate, Quiescent, PostOrder, KeyOrder, WorkerOwnsBuild,
       WorkOrder, EndedOrder, Built
  <2>3. (DeleteOrder /\ DoomOrder /\ DeletesAreUnowned)'
    BY <1>8 DEF TypeOK, WriteCompose, Generate, DeleteOrder, DoomOrder, DeletesAreUnowned
  <2> QED BY <2>1, <2>2, <2>3
<1>9. CASE WriteMonitoring(b)
  <2>1. TypeOK'
    BY <1>9 DEF TypeOK, WriteMonitoring, Generate
  <2>2. (Quiescent /\ PostOrder /\ KeyOrder /\ WorkerOwnsBuild /\ WorkOrder /\ EndedOrder)'
    BY <1>9 DEF TypeOK, WriteMonitoring, Generate, Quiescent, PostOrder, KeyOrder,
       WorkerOwnsBuild, WorkOrder, EndedOrder, Built
  <2>3. (DeleteOrder /\ DoomOrder /\ DeletesAreUnowned)'
    BY <1>9 DEF TypeOK, WriteMonitoring, Generate, DeleteOrder, DoomOrder, DeletesAreUnowned
  <2> QED BY <2>1, <2>2, <2>3
<1>10. CASE WriteNotices(b)
  <2>1. TypeOK'
    BY <1>10 DEF TypeOK, WriteNotices, Generate
  <2>2. (Quiescent /\ PostOrder /\ KeyOrder /\ WorkerOwnsBuild /\ WorkOrder /\ EndedOrder)'
    BY <1>10 DEF TypeOK, WriteNotices, Generate, Quiescent, PostOrder, KeyOrder, WorkerOwnsBuild,
       WorkOrder, EndedOrder, Built
  <2>3. (DeleteOrder /\ DoomOrder /\ DeletesAreUnowned)'
    BY <1>10 DEF TypeOK, WriteNotices, Generate, DeleteOrder, DoomOrder, DeletesAreUnowned
  <2> QED BY <2>1, <2>2, <2>3
<1>11. CASE EnterSmokeStage(b)
  <2> DEFINE record == [status[b] EXCEPT !.stage = "smoke"]
  <2>1. pc[b] = "staging" /\ status[b].state = "running"
    BY <1>11 DEF TypeOK, EnterSmokeStage, WorkerOwnsBuild
  <2>2. /\ dir' = [dir EXCEPT ![b] = TRUE] /\ status' = [status EXCEPT ![b] = record]
        /\ record \in StatusRecords /\ record.state = "running"
    <3>1. status[b] \in StatusRecords
      BY DEF TypeOK
    <3>2. record \in StatusRecords /\ record.state = "running"
      BY <2>1, <3>1 DEF StatusRecords
    <3> QED BY <1>11, <2>1, <3>2 DEF EnterSmokeStage, SetStage, Save
  <2> HIDE DEF record
  <2>3. TypeOK'
    BY <1>11, <2>1, <2>2 DEF TypeOK, EnterSmokeStage
  <2>4. (Quiescent /\ PostOrder /\ KeyOrder /\ WorkerOwnsBuild /\ WorkOrder /\ EndedOrder)'
    BY <1>11, <2>1, <2>2 DEF TypeOK, EnterSmokeStage, Quiescent, PostOrder, KeyOrder, WorkerOwnsBuild,
       WorkOrder, EndedOrder, Built
  <2>5. (DeleteOrder /\ DoomOrder /\ DeletesAreUnowned)'
    BY <1>11, <2>1, <2>2 DEF TypeOK, EnterSmokeStage, DeleteOrder, DoomOrder, DeletesAreUnowned
  <2> QED BY <2>3, <2>4, <2>5
<1>12. CASE SmokeTest(b)
  <2> DEFINE record ==
        [state |-> "succeeded", stage |-> "done", buildOk |-> "yes"]
  <2>1. pc[b] # "over" /\ status[b].state = "running"
    BY <1>12 DEF TypeOK, SmokeTest, WorkerOwnsBuild
  <2>2. /\ dir' = [dir EXCEPT ![b] = TRUE] /\ status' = [status EXCEPT ![b] = record]
        /\ record \in StatusRecords /\ record.state = "succeeded"
        /\ record.stage = "done" /\ record.buildOk = "yes"
    BY <1>12, <2>1 DEF SmokeTest, Finish, Save, StatusRecords
  <2> HIDE DEF record
  <2>3. TypeOK'
    BY <1>12, <2>1, <2>2 DEF TypeOK, SmokeTest
  <2>4. (Quiescent /\ PostOrder /\ KeyOrder /\ WorkerOwnsBuild /\ WorkOrder /\ EndedOrder)'
    BY <1>12, <2>1, <2>2 DEF TypeOK, SmokeTest, Quiescent, PostOrder, KeyOrder, WorkerOwnsBuild,
       WorkOrder, EndedOrder, Built
  <2>5. (DeleteOrder /\ DoomOrder /\ DeletesAreUnowned)'
    BY <1>12, <2>1, <2>2 DEF TypeOK, SmokeTest, DeleteOrder, DoomOrder, DeletesAreUnowned
  <2> QED BY <2>3, <2>4, <2>5
<1>13. CASE Raise(b)
  <2>1. TypeOK'
    BY <1>13 DEF TypeOK, Raise, MayRaise
  <2>2. (Quiescent /\ PostOrder /\ KeyOrder /\ WorkerOwnsBuild /\ WorkOrder /\ EndedOrder)'
    BY <1>13 DEF TypeOK, Raise, MayRaise, Quiescent, PostOrder, KeyOrder, WorkerOwnsBuild,
       WorkOrder, EndedOrder, Built
  <2>3. (DeleteOrder /\ DoomOrder /\ DeletesAreUnowned)'
    BY <1>13 DEF TypeOK, Raise, MayRaise, DeleteOrder, DoomOrder, DeletesAreUnowned
  <2> QED BY <2>1, <2>2, <2>3
<1>14. CASE Abort(b)
  <2> DEFINE record ==
        [state |-> "failed", stage |-> "done", buildOk |-> "no"]
  <2>1. pc[b] # "over" /\ status[b].state = "running"
    BY <1>14 DEF TypeOK, Abort, WorkerOwnsBuild
  <2>2. /\ dir' = [dir EXCEPT ![b] = TRUE] /\ status' = [status EXCEPT ![b] = record]
        /\ record \in StatusRecords /\ record.state = "failed"
        /\ record.stage = "done" /\ record.buildOk = "no"
    BY <1>14, <2>1 DEF Abort, Finish, Save, StatusRecords
  <2> HIDE DEF record
  <2>3. TypeOK'
    BY <1>14, <2>1, <2>2 DEF TypeOK, Abort
  <2>4. (Quiescent /\ PostOrder /\ KeyOrder /\ WorkerOwnsBuild /\ WorkOrder /\ EndedOrder)'
    BY <1>14, <2>1, <2>2 DEF TypeOK, Abort, Quiescent, PostOrder, KeyOrder, WorkerOwnsBuild,
       WorkOrder, EndedOrder, Built
  <2>5. (DeleteOrder /\ DoomOrder /\ DeletesAreUnowned)'
    BY <1>14, <2>1, <2>2 DEF TypeOK, Abort, DeleteOrder, DoomOrder, DeletesAreUnowned
  <2> QED BY <2>3, <2>4, <2>5
<1>15. CASE AbortFails(b)
  <2>1. TypeOK'
    BY <1>15 DEF TypeOK, AbortFails
  <2>2. (Quiescent /\ PostOrder /\ KeyOrder /\ WorkerOwnsBuild /\ WorkOrder /\ EndedOrder)'
    BY <1>15 DEF TypeOK, AbortFails, Quiescent, PostOrder, KeyOrder, WorkerOwnsBuild, WorkOrder,
       EndedOrder, Built
  <2>3. (DeleteOrder /\ DoomOrder /\ DeletesAreUnowned)'
    BY <1>15 DEF TypeOK, AbortFails, DeleteOrder, DoomOrder, DeletesAreUnowned
  <2> QED BY <2>1, <2>2, <2>3
<1> QED BY <1>1, <1>2, <1>3, <1>4, <1>5, <1>6, <1>7, <1>8, <1>9, <1>10, <1>11, <1>12,
     <1>13, <1>14, <1>15 DEF Worker

(* The steps of a delete request keep it. *)
LEMMA DeleteIInv ==
  ASSUME IInv, NEW r \in Requests, Delete(r) PROVE IInv'
<1> USE DEF IInv
<1>0. del[r].pc # "idle" => del[r].build \in Builds
  BY DEF DeleteOrder
<1>1. CASE LeaveDelete(r)
  <2>1. /\ del' \in [Requests -> DeleteRecords]
        /\ \A q \in Requests \ {r} : del'[q] = del[q]
        /\ del'[r].pc = "idle"
    BY <1>1, RequestEnds DEF LeaveDelete
  <2>2. TypeOK'
    BY <1>1, <2>1 DEF TypeOK, LeaveDelete
  <2>3. (Quiescent /\ PostOrder /\ KeyOrder /\ WorkerOwnsBuild /\ WorkOrder /\ EndedOrder)'
    BY <1>1, <2>1, <1>0 DEF TypeOK, LeaveDelete, MayRemove, EventLoopFree, Quiescent,
       PostOrder, KeyOrder, WorkerOwnsBuild, WorkOrder, EndedOrder, DeletesAreUnowned, DeleteOrder,
       Built, NoStatus
  <2>4. UNCHANGED <<up, crashes, pc, disk, daemon>>
    BY <1>1 DEF LeaveDelete
  <2>5. (DeleteOrder /\ DoomOrder /\ DeletesAreUnowned)'
    BY <2>1, <2>4 DEF DeleteOrder, DoomOrder, DeletesAreUnowned
  <2> QED BY <2>2, <2>3, <2>5
<1>2. CASE RemoveDirectory(r)
  <2> DEFINE b == del[r].build
             next == IF dir[b] THEN "removing" ELSE "credential"
  <2>1. /\ del' \in [Requests -> DeleteRecords]
        /\ \A q \in Requests \ {r} : del'[q] = del[q]
        /\ del'[r].pc = next /\ del'[r].build = b /\ del'[r].running = del[r].running
    <3>1. next \in DeleteSteps /\ del' = [del EXCEPT ![r].pc = next]
      BY <1>2 DEF RemoveDirectory
    <3> HIDE DEF next
    <3> QED BY <3>1, RequestMoves
  <2>2. /\ b \in Builds /\ pc[b] = "over" /\ status[b].state # "running"
        /\ ~dir[b] => status[b] = NoStatus
        /\ next = "removing" \/ (~dir[b] /\ next = "credential")
    <3>1. del[r].pc = "form" /\ ~del[r].running /\ b \in Builds
      BY <1>0, <1>2 DEF RemoveDirectory, MayRemove
    <3>2. pc[b] = "over" /\ status[b].state # "running"
      BY <3>1 DEF DeleteOrder
    <3>3. ~dir[b] => status[b] = NoStatus
      BY <3>1 DEF PostOrder
    <3>4. next = "removing" \/ (~dir[b] /\ next = "credential")
      OBVIOUS
    <3> QED BY <3>1, <3>2, <3>3, <3>4
  <2>3. /\ up = "serving" /\ doomed' = doomed \cup {b}
        /\ UNCHANGED <<up, crashes, pc, dir, files, status, cred, key, daemon>>
    BY <1>2 DEF RemoveDirectory, EventLoopFree
  <2> HIDE DEF b, next
  <2>4. TypeOK'
    BY <2>1, <2>2, <2>3 DEF TypeOK
  <2>5. (Quiescent /\ PostOrder /\ KeyOrder /\ WorkerOwnsBuild /\ WorkOrder /\ EndedOrder)'
    BY <2>3 DEF Quiescent, PostOrder, KeyOrder, WorkerOwnsBuild, WorkOrder, EndedOrder, Built
  <2>6. (DeleteOrder /\ DoomOrder /\ DeletesAreUnowned)'
    BY <2>1, <2>2, <2>3 DEF DeleteOrder, DoomOrder, DeletesAreUnowned
  <2> QED BY <2>4, <2>5, <2>6
<1>3. CASE RemoveEntry(r)
  <2> DEFINE b == del[r].build
  <2>1. b \in Builds /\ b \in doomed /\ pc[b] = "over" /\ del[r].pc = "removing"
    BY <1>0, <1>3 DEF RemoveEntry, DeletesAreUnowned
  <2>2. /\ \A c \in Builds : status'[c] \in {status[c], NoStatus} /\ files'[c] \subseteq files[c]
        /\ \A c \in Builds \ {b} : status'[c] = status[c]
        /\ status' \in [Builds -> StatusRecords] /\ files' \in [Builds -> SUBSET Artifacts]
    BY <1>3, <2>1, StatusTypes DEF TypeOK, RemoveEntry
  <2>3. UNCHANGED <<up, crashes, pc, dir, cred, key, doomed, daemon, del>>
    BY <1>3 DEF RemoveEntry
  <2> HIDE DEF b
  <2>4. TypeOK'
    BY <2>2, <2>3 DEF TypeOK
  <2>5. (Quiescent /\ PostOrder /\ KeyOrder /\ WorkerOwnsBuild /\ WorkOrder /\ EndedOrder)'
    BY <2>1, <2>2, <2>3 DEF TypeOK, Quiescent, PostOrder, KeyOrder, WorkerOwnsBuild,
       WorkOrder, EndedOrder, Built, NoStatus
  <2>6. (DeleteOrder /\ DoomOrder /\ DeletesAreUnowned)'
    BY <2>1, <2>2, <2>3 DEF TypeOK, DeleteOrder, DoomOrder, DeletesAreUnowned, NoStatus
  <2> QED BY <2>4, <2>5, <2>6
<1>8. CASE RemoveEmptied(r)
  <2>1. /\ del' \in [Requests -> DeleteRecords]
        /\ \A q \in Requests \ {r} : del'[q] = del[q]
        /\ del'[r].pc = "credential" /\ del'[r].build = del[r].build
        /\ del'[r].running = del[r].running
    BY <1>8, RequestMoves DEF RemoveEmptied
  <2>2. TypeOK'
    BY <1>8, <2>1, <1>0 DEF TypeOK, RemoveEmptied
  <2>3. (Quiescent /\ PostOrder /\ KeyOrder /\ WorkerOwnsBuild /\ WorkOrder /\ EndedOrder)'
    BY <1>8, <2>1, <1>0 DEF TypeOK, RemoveEmptied, MayRemove, EventLoopFree, Quiescent,
       PostOrder, KeyOrder, WorkerOwnsBuild, WorkOrder, EndedOrder, DeletesAreUnowned,
       DeleteOrder, Built, NoStatus
  <2>4. (DeleteOrder /\ DoomOrder /\ DeletesAreUnowned)'
    BY <1>8, <2>1, <1>0 DEF TypeOK, RemoveEmptied, MayRemove, PostOrder, DeleteOrder, DoomOrder,
       DeletesAreUnowned, NoStatus
  <2> QED BY <2>2, <2>3, <2>4
<1>9. CASE RemovalFails(r)
  <2>1. /\ del' \in [Requests -> DeleteRecords]
        /\ \A q \in Requests \ {r} : del'[q] = del[q]
        /\ del'[r].pc = "idle"
    BY <1>9, RequestEnds DEF RemovalFails
  <2>2. TypeOK'
    BY <1>9, <2>1 DEF TypeOK, RemovalFails
  <2>3. (Quiescent /\ PostOrder /\ KeyOrder /\ WorkerOwnsBuild /\ WorkOrder /\ EndedOrder)'
    BY <1>9, <2>1, <1>0 DEF TypeOK, RemovalFails, MayRemove, EventLoopFree, Quiescent,
       PostOrder, KeyOrder, WorkerOwnsBuild, WorkOrder, EndedOrder, DeletesAreUnowned,
       DeleteOrder, Built, NoStatus
  <2>4. (DeleteOrder /\ DoomOrder /\ DeletesAreUnowned)'
    BY <1>9, <2>1, <1>0 DEF TypeOK, RemovalFails, MayRemove, PostOrder, DeleteOrder, DoomOrder,
       DeletesAreUnowned, NoStatus
  <2> QED BY <2>2, <2>3, <2>4
<1>4. CASE RemoveCredential(r)
  <2>1. /\ del' \in [Requests -> DeleteRecords]
        /\ \A q \in Requests \ {r} : del'[q] = del[q]
        /\ \/ del'[r].pc = "idle"
           \/ /\ del'[r].pc = "image" /\ del'[r].build = del[r].build
              /\ del'[r].running = del[r].running
    BY <1>4, RequestEnds, RequestMoves DEF RemoveCredential
  <2>2. TypeOK'
    BY <1>4, <2>1 DEF TypeOK, RemoveCredential
  <2>3. (Quiescent /\ PostOrder /\ KeyOrder /\ WorkerOwnsBuild /\ WorkOrder /\ EndedOrder)'
    BY <1>4, <2>1, <1>0 DEF TypeOK, RemoveCredential, MayRemove, EventLoopFree, Quiescent,
       PostOrder, KeyOrder, WorkerOwnsBuild, WorkOrder, EndedOrder, DeletesAreUnowned, DeleteOrder,
       Built, NoStatus
  <2>4. (DeleteOrder /\ DoomOrder /\ DeletesAreUnowned)'
    BY <1>4, <2>1, <1>0 DEF TypeOK, RemoveCredential, MayRemove, DeleteOrder, DoomOrder,
       DeletesAreUnowned, NoStatus
  <2> QED BY <2>2, <2>3, <2>4
<1>5. CASE ResolveTags(r)
  <2>1. /\ del' \in [Requests -> DeleteRecords]
        /\ \A q \in Requests \ {r} : del'[q] = del[q]
        /\ \/ del'[r].pc = "idle"
           \/ /\ del'[r].pc = "untag" /\ del'[r].build = del[r].build
              /\ del'[r].running = del[r].running
    BY <1>5, RequestEnds, RequestMoves DEF ResolveTags
  <2>2. TypeOK'
    BY <1>5, <2>1 DEF TypeOK, ResolveTags
  <2>3. (Quiescent /\ PostOrder /\ KeyOrder /\ WorkerOwnsBuild /\ WorkOrder /\ EndedOrder)'
    BY <1>5, <2>1, <1>0 DEF TypeOK, ResolveTags, MayRemove, EventLoopFree, Quiescent,
       PostOrder, KeyOrder, WorkerOwnsBuild, WorkOrder, EndedOrder, DeletesAreUnowned, DeleteOrder,
       Built, NoStatus
  <2>4. (DeleteOrder /\ DoomOrder /\ DeletesAreUnowned)'
    BY <1>5, <2>1, <1>0 DEF TypeOK, ResolveTags, MayRemove, DeleteOrder, DoomOrder,
       DeletesAreUnowned, NoStatus
  <2> QED BY <2>2, <2>3, <2>4
<1>6. CASE Untag(r)
  <2>1. /\ del' \in [Requests -> DeleteRecords]
        /\ \A q \in Requests \ {r} : del'[q] = del[q]
        /\ \/ del'[r].pc = "idle"
           \/ /\ del'[r].pc = "untagSeries" /\ del'[r].build = del[r].build
              /\ del'[r].running = del[r].running
    BY <1>6, RequestEnds, RequestMoves DEF Untag
  <2>2. TypeOK'
    BY <1>6, <2>1, TagOfType DEF TypeOK, Untag
  <2>3. (Quiescent /\ PostOrder /\ KeyOrder /\ WorkerOwnsBuild /\ WorkOrder /\ EndedOrder)'
    BY <1>6, <2>1, <1>0 DEF TypeOK, Untag, MayRemove, EventLoopFree, Quiescent,
       PostOrder, KeyOrder, WorkerOwnsBuild, WorkOrder, EndedOrder, DeletesAreUnowned, DeleteOrder,
       Built, NoStatus
  <2>4. (DeleteOrder /\ DoomOrder /\ DeletesAreUnowned)'
    BY <1>6, <2>1, <1>0 DEF TypeOK, Untag, MayRemove, DeleteOrder, DoomOrder,
       DeletesAreUnowned, NoStatus
  <2> QED BY <2>2, <2>3, <2>4
<1>7. CASE UntagSeries(r)
  <2>1. /\ del' \in [Requests -> DeleteRecords]
        /\ \A q \in Requests \ {r} : del'[q] = del[q]
        /\ del'[r].pc = "idle"
    BY <1>7, RequestEnds DEF UntagSeries
  <2>2. TypeOK'
    BY <1>7, <2>1 DEF TypeOK, UntagSeries
  <2>3. (Quiescent /\ PostOrder /\ KeyOrder /\ WorkerOwnsBuild /\ WorkOrder /\ EndedOrder)'
    BY <1>7, <2>1, <1>0 DEF TypeOK, UntagSeries, MayRemove, EventLoopFree, Quiescent,
       PostOrder, KeyOrder, WorkerOwnsBuild, WorkOrder, EndedOrder, DeletesAreUnowned, DeleteOrder,
       Built, NoStatus
  <2>4. (DeleteOrder /\ DoomOrder /\ DeletesAreUnowned)'
    BY <1>7, <2>1, <1>0 DEF TypeOK, UntagSeries, MayRemove, DeleteOrder, DoomOrder,
       DeletesAreUnowned, NoStatus
  <2> QED BY <2>2, <2>3, <2>4
<1> QED BY <1>1, <1>2, <1>3, <1>4, <1>5, <1>6, <1>7, <1>8, <1>9 DEF Delete

(* Reading the delete context keeps it: no task can own the build unless
   its record says running. *)
LEMMA OpenDeleteIInv ==
  ASSUME IInv, NEW r \in Requests, NEW b \in Builds, OpenDelete(r, b) PROVE IInv'
<1> USE DEF IInv
<1> DEFINE d == [pc |-> "form", build |-> b, running |-> status[b].state = "running",
                 tagged |-> cred[b] \in Readable \/ status[b].state # "none",
                 shared |-> SharedTag(b), seriesHere |-> FALSE]
<1>1. status[b].state # "running" => pc[b] = "over"
  BY DEF OpenDelete, EventLoopFree, TypeOK, PostOrder, KeyOrder, WorkerOwnsBuild, NoStatus
<1>2. /\ d \in DeleteRecords /\ d.pc = "form" /\ d.build = b
      /\ ~d.running => status[b].state # "running"
  BY DEF DeleteRecords, SharedTag
<1>3. del' = [del EXCEPT ![r] = d] /\ up = "serving" /\ del[r].pc = "idle"
  BY DEF OpenDelete, EventLoopFree
<1>4. UNCHANGED <<up, crashes, pc, disk, daemon>>
  BY DEF OpenDelete
<1> HIDE DEF d
<1>5. TypeOK'
  BY <1>2, <1>3, <1>4 DEF TypeOK
<1>6. (Quiescent /\ PostOrder /\ KeyOrder /\ WorkerOwnsBuild /\ WorkOrder /\ EndedOrder)'
  BY <1>2, <1>3, <1>4 DEF TypeOK, Quiescent, PostOrder, KeyOrder, WorkerOwnsBuild, WorkOrder,
     EndedOrder, Built
<1>7. (DeleteOrder /\ DoomOrder /\ DeletesAreUnowned)'
  BY <1>1, <1>2, <1>3, <1>4 DEF TypeOK, DeleteOrder, DoomOrder, DeletesAreUnowned
<1> QED BY <1>5, <1>6, <1>7

(* Crashes and restarts keep it. *)
LEMMA ConsoleIInv ==
  ASSUME IInv, \/ Crash \/ Restart \/ Serve \/ ListingMakesKey \/ ListingFillsKey
  PROVE  IInv'
<1> USE DEF IInv
<1>1. CASE Crash
  <2>1. TypeOK'
    BY <1>1, StatusTypes DEF TypeOK, Crash
  <2>2. (Quiescent /\ PostOrder /\ WorkerOwnsBuild /\ WorkOrder /\ EndedOrder)'
    BY <1>1 DEF TypeOK, Crash, Quiescent, PostOrder, WorkerOwnsBuild, WorkOrder, EndedOrder,
       Built, IdleRequest
  <2>3. KeyOrder'
    BY <1>1 DEF TypeOK, Crash, KeyOrder
  <2>4. (DeleteOrder /\ DoomOrder /\ DeletesAreUnowned)'
    BY <1>1 DEF TypeOK, Crash, DeleteOrder, DoomOrder, DeletesAreUnowned, IdleRequest
  <2> QED BY <2>1, <2>2, <2>3, <2>4
<1>2. CASE Restart
  BY <1>2 DEF TypeOK, Restart, Quiescent, PostOrder, KeyOrder, WorkerOwnsBuild, WorkOrder,
     EndedOrder, DeleteOrder, DoomOrder, DeletesAreUnowned, Built
<1>3. CASE Serve
  BY <1>3 DEF TypeOK, Serve, Quiescent, PostOrder, KeyOrder, WorkerOwnsBuild, WorkOrder,
     EndedOrder, DeleteOrder, DoomOrder, DeletesAreUnowned, Built
<1>4. CASE ListingMakesKey \/ ListingFillsKey
  <2>1. TypeOK' /\ KeyOrder'
    BY <1>4 DEF TypeOK, ListingMakesKey, ListingFillsKey, KeyOrder
  <2>2. UNCHANGED <<up, crashes, pc, dir, files, status, cred, doomed, daemon, del>>
    BY <1>4 DEF ListingMakesKey, ListingFillsKey
  <2>3. (Quiescent /\ PostOrder /\ WorkerOwnsBuild /\ WorkOrder /\ EndedOrder)'
    BY <2>2 DEF Quiescent, PostOrder, WorkerOwnsBuild, WorkOrder, EndedOrder, Built
  <2>4. (DeleteOrder /\ DoomOrder /\ DeletesAreUnowned)'
    BY <2>2 DEF DeleteOrder, DoomOrder, DeletesAreUnowned
  <2> QED BY <2>1, <2>3, <2>4
<1> QED BY <1>1, <1>2, <1>3, <1>4

(* Start-up writes only records that no task owns and no removal began on. *)
LEMMA BootIInv ==
  ASSUME IInv, NEW b \in Builds, MarkInterrupted(b) \/ MarkingStops(b)
  PROVE  IInv'
<1> USE DEF IInv
<1> DEFINE record == Interrupted(b)
<1>1. up = "booting" /\ status[b].state = "running" /\ pc[b] = "over" /\ dir[b]
  BY DEF MarkInterrupted, MarkingStops, Stale, Quiescent, PostOrder, NoStatus
<1>2. record \in StatusRecords /\ record.state = "interrupted"
  <2>1. status[b] \in StatusRecords
    BY DEF TypeOK
  <2> QED BY <1>1, <2>1 DEF StatusRecords, Interrupted
<1>3. \/ /\ dir' = [dir EXCEPT ![b] = TRUE] /\ status' = [status EXCEPT ![b] = record]
      \/ UNCHANGED <<dir, status>>
  BY DEF MarkInterrupted, MarkingStops, Save
<1>4. /\ UNCHANGED <<pc, cred, key, doomed, daemon, del>>
      /\ files' \in {files, [files EXCEPT ![b] = @ \cup {"log"}]}
      /\ up' \in {"booting", "down"}
  BY <1>1 DEF MarkInterrupted, MarkingStops
<1>5. crashes' \in 0..MaxCrashes
  BY DEF MarkInterrupted, MarkingStops, TypeOK
<1> HIDE DEF record
<1>6. TypeOK'
  <2>1. files' \in [Builds -> SUBSET Artifacts]
    BY <1>4 DEF TypeOK
  <2>2. dir' \in [Builds -> BOOLEAN] /\ status' \in [Builds -> StatusRecords]
    <3>1. dir \in [Builds -> BOOLEAN] /\ status \in [Builds -> StatusRecords]
      BY DEF TypeOK
    <3> QED BY <1>2, <1>3, <3>1
  <2>3. up' \in {"down", "booting", "serving"}
    BY <1>4
  <2> QED BY <1>4, <1>5, <2>1, <2>2, <2>3 DEF TypeOK
<1>7. (Quiescent /\ PostOrder /\ KeyOrder /\ WorkerOwnsBuild /\ WorkOrder /\ EndedOrder)'
  BY <1>1, <1>2, <1>3, <1>4 DEF TypeOK, Quiescent, PostOrder, KeyOrder, WorkerOwnsBuild,
     WorkOrder, EndedOrder, Built
<1>8. (DeleteOrder /\ DoomOrder /\ DeletesAreUnowned)'
  BY <1>1, <1>2, <1>3, <1>4 DEF TypeOK, Quiescent, DeleteOrder, DoomOrder, DeletesAreUnowned
<1> QED BY <1>6, <1>7, <1>8

LEMMA NextIInv == IInv /\ [Next]_vars => IInv'
<1> SUFFICES ASSUME IInv, [Next]_vars PROVE IInv'
  OBVIOUS
<1>1. CASE UNCHANGED vars
  BY <1>1 DEF IInv, TypeOK, Quiescent, PostOrder, KeyOrder, WorkerOwnsBuild, WorkOrder, EndedOrder,
     DeleteOrder, DoomOrder, DeletesAreUnowned, Built
<1>2. CASE Next
  BY <1>2, PostIInv, DaemonIInv, WorkerIInv, DeleteIInv, OpenDeleteIInv, ConsoleIInv,
     BootIInv DEF Next
<1> QED BY <1>1, <1>2

(* What holds at every step of every execution: the inductive invariant. *)
THEOREM Invariance == SafetySpec => []IInv
BY InitIInv, NextIInv, PTL DEF SafetySpec

(* Every variable keeps its type. *)
THEOREM TypeCorrect == SafetySpec => []TypeOK
<1>1. IInv => TypeOK
  BY DEF IInv
<1> QED BY <1>1, Invariance, PTL

(* No delete, restart or failed write takes a build's directory, record or
   credential from under the task that works on it. *)
THEOREM WorkIsProtected == SafetySpec => []WorkerOwnsBuild
<1>1. IInv => WorkerOwnsBuild
  BY DEF IInv
<1> QED BY <1>1, Invariance, PTL

(* A delete past its check works on a build nothing else works on. *)
THEOREM DeletesAreSafe == SafetySpec => []DeletesAreUnowned
<1>1. IInv => DeletesAreUnowned
  BY DEF IInv
<1> QED BY <1>1, Invariance, PTL

(* A credential that says the build succeeded is about a built image. *)
THEOREM CredentialsAreHonest == SafetySpec => []CredentialIsHonest
<1>1. IInv => CredentialIsHonest
  BY DEF IInv, WorkOrder, CredentialIsHonest
<1> QED BY <1>1, Invariance, PTL

(* Two steps that write the record of b: not once it has ended. *)
LEMMA EndedStays ==
  ASSUME IInv, [Next]_vars, NEW b \in Builds, status[b].state \in Terminal
  PROVE  status'[b] \in {status[b], NoStatus}
<1>1. pc[b] = "over" /\ status \in [Builds -> StatusRecords]
  BY DEF IInv, EndedOrder, TypeOK
<1>2. CASE UNCHANGED vars
  BY <1>2
<1>3. ASSUME NEW c \in Builds, Post(c) \/ Daemon(c) \/ Worker(c)
      PROVE  status'[b] = status[b]
  <2>1. CASE StartBuildRecord(c) \/ FinishFailed(c) \/ EnterSmokeStage(c) \/ SmokeTest(c)
               \/ Abort(c)
    <3>1. pc[c] # "over"
      BY <2>1 DEF StartBuildRecord, FinishFailed, EnterSmokeStage, SmokeTest, Abort, Move
    <3> QED BY <1>1, <2>1, <3>1 DEF StartBuildRecord, FinishFailed, EnterSmokeStage,
               SmokeTest, Abort, Finish, SetStage, Save
  <2>2. CASE CreateContext(c) \/ MakeKey(c) \/ KeyRaises(c) \/ StorePlaceholder(c)
               \/ Respond(c) \/ PostFails(c) \/ DaemonBuilds(c) \/ DaemonFails(c)
    BY <2>2 DEF CreateContext, MakeKey, KeyRaises, StorePlaceholder, Respond, Generate,
       PostFails, DaemonBuilds, DaemonFails
  <2>3. CASE StartBuild(c) \/ StreamEnds(c) \/ StreamBreaks(c) \/ RecordSuccess(c)
               \/ RecordFailure(c) \/ MoveSeriesTag(c) \/ WriteCompose(c)
               \/ WriteMonitoring(c) \/ WriteNotices(c) \/ Raise(c) \/ AbortFails(c)
    BY <2>3 DEF StartBuild, StreamEnds, StreamBreaks, RecordSuccess, RecordFailure,
       MoveSeriesTag, WriteCompose, WriteMonitoring, WriteNotices, Generate, Raise, AbortFails
  <2> QED BY <1>3, <2>1, <2>2, <2>3 DEF Post, PostGoesOn, Daemon, Worker
<1>4. ASSUME NEW r \in Requests, Delete(r)
      PROVE  status'[b] \in {status[b], NoStatus}
  <2>1. CASE RemoveEntry(r)
    BY <1>1, <2>1 DEF RemoveEntry
  <2>2. CASE LeaveDelete(r) \/ RemoveDirectory(r) \/ RemoveEmptied(r) \/ RemoveCredential(r)
               \/ RemovalFails(r) \/ ResolveTags(r) \/ Untag(r) \/ UntagSeries(r)
    BY <2>2 DEF LeaveDelete, RemoveDirectory, RemoveEmptied, RemoveCredential, RemovalFails,
       ResolveTags, Untag, UntagSeries
  <2> QED BY <1>4, <2>1, <2>2 DEF Delete
<1>5. ASSUME NEW r \in Requests, NEW c \in Builds, OpenDelete(r, c)
      PROVE  status'[b] = status[b]
  BY <1>5 DEF OpenDelete
<1>6. ASSUME NEW c \in Builds, MarkInterrupted(c) \/ MarkingStops(c)
      PROVE  status'[b] = status[b]
  BY <1>1, <1>6 DEF MarkInterrupted, MarkingStops, Stale, Save
<1>7. CASE Crash \/ Restart \/ Serve \/ ListingMakesKey \/ ListingFillsKey
  BY <1>7 DEF Crash, Restart, Serve, ListingMakesKey, ListingFillsKey
<1> QED BY <1>2, <1>3, <1>4, <1>5, <1>6, <1>7 DEF Next

(* A record that has ended is never rewritten, only removed. *)
THEOREM EndedIsFinal == SafetySpec => TerminalIsFinal
<1>1. IInv /\ [Next]_vars =>
        [\A b \in Builds : status[b].state \in Terminal =>
           status'[b] \in {status[b], NoStatus}]_vars
  BY EndedStays
<1> QED BY <1>1, Invariance, PTL DEF SafetySpec, TerminalIsFinal

(* The directory of a build whose removal has begun is only emptied. *)
LEMMA RemovalStays ==
  ASSUME IInv, [Next]_vars, NEW b \in doomed
  PROVE  /\ files'[b] \subseteq files[b]
         /\ status'[b] \in {status[b], NoStatus}
         /\ dir'[b] => dir[b]
<1>1. b \in Builds /\ pc[b] = "over" /\ status[b].state # "running"
  BY DEF IInv, TypeOK, DoomOrder
<1>2. /\ dir \in [Builds -> BOOLEAN] /\ files \in [Builds -> SUBSET Artifacts]
      /\ status \in [Builds -> StatusRecords]
  BY DEF IInv, TypeOK
<1>3. CASE UNCHANGED vars
  BY <1>3
<1>4. ASSUME NEW c \in Builds, Post(c) \/ Daemon(c) \/ Worker(c)
      PROVE  files'[b] = files[b] /\ status'[b] = status[b] /\ dir'[b] = dir[b]
  <2>1. CASE CreateContext(c) \/ StartBuildRecord(c) \/ Respond(c)
    BY <1>1, <1>2, <2>1 DEF CreateContext, StartBuildRecord, Respond, Generate, Save, Move
  <2>2. CASE FinishFailed(c) \/ EnterSmokeStage(c) \/ SmokeTest(c) \/ Abort(c)
    BY <1>1, <1>2, <2>2 DEF FinishFailed, EnterSmokeStage, SmokeTest, Abort, Finish, SetStage,
       Save, Move
  <2>3. CASE MakeKey(c) \/ KeyRaises(c) \/ StorePlaceholder(c) \/ PostFails(c)
               \/ DaemonBuilds(c) \/ DaemonFails(c)
    BY <2>3 DEF MakeKey, KeyRaises, StorePlaceholder, PostFails, DaemonBuilds, DaemonFails
  <2>4. CASE StartBuild(c) \/ StreamEnds(c) \/ StreamBreaks(c) \/ RecordSuccess(c)
               \/ RecordFailure(c) \/ MoveSeriesTag(c) \/ Raise(c) \/ AbortFails(c)
    BY <2>4 DEF StartBuild, StreamEnds, StreamBreaks, RecordSuccess, RecordFailure,
       MoveSeriesTag, Raise, AbortFails
  <2>5. CASE WriteCompose(c) \/ WriteMonitoring(c) \/ WriteNotices(c)
    BY <1>1, <1>2, <2>5 DEF WriteCompose, WriteMonitoring, WriteNotices, Generate, Move
  <2> QED BY <1>4, <2>1, <2>2, <2>3, <2>4, <2>5 DEF Post, PostGoesOn, Daemon, Worker
<1>5. ASSUME NEW r \in Requests, Delete(r)
      PROVE  /\ files'[b] \subseteq files[b]
             /\ status'[b] \in {status[b], NoStatus}
             /\ dir'[b] => dir[b]
  <2>1. CASE RemoveEntry(r)
    BY <1>1, <1>2, <2>1 DEF RemoveEntry
  <2>2. CASE RemoveEmptied(r)
    BY <1>1, <1>2, <2>2 DEF RemoveEmptied
  <2>3. CASE LeaveDelete(r) \/ RemoveDirectory(r) \/ RemoveCredential(r) \/ RemovalFails(r)
               \/ ResolveTags(r) \/ Untag(r) \/ UntagSeries(r)
    BY <2>3 DEF LeaveDelete, RemoveDirectory, RemoveCredential, RemovalFails, ResolveTags,
       Untag, UntagSeries
  <2> QED BY <1>5, <2>1, <2>2, <2>3 DEF Delete
<1>6. ASSUME NEW r \in Requests, NEW c \in Builds, OpenDelete(r, c)
      PROVE  files'[b] = files[b] /\ status'[b] = status[b] /\ dir'[b] = dir[b]
  BY <1>6 DEF OpenDelete
<1>7. ASSUME NEW c \in Builds, MarkInterrupted(c) \/ MarkingStops(c)
      PROVE  files'[b] = files[b] /\ status'[b] = status[b] /\ dir'[b] = dir[b]
  BY <1>1, <1>2, <1>7 DEF MarkInterrupted, MarkingStops, Stale, Save
<1>8. CASE Crash \/ Restart \/ Serve \/ ListingMakesKey \/ ListingFillsKey
  BY <1>8 DEF Crash, Restart, Serve, ListingMakesKey, ListingFillsKey
<1> QED BY <1>3, <1>4, <1>5, <1>6, <1>7, <1>8 DEF Next

(* Once a removal of a build has begun, nothing of it comes back. *)
THEOREM RemovedStaysRemoved == SafetySpec => RemovalIsFinal
<1>1. IInv /\ [Next]_vars =>
        [\A b \in doomed : /\ files'[b] \subseteq files[b]
                           /\ status'[b] \in {status[b], NoStatus}
                           /\ dir'[b] => dir[b]]_vars
  BY RemovalStays
<1> QED BY <1>1, Invariance, PTL DEF SafetySpec, RemovalIsFinal

-----------------------------------------------------------------------------
(* The refinement of BuildRecord *)

(* Nothing a page can see of c changes in this step. *)
Same(c) == RecordOf(c)' = RecordOf(c) /\ (pc'[c] \in Live <=> pc[c] \in Live)

(* One lemma for each way a step maps to a step of BuildRecord. *)
LEMMA MapsToStutter ==
  ASSUME \A c \in Builds : Same(c) PROVE UNCHANGED Rec!recordVars
BY DEF Same, Rec!recordVars

LEMMA MapsToBegin ==
  ASSUME NEW b \in Builds, \A c \in Builds \ {b} : Same(c),
         RecordOf(b) = "absent", RecordOf(b)' = "running", pc'[b] \in Live
  PROVE  Rec!RecordNext
<1>1. Rec!Begin(b)
  BY DEF Same, Rec!Begin
<1> QED BY <1>1 DEF Rec!RecordNext

LEMMA MapsToConclude ==
  ASSUME NEW b \in Builds, \A c \in Builds \ {b} : Same(c),
         RecordOf(b) = "running", pc[b] \in Live,
         RecordOf(b)' \in {"succeeded", "failed"}, pc'[b] \notin Live
  PROVE  Rec!RecordNext
<1>1. Rec!Conclude(b)
  BY DEF Same, Rec!Conclude
<1> QED BY <1>1 DEF Rec!RecordNext

LEMMA MapsToInterrupt ==
  ASSUME NEW b \in Builds, \A c \in Builds \ {b} : Same(c),
         RecordOf(b) = "running", pc[b] \notin Live,
         RecordOf(b)' = "interrupted", pc'[b] \notin Live
  PROVE  Rec!RecordNext
<1>1. Rec!Interrupt(b)
  BY DEF Same, Rec!Interrupt
<1> QED BY <1>1 DEF Rec!RecordNext

LEMMA MapsToRemove ==
  ASSUME NEW b \in Builds, \A c \in Builds \ {b} : Same(c),
         RecordOf(b) \in Terminal, pc[b] \notin Live,
         RecordOf(b)' = "removed", pc'[b] \notin Live
  PROVE  Rec!RecordNext
<1>1. Rec!Remove(b)
  BY DEF Same, Rec!Remove, Rec!Ended
<1> QED BY <1>1 DEF Rec!RecordNext

LEMMA MapsToLose ==
  ASSUME NEW dead \in SUBSET Builds, NEW stillborn \in SUBSET Builds,
         \A c \in dead : pc[c] \in Live,
         \A c \in Builds : pc'[c] \in Live <=> pc[c] \in Live /\ c \notin dead,
         \A c \in stillborn : RecordOf(c) = "absent" /\ RecordOf(c)' = "removed",
         \A c \in Builds \ stillborn : RecordOf(c)' = RecordOf(c)
  PROVE  Rec!RecordNext
<1>1. Rec!Lose(dead, stillborn)
  BY DEF Rec!Lose
<1> QED BY <1>1 DEF Rec!RecordNext

(* The two cases of one build: its task dies, or its submission does. *)
LEMMA MapsToAbandon ==
  ASSUME NEW b \in Builds, pc[b] \in Live, pc'[b] \notin Live,
         \A c \in Builds \ {b} : Same(c), RecordOf(b)' = RecordOf(b)
  PROVE  Rec!RecordNext
<1>1. Rec!Lose({b}, {})
  BY DEF Same, Rec!Lose
<1> QED BY <1>1 DEF Rec!RecordNext

LEMMA MapsToStillbirth ==
  ASSUME NEW b \in Builds, pc[b] \notin Live, pc'[b] \notin Live,
         \A c \in Builds \ {b} : Same(c), RecordOf(b) = "absent", RecordOf(b)' = "removed"
  PROVE  Rec!RecordNext
<1>1. Rec!Lose({}, {b})
  BY DEF Same, Rec!Lose
<1> QED BY <1>1 DEF Rec!RecordNext

LEMMA RefinesInit == Init => Rec!RecordInit
BY DEF Init, Rec!RecordInit, RecordOf, NoStatus

LEMMA PostRefines ==
  ASSUME IInv, NEW b \in Builds, Post(b)
  PROVE  Rec!RecordNext \/ \A c \in Builds : Same(c)
<1> USE DEF IInv, Move
<1>1. CASE CreateContext(b) \/ MakeKey(b) \/ StorePlaceholder(b) \/ Respond(b)
  BY <1>1 DEF TypeOK, CreateContext, MakeKey, StorePlaceholder, Respond, Generate,
     SaveCredential, PostOrder, NoStatus, Same, RecordOf
<1>2. CASE StartBuildRecord(b)
  <2>1. \A c \in Builds \ {b} : Same(c)
    BY <1>2 DEF TypeOK, StartBuildRecord, Save, Same, RecordOf
  <2>2. RecordOf(b) = "absent" /\ RecordOf(b)' = "running" /\ pc'[b] \in Live
    BY <1>2 DEF TypeOK, StartBuildRecord, Save, StartRecord, PostOrder, NoStatus, RecordOf
  <2> QED BY <2>1, <2>2, MapsToBegin
<1>3. CASE PostFails(b)
  <2>1. CASE pc[b] = "started"
    <3>1. status[b].state = "running"
      BY <2>1 DEF WorkerOwnsBuild
    <3>2. /\ \A c \in Builds \ {b} : Same(c)
          /\ pc'[b] \notin Live /\ RecordOf(b)' = RecordOf(b)
      BY <1>3, <2>1, <3>1 DEF TypeOK, PostFails, Same, RecordOf
    <3> QED BY <2>1, <3>2, MapsToAbandon
  <2>2. CASE pc[b] # "started"
    <3>1. status[b].state = "none"
      BY <1>3, <2>2 DEF PostFails, PostOrder, NoStatus
    <3>2. /\ \A c \in Builds \ {b} : Same(c)
          /\ pc[b] \notin Live /\ pc'[b] \notin Live
          /\ RecordOf(b) = "absent" /\ RecordOf(b)' = "removed"
      BY <1>3, <2>2, <3>1 DEF TypeOK, PostFails, Same, RecordOf
    <3> QED BY <3>2, MapsToStillbirth
  <2> QED BY <2>1, <2>2
<1>4. CASE KeyRaises(b)
  <2>1. status[b].state = "none" /\ pc[b] = "context"
    BY <1>4 DEF KeyRaises, PostOrder, NoStatus
  <2>2. /\ \A c \in Builds \ {b} : Same(c)
        /\ pc[b] \notin Live /\ pc'[b] \notin Live
        /\ RecordOf(b) = "absent" /\ RecordOf(b)' = "removed"
    BY <1>4, <2>1 DEF TypeOK, KeyRaises, Same, RecordOf
  <2> QED BY <2>2, MapsToStillbirth
<1> QED BY <1>1, <1>2, <1>3, <1>4 DEF Post, PostGoesOn

LEMMA WorkerRefines ==
  ASSUME IInv, NEW b \in Builds, Worker(b)
  PROVE  Rec!RecordNext \/ \A c \in Builds : Same(c)
<1> USE DEF IInv, Move
<1>1. pc[b] \in Live /\ status[b].state = "running"
  BY DEF Worker, StartBuild, StreamEnds, StreamBreaks, RecordSuccess, RecordFailure,
     FinishFailed, MoveSeriesTag, WriteCompose, WriteMonitoring, WriteNotices,
     EnterSmokeStage, SmokeTest, Raise, MayRaise, Abort, AbortFails, SaveCredential,
     WorkerOwnsBuild
<1>2. CASE FinishFailed(b) \/ SmokeTest(b) \/ Abort(b)
  <2>1. \A c \in Builds \ {b} : Same(c)
    BY <1>1, <1>2 DEF TypeOK, FinishFailed, SmokeTest, Abort, Finish, Save, Same, RecordOf
  <2>2. /\ RecordOf(b) = "running" /\ RecordOf(b)' \in {"succeeded", "failed"}
        /\ pc'[b] \notin Live
    BY <1>1, <1>2 DEF TypeOK, FinishFailed, SmokeTest, Abort, Finish, Save, RecordOf
  <2> QED BY <1>1, <2>1, <2>2, MapsToConclude
<1>3. CASE AbortFails(b)
  <2>1. /\ \A c \in Builds \ {b} : Same(c)
        /\ pc'[b] \notin Live /\ RecordOf(b)' = RecordOf(b)
    BY <1>1, <1>3 DEF TypeOK, AbortFails, Same, RecordOf
  <2> QED BY <1>1, <2>1, MapsToAbandon
<1>4. CASE EnterSmokeStage(b)
  <2>1. status[b] \in StatusRecords
    BY DEF TypeOK
  <2>2. [status[b] EXCEPT !.stage = "smoke"].state = "running"
    BY <1>1, <2>1 DEF StatusRecords
  <2>3. status'[b].state = "running" /\ \A c \in Builds \ {b} : status'[c] = status[c]
    BY <1>1, <1>4, <2>2 DEF TypeOK, EnterSmokeStage, SetStage, Save
  <2> QED BY <1>1, <1>4, <2>3 DEF TypeOK, EnterSmokeStage, Same, RecordOf
<1>5. ASSUME UNCHANGED status, NEW to \in Live, pc' = [pc EXCEPT ![b] = to]
      PROVE  \A c \in Builds : Same(c)
  BY <1>1, <1>5 DEF TypeOK, Same, RecordOf
<1>6. CASE StartBuild(b) \/ StreamEnds(b) \/ StreamBreaks(b)
  BY <1>5, <1>6 DEF StartBuild, StreamEnds, StreamBreaks
<1>7. CASE RecordSuccess(b) \/ RecordFailure(b) \/ MoveSeriesTag(b) \/ Raise(b)
  BY <1>5, <1>7 DEF RecordSuccess, RecordFailure, SaveCredential, MoveSeriesTag, Raise
<1>8. CASE WriteCompose(b) \/ WriteMonitoring(b) \/ WriteNotices(b)
  BY <1>5, <1>8 DEF WriteCompose, WriteMonitoring, WriteNotices, Generate
<1> QED BY <1>2, <1>3, <1>4, <1>6, <1>7, <1>8 DEF Worker

LEMMA DeleteRefines ==
  ASSUME IInv, NEW r \in Requests, Delete(r)
  PROVE  Rec!RecordNext \/ \A c \in Builds : Same(c)
<1> USE DEF IInv
<1>1. CASE LeaveDelete(r) \/ RemoveDirectory(r) \/ RemoveEmptied(r) \/ RemoveCredential(r)
             \/ RemovalFails(r) \/ ResolveTags(r) \/ Untag(r) \/ UntagSeries(r)
  BY <1>1 DEF LeaveDelete, RemoveDirectory, RemoveEmptied, RemoveCredential, RemovalFails,
     ResolveTags, Untag, UntagSeries, Same, RecordOf
<1>2. CASE RemoveEntry(r)
  <2>1. PICK b \in Builds : /\ b = del[r].build
                            /\ pc[b] = "over" /\ status[b].state # "running"
    BY <1>2 DEF RemoveEntry, DeletesAreUnowned, DeleteOrder, DoomOrder
  <2>2. PICK left \in {status[b], NoStatus} : status' = [status EXCEPT ![b] = left]
    BY <1>2, <2>1 DEF RemoveEntry, TypeOK
  <2>3. UNCHANGED pc
    BY <1>2 DEF RemoveEntry
  <2>4. status[b].state \in {"none"} \cup Terminal
    BY <2>1 DEF TypeOK, StatusRecords
  <2>5. /\ status'[b] \in {status[b], NoStatus}
        /\ \A c \in Builds \ {b} : status'[c] = status[c]
    BY <2>1, <2>2 DEF TypeOK
  <2>6. status'[b].state \in {status[b].state, "none"}
    BY <2>5 DEF NoStatus
  <2>7. \A c \in Builds \ {b} : Same(c)
    BY <2>3, <2>5 DEF Same, RecordOf
  <2>8. pc[b] \notin Live /\ pc'[b] \notin Live /\ pc'[b] = pc[b]
    BY <2>1, <2>3
  <2>9. CASE status'[b].state = status[b].state
    <3>1. Same(b)
      BY <2>3, <2>9 DEF Same, RecordOf
    <3> QED BY <2>7, <3>1
  <2>10. CASE status'[b].state = "none" /\ status[b].state \in Terminal
    <3>1. RecordOf(b) \in Terminal /\ RecordOf(b)' = "removed"
      BY <2>1, <2>8, <2>10 DEF RecordOf
    <3> QED BY <2>1, <2>7, <2>8, <3>1, MapsToRemove
  <2> QED BY <2>4, <2>6, <2>9, <2>10
<1> QED BY <1>1, <1>2 DEF Delete

LEMMA ConsoleRefines ==
  ASSUME IInv, \/ Crash \/ Restart \/ Serve \/ ListingMakesKey \/ ListingFillsKey
  PROVE  Rec!RecordNext \/ \A c \in Builds : Same(c)
<1> USE DEF IInv
<1>1. CASE Crash
  <2> DEFINE dead == {c \in Builds : pc[c] \in Live}
             stillborn == {c \in Builds : pc[c] \in PostSteps \ {"started"}}
  <2>1. \A c \in dead : pc[c] \in Live
    OBVIOUS
  <2>2. \A c \in Builds : pc'[c] \in Live <=> pc[c] \in Live /\ c \notin dead
    BY <1>1 DEF TypeOK, Crash
  <2>3. \A c \in stillborn : RecordOf(c) = "absent" /\ RecordOf(c)' = "removed"
    BY <1>1 DEF TypeOK, Crash, PostOrder, NoStatus, RecordOf
  <2>4. \A c \in Builds \ stillborn : RecordOf(c)' = RecordOf(c)
    BY <1>1 DEF TypeOK, Crash, WorkerOwnsBuild, RecordOf
  <2> HIDE DEF dead, stillborn
  <2>5. dead \in SUBSET Builds /\ stillborn \in SUBSET Builds
    BY DEF dead, stillborn
  <2> QED BY <2>1, <2>2, <2>3, <2>4, <2>5, MapsToLose
<1>2. CASE Restart \/ Serve \/ ListingMakesKey \/ ListingFillsKey
  BY <1>2 DEF Restart, Serve, ListingMakesKey, ListingFillsKey, Same, RecordOf
<1> QED BY <1>1, <1>2

LEMMA BootRefines ==
  ASSUME IInv, NEW b \in Builds, MarkInterrupted(b) \/ MarkingStops(b)
  PROVE  Rec!RecordNext \/ \A c \in Builds : Same(c)
<1> USE DEF IInv
<1>1. up = "booting" /\ status[b].state = "running" /\ UNCHANGED pc
  BY DEF MarkInterrupted, MarkingStops, Stale
<1>2. pc[b] = "over"
  BY <1>1 DEF Quiescent, PostOrder, NoStatus
<1>3. CASE UNCHANGED status
  BY <1>1, <1>3 DEF Same, RecordOf
<1>4. CASE status' = [status EXCEPT ![b] = Interrupted(b)]
  <2>1. status[b] \in StatusRecords
    BY DEF TypeOK
  <2>2. Interrupted(b).state = "interrupted"
    BY <2>1 DEF StatusRecords, Interrupted
  <2>3. status'[b].state = "interrupted" /\ \A c \in Builds \ {b} : status'[c] = status[c]
    BY <1>4, <2>2 DEF TypeOK
  <2>4. \A c \in Builds \ {b} : Same(c)
    BY <1>1, <2>3 DEF Same, RecordOf
  <2>5. RecordOf(b) = "running" /\ RecordOf(b)' = "interrupted"
    BY <1>1, <2>3 DEF RecordOf
  <2> QED BY <1>1, <1>2, <2>4, <2>5, MapsToInterrupt
<1> QED BY <1>3, <1>4 DEF MarkInterrupted, MarkingStops, Save

LEMMA RefinesNext == IInv /\ [Next]_vars => [Rec!RecordNext]_(Rec!recordVars)
<1> SUFFICES ASSUME IInv, [Next]_vars PROVE [Rec!RecordNext]_(Rec!recordVars)
  OBVIOUS
<1>1. CASE UNCHANGED vars
  BY <1>1, MapsToStutter DEF Same, RecordOf
<1>2. CASE Next
  <2>1. ASSUME NEW b \in Builds, Daemon(b) PROVE \A c \in Builds : Same(c)
    BY <2>1 DEF Daemon, DaemonBuilds, DaemonFails, Same, RecordOf
  <2>2. ASSUME NEW r \in Requests, NEW b \in Builds, OpenDelete(r, b)
        PROVE  \A c \in Builds : Same(c)
    BY <2>2 DEF OpenDelete, Same, RecordOf
  <2>3. Rec!RecordNext \/ \A c \in Builds : Same(c)
    BY <1>2, <2>1, <2>2, PostRefines, WorkerRefines, DeleteRefines, ConsoleRefines,
       BootRefines DEF Next
  <2> QED BY <2>3, MapsToStutter
<1> QED BY <1>1, <1>2

(* The console implements the abstract life of a record: created once,
   concluded only by its own task, interrupted only when no task follows
   it, removed only after it has ended. *)
THEOREM Refinement == SafetySpec => ImplementsRecordSafety
BY RefinesInit, RefinesNext, Invariance, PTL
   DEF SafetySpec, ImplementsRecordSafety, Rec!RecordSafety

=============================================================================
