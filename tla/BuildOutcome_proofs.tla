-------------------------- MODULE BuildOutcome_proofs --------------------------
(***************************************************************************)
(* What a build leaves behind, for every instance of BuildLifecycle: its   *)
(* record, its credential, its files and its tags; and how its task and    *)
(* the deletes take turns on the event loop and the threads.               *)
(***************************************************************************)
EXTENDS BuildLifecycle_proofs, FiniteSetTheorems

USE SelectionAssumption, NoneAssumption, BoundsAssumption
USE DEF disk, daemon, vars, Steps, Live, WorkerSteps, TryWork, PostSteps, Terminal,
        CredStates, Readable, KeyStates, DeleteSteps, RemovalSteps, Artifacts

-----------------------------------------------------------------------------
(* The invariants, each inductive together with IInv *)

(* A record lies in a directory and was preceded by a credential file. *)
RecordIsKept ==
  \A b \in Builds : status[b].state # "none" => dir[b] /\ cred[b] # "none"

(* A delete that got to the image has taken the credential. *)
CredentialIsGone ==
  \A r \in Requests : del[r].pc \in {"image", "untag", "untagSeries"} =>
    cred[del[r].build] = "none"

(* No tag names another build's image. *)
TagsAreOwn == \A b \in Builds : buildTag[TagOf(b)] \in {None, ImageOf[b]}

(* The log is there before the task starts, and the worker writes what the
   page offers before it concludes; only a removal takes any of it. *)
FilesAreDelivered ==
  \A b \in Builds :
    /\ "compose" \in files[b] => b \in Composed
    /\ pc[b] \in Live \ {"started"} => "log" \in files[b]
    /\ pc[b] \in {"monitoring", "notices", "staging", "smoke"} /\ b \in Composed =>
         "compose" \in files[b]
    /\ pc[b] \in {"notices", "staging", "smoke"} /\ b \in Monitored =>
         "monitoring" \in files[b]
    /\ status[b].state = "succeeded" /\ b \notin doomed => Deliverables(b) \subseteq files[b]
    /\ status[b].state = "failed" /\ b \notin doomed => "log" \in files[b]

-----------------------------------------------------------------------------
(* What a step may do to one variable *)

(* A record changes to one with a directory, or goes. *)
LEMMA RecordStep ==
  ASSUME IInv, [Next]_vars, NEW b \in Builds
  PROVE  \/ status'[b] = status[b]
         \/ /\ dir'[b] /\ cred'[b] = cred[b] /\ status'[b].state # "none"
            /\ pc[b] = "saved" \/ status[b].state # "none"
         \/ status'[b] = NoStatus /\ b \in doomed
<1>1. TypeOK
  BY DEF IInv
<1>2. CASE UNCHANGED vars
  BY <1>2
<1>3. ASSUME NEW c \in Builds,
             Post(c) \/ Daemon(c) \/ Worker(c) \/ MarkInterrupted(c) \/ MarkingStops(c)
      PROVE  \/ status'[b] = status[b]
             \/ /\ dir'[b] /\ cred'[b] = cred[b] /\ status'[b].state # "none"
                /\ pc[b] = "saved" \/ status[b].state # "none"
  <2>0. /\ status[c] \in StatusRecords
        /\ [status[c] EXCEPT !.stage = "smoke"].state = status[c].state
        /\ Interrupted(c).state = "interrupted"
    BY <1>1 DEF TypeOK, StatusRecords, Interrupted
  <2>1. CASE StartBuildRecord(c)
    BY <1>1, <2>1 DEF TypeOK, StartBuildRecord, StartRecord, Save, Move
  <2>2. CASE FinishFailed(c) \/ SmokeTest(c) \/ Abort(c)
    BY <1>1, <2>2 DEF TypeOK, FinishFailed, SmokeTest, Abort, Finish, Save
  <2>6. CASE EnterSmokeStage(c)
    BY <1>1, <2>0, <2>6 DEF TypeOK, EnterSmokeStage, SetStage, Save
  <2>3. CASE MarkInterrupted(c) \/ MarkingStops(c)
    BY <1>1, <2>0, <2>3 DEF TypeOK, MarkInterrupted, MarkingStops, Stale, Save
  <2>4. CASE CreateContext(c) \/ MakeKey(c) \/ KeyRaises(c) \/ StorePlaceholder(c)
               \/ Respond(c) \/ PostFails(c) \/ DaemonBuilds(c) \/ DaemonFails(c)
    BY <2>4 DEF CreateContext, MakeKey, KeyRaises, StorePlaceholder, Respond, Generate,
       PostFails, DaemonBuilds, DaemonFails
  <2>5. CASE StartBuild(c) \/ StreamEnds(c) \/ StreamBreaks(c) \/ RecordSuccess(c)
               \/ RecordFailure(c) \/ MoveSeriesTag(c) \/ WriteCompose(c)
               \/ WriteMonitoring(c) \/ WriteNotices(c) \/ Raise(c) \/ AbortFails(c)
    BY <2>5 DEF StartBuild, StreamEnds, StreamBreaks, RecordSuccess, RecordFailure,
       MoveSeriesTag, WriteCompose, WriteMonitoring, WriteNotices, Generate, Raise, AbortFails
  <2> QED BY <1>3, <2>1, <2>2, <2>3, <2>4, <2>5, <2>6 DEF Post, PostGoesOn, Daemon, Worker
<1>4. ASSUME NEW r \in Requests, Delete(r)
      PROVE  status'[b] = status[b] \/ (status'[b] = NoStatus /\ b \in doomed)
  <2>1. CASE RemoveEntry(r)
    BY <1>1, <2>1 DEF TypeOK, RemoveEntry, IInv, DeletesAreUnowned
  <2>2. CASE LeaveDelete(r) \/ RemoveDirectory(r) \/ RemoveEmptied(r) \/ RemoveCredential(r)
               \/ RemovalFails(r) \/ ResolveTags(r) \/ Untag(r) \/ UntagSeries(r)
    BY <2>2 DEF LeaveDelete, RemoveDirectory, RemoveEmptied, RemoveCredential, RemovalFails,
       ResolveTags, Untag, UntagSeries
  <2> QED BY <1>4, <2>1, <2>2 DEF Delete
<1>5. CASE \/ \E r \in Requests, c \in Builds : OpenDelete(r, c)
           \/ Crash \/ Restart \/ Serve \/ ListingMakesKey \/ ListingFillsKey
  BY <1>5 DEF OpenDelete, Crash, Restart, Serve, ListingMakesKey, ListingFillsKey
<1> QED BY <1>2, <1>3, <1>4, <1>5 DEF Next

(* A directory goes only when a delete has emptied it, and the delete is of
   a build that has ended: its record went before. *)
LEMMA DirectoryStep ==
  ASSUME IInv, [Next]_vars, NEW b \in Builds
  PROVE  \/ dir'[b] = dir[b]
         \/ dir'[b] /\ (pc[b] # "over" \/ status[b].state # "none")
         \/ ~dir'[b] /\ status'[b] = NoStatus /\ pc[b] = "over" /\ pc'[b] = "over"
<1>1. TypeOK
  BY DEF IInv
<1>2. CASE UNCHANGED vars
  BY <1>2
<1>3. ASSUME NEW c \in Builds,
             Post(c) \/ Daemon(c) \/ Worker(c) \/ MarkInterrupted(c) \/ MarkingStops(c)
      PROVE  \/ dir'[b] = dir[b]
             \/ dir'[b] /\ (pc[b] # "over" \/ status[b].state # "none")
  <2>1. CASE CreateContext(c) \/ StartBuildRecord(c)
    BY <1>1, <2>1 DEF TypeOK, CreateContext, StartBuildRecord, Save, Move
  <2>2. CASE FinishFailed(c) \/ EnterSmokeStage(c) \/ SmokeTest(c) \/ Abort(c)
    BY <1>1, <2>2 DEF TypeOK, FinishFailed, EnterSmokeStage, SmokeTest, Abort, Finish,
       SetStage, Save
  <2>3. CASE MarkInterrupted(c) \/ MarkingStops(c)
    BY <1>1, <2>3 DEF TypeOK, MarkInterrupted, MarkingStops, Stale, Save
  <2>4. CASE MakeKey(c) \/ KeyRaises(c) \/ StorePlaceholder(c)
               \/ Respond(c) \/ PostFails(c) \/ DaemonBuilds(c) \/ DaemonFails(c)
    BY <2>4 DEF MakeKey, KeyRaises, StorePlaceholder, Respond, Generate, PostFails,
       DaemonBuilds, DaemonFails
  <2>5. CASE StartBuild(c) \/ StreamEnds(c) \/ StreamBreaks(c) \/ RecordSuccess(c)
               \/ RecordFailure(c) \/ MoveSeriesTag(c) \/ WriteCompose(c)
               \/ WriteMonitoring(c) \/ WriteNotices(c) \/ Raise(c) \/ AbortFails(c)
    BY <2>5 DEF StartBuild, StreamEnds, StreamBreaks, RecordSuccess, RecordFailure,
       MoveSeriesTag, WriteCompose, WriteMonitoring, WriteNotices, Generate, Raise, AbortFails
  <2> QED BY <1>3, <2>1, <2>2, <2>3, <2>4, <2>5 DEF Post, PostGoesOn, Daemon, Worker
<1>4. ASSUME NEW r \in Requests, Delete(r)
      PROVE  \/ dir'[b] = dir[b]
             \/ ~dir'[b] /\ status'[b] = NoStatus /\ pc[b] = "over" /\ pc'[b] = "over"
  <2>1. CASE RemoveEmptied(r)
    BY <1>1, <2>1 DEF TypeOK, RemoveEmptied, IInv, DeletesAreUnowned
  <2>2. CASE LeaveDelete(r) \/ RemoveDirectory(r) \/ RemoveEntry(r) \/ RemoveCredential(r)
               \/ RemovalFails(r) \/ ResolveTags(r) \/ Untag(r) \/ UntagSeries(r)
    BY <2>2 DEF LeaveDelete, RemoveDirectory, RemoveEntry, RemoveCredential, RemovalFails,
       ResolveTags, Untag, UntagSeries
  <2> QED BY <1>4, <2>1, <2>2 DEF Delete
<1>5. CASE \/ \E r \in Requests, c \in Builds : OpenDelete(r, c)
           \/ Crash \/ Restart \/ Serve \/ ListingMakesKey \/ ListingFillsKey
  BY <1>5 DEF OpenDelete, Crash, Restart, Serve, ListingMakesKey, ListingFillsKey
<1> QED BY <1>2, <1>3, <1>4, <1>5 DEF Next

(* A credential is written while its build is at work and removed once its
   directory is: it is never seen missing in between. *)
LEMMA CredentialStep ==
  ASSUME IInv, [Next]_vars, NEW b \in Builds
  PROVE  \/ cred'[b] = cred[b]
         \/ cred'[b] # "none" /\ pc[b] # "over"
         \/ /\ cred'[b] = "none" /\ b \in doomed /\ pc[b] = "over" /\ pc'[b] = "over"
            /\ ~dir'[b] /\ status'[b] = NoStatus
<1>1. TypeOK
  BY DEF IInv
<1>2. CASE UNCHANGED vars
  BY <1>2
<1>3. ASSUME NEW c \in Builds,
             Post(c) \/ Daemon(c) \/ Worker(c) \/ MarkInterrupted(c) \/ MarkingStops(c)
      PROVE  \/ cred'[b] = cred[b]
             \/ cred'[b] # "none" /\ pc[b] # "over"
  <2>1. CASE StorePlaceholder(c) \/ RecordSuccess(c) \/ RecordFailure(c)
    BY <1>1, <2>1 DEF TypeOK, StorePlaceholder, RecordSuccess, RecordFailure,
       SaveCredential, Move
  <2>2. CASE CreateContext(c) \/ MakeKey(c) \/ KeyRaises(c) \/ StartBuildRecord(c)
               \/ Respond(c) \/ PostFails(c) \/ DaemonBuilds(c) \/ DaemonFails(c) \/ MarkInterrupted(c) \/ MarkingStops(c)
    BY <2>2 DEF CreateContext, MakeKey, KeyRaises, StartBuildRecord, Respond, Generate,
       PostFails, DaemonBuilds, DaemonFails, MarkInterrupted, MarkingStops
  <2>3. CASE StartBuild(c) \/ StreamEnds(c) \/ StreamBreaks(c) \/ FinishFailed(c)
               \/ MoveSeriesTag(c) \/ WriteCompose(c) \/ WriteMonitoring(c)
               \/ WriteNotices(c) \/ EnterSmokeStage(c) \/ SmokeTest(c) \/ Raise(c)
               \/ Abort(c) \/ AbortFails(c)
    BY <2>3 DEF StartBuild, StreamEnds, StreamBreaks, FinishFailed, MoveSeriesTag,
       WriteCompose, WriteMonitoring, WriteNotices, Generate, EnterSmokeStage, SmokeTest,
       Raise, Abort, AbortFails
  <2> QED BY <1>3, <2>1, <2>2, <2>3 DEF Post, PostGoesOn, Daemon, Worker
<1>4. ASSUME NEW r \in Requests, Delete(r)
      PROVE  \/ cred'[b] = cred[b]
             \/ /\ cred'[b] = "none" /\ b \in doomed /\ pc[b] = "over" /\ pc'[b] = "over"
                /\ ~dir'[b] /\ status'[b] = NoStatus
  <2>1. CASE RemoveCredential(r)
    BY <1>1, <2>1 DEF TypeOK, RemoveCredential, IInv, DeletesAreUnowned
  <2>2. CASE LeaveDelete(r) \/ RemoveDirectory(r) \/ RemoveEntry(r) \/ RemoveEmptied(r)
               \/ RemovalFails(r) \/ ResolveTags(r) \/ Untag(r) \/ UntagSeries(r)
    BY <2>2 DEF LeaveDelete, RemoveDirectory, RemoveEntry, RemoveEmptied, RemovalFails,
       ResolveTags, Untag, UntagSeries
  <2> QED BY <1>4, <2>1, <2>2 DEF Delete
<1>5. CASE \/ \E r \in Requests, c \in Builds : OpenDelete(r, c)
           \/ Crash \/ Restart \/ Serve \/ ListingMakesKey \/ ListingFillsKey
  BY <1>5 DEF OpenDelete, Crash, Restart, Serve, ListingMakesKey, ListingFillsKey
<1> QED BY <1>2, <1>3, <1>4, <1>5 DEF Next

(* A build is minted once, submitted once and over for good. *)
LEMMA TaskStep ==
  ASSUME IInv, [Next]_vars, NEW b \in Builds
  PROVE  /\ pc[b] = "over" => pc'[b] = "over"
         /\ pc[b] \in Live => pc'[b] \in Live \cup {"over"}
<1>1. TypeOK
  BY DEF IInv
<1>2. CASE UNCHANGED vars
  BY <1>2
<1>3. ASSUME NEW c \in Builds, Post(c)
      PROVE  \/ pc'[b] = pc[b]
             \/ pc[b] \notin Live \cup {"over"}
             \/ pc[b] = "started" /\ pc'[b] \in {"queued", "over"}
  BY <1>1, <1>3 DEF TypeOK, Post, PostGoesOn, CreateContext, MakeKey, KeyRaises,
     StorePlaceholder, SaveCredential, StartBuildRecord, Respond, Generate, PostFails, Move
<1>4. ASSUME NEW c \in Builds, Worker(c)
      PROVE  \/ pc'[b] = pc[b]
             \/ pc[b] \in Live /\ pc'[b] \in Live \cup {"over"}
  BY <1>1, <1>4 DEF TypeOK, Worker, StartBuild, StreamEnds, StreamBreaks, RecordSuccess,
     RecordFailure, FinishFailed, MoveSeriesTag, WriteCompose, WriteMonitoring,
     WriteNotices, EnterSmokeStage, SmokeTest, Raise, MayRaise, Abort, AbortFails,
     SaveCredential, Move
<1>5. ASSUME NEW c \in Builds, Daemon(c) \/ MarkInterrupted(c) \/ MarkingStops(c)
      PROVE  UNCHANGED pc
  BY <1>5 DEF Daemon, DaemonBuilds, DaemonFails, MarkInterrupted, MarkingStops
<1>6. ASSUME NEW r \in Requests, Delete(r) \/ \E c \in Builds : OpenDelete(r, c)
      PROVE  UNCHANGED pc
  BY <1>6 DEF Delete, LeaveDelete, RemoveDirectory, RemoveEntry, RemoveEmptied, RemovalFails,
     RemoveCredential, ResolveTags, Untag, UntagSeries, OpenDelete
<1>7. CASE Crash \/ Restart \/ Serve \/ ListingMakesKey \/ ListingFillsKey
  BY <1>1, <1>7 DEF TypeOK, Crash, Restart, Serve, ListingMakesKey, ListingFillsKey
<1> QED BY <1>2, <1>3, <1>4, <1>5, <1>6, <1>7 DEF Next

-----------------------------------------------------------------------------
(* Records and credentials *)

LEMMA RecordIsKeptStep == IInv /\ RecordIsKept /\ [Next]_vars => RecordIsKept'
<1> SUFFICES ASSUME IInv, RecordIsKept, [Next]_vars, NEW b \in Builds,
                    status'[b].state # "none"
             PROVE  dir'[b] /\ cred'[b] # "none"
  BY DEF RecordIsKept
<1>1. status'[b] # NoStatus
  BY DEF NoStatus
<1>2. status[b].state # "none" \/ pc[b] = "saved"
  BY <1>1, RecordStep
<1>3. cred[b] # "none"
  BY <1>2 DEF RecordIsKept, IInv, PostOrder
<1>4. cred'[b] # "none"
  BY <1>1, <1>3, CredentialStep
<1>5. dir[b]
  BY <1>2 DEF RecordIsKept, IInv, PostOrder
<1> QED BY <1>1, <1>4, <1>5, DirectoryStep

(* Whatever has a record has its directory and a credential file. *)
THEOREM RecordsAreKept == SafetySpec => []RecordIsKept
<1>1. Init => RecordIsKept
  BY DEF Init, RecordIsKept, NoStatus
<1> QED BY <1>1, RecordIsKeptStep, Invariance, PTL DEF SafetySpec

-----------------------------------------------------------------------------
(* Tags *)

LEMMA CredentialIsGoneStep ==
  IInv /\ CredentialIsGone /\ [Next]_vars => CredentialIsGone'
<1> SUFFICES ASSUME IInv, CredentialIsGone, [Next]_vars, NEW r \in Requests,
                    del'[r].pc \in {"image", "untag", "untagSeries"}
             PROVE  cred'[del'[r].build] = "none"
  BY DEF CredentialIsGone
<1> USE DEF IInv
<1>1. CASE UNCHANGED del /\ UNCHANGED vars
  BY <1>1 DEF CredentialIsGone
<1>2. ASSUME UNCHANGED del PROVE cred'[del'[r].build] = "none"
  <2>1. /\ del[r].build \in Builds /\ pc[del[r].build] = "over"
        /\ cred[del[r].build] = "none"
    BY <1>2 DEF DeleteOrder, DeletesAreUnowned, CredentialIsGone
  <2> QED BY <1>2, <2>1, CredentialStep
<1>3. ASSUME NEW q \in Requests, Delete(q) PROVE cred'[del'[r].build] = "none"
  <2>1. CASE LeaveDelete(q) \/ RemovalFails(q) \/ UntagSeries(q)
    <3>1. del'[q].pc = "idle" /\ \A p \in Requests \ {q} : del'[p] = del[p]
      BY <2>1, RequestEnds DEF LeaveDelete, RemovalFails, UntagSeries
    <3> QED BY <2>1, <3>1 DEF LeaveDelete, RemovalFails, UntagSeries, CredentialIsGone
  <2>2. CASE RemoveDirectory(q) \/ RemoveEmptied(q)
    <3>1. PICK s \in RemovalSteps : del' = [del EXCEPT ![q].pc = s]
      BY <2>2 DEF RemoveDirectory, RemoveEmptied
    <3>2. del'[q].pc = s /\ \A p \in Requests \ {q} : del'[p] = del[p]
      BY <3>1, RequestMoves
    <3> QED BY <2>2, <3>2 DEF RemoveDirectory, RemoveEmptied, CredentialIsGone
  <2>3. CASE RemoveCredential(q)
    <3>1. /\ \A p \in Requests \ {q} : del'[p] = del[p]
          /\ del'[q].pc = "image" => del'[q].build = del[q].build
          /\ del'[q].pc \in {"idle", "image"}
      BY <2>3, RequestEnds, RequestMoves DEF RemoveCredential
    <3>2. cred \in [Builds -> CredStates] /\ del[q].build \in Builds
          /\ cred' = [cred EXCEPT ![del[q].build] = "none"]
      BY <2>3 DEF TypeOK, RemoveCredential, DeleteOrder
    <3> QED BY <3>1, <3>2 DEF CredentialIsGone, DeleteOrder
  <2>4. CASE ResolveTags(q) \/ Untag(q)
    <3>1. /\ \A p \in Requests \ {q} : del'[p] = del[p]
          /\ del'[q].pc # "idle" => del'[q].build = del[q].build
      BY <2>4, RequestEnds, RequestMoves DEF ResolveTags, Untag
    <3>2. del[q].pc \in {"image", "untag"} /\ UNCHANGED cred
      BY <2>4 DEF ResolveTags, Untag
    <3> QED BY <3>1, <3>2 DEF CredentialIsGone
  <2>5. CASE RemoveEntry(q)
    BY <1>2, <2>5 DEF RemoveEntry
  <2> QED BY <1>3, <2>1, <2>2, <2>3, <2>4, <2>5 DEF Delete
<1>4. ASSUME NEW q \in Requests, NEW c \in Builds, OpenDelete(q, c)
      PROVE  cred'[del'[r].build] = "none"
  <2>1. del[r] = del'[r] /\ UNCHANGED cred
    BY <1>4 DEF OpenDelete, TypeOK
  <2> QED BY <2>1 DEF CredentialIsGone
<1>5. ASSUME NEW c \in Builds,
             Post(c) \/ Daemon(c) \/ Worker(c) \/ MarkInterrupted(c) \/ MarkingStops(c)
      PROVE  UNCHANGED del
  BY <1>5 DEF Post, PostGoesOn, CreateContext, MakeKey, KeyRaises, StorePlaceholder,
     StartBuildRecord, Respond, Generate, PostFails, Daemon, DaemonBuilds, DaemonFails, Worker,
     StartBuild, StreamEnds, StreamBreaks, RecordSuccess, RecordFailure, FinishFailed,
     MoveSeriesTag, WriteCompose, WriteMonitoring, WriteNotices, Generate, EnterSmokeStage,
     SmokeTest, Raise, Abort, AbortFails, MarkInterrupted, MarkingStops
<1>6. CASE Crash
  BY <1>6 DEF Crash, IdleRequest
<1>7. CASE Restart \/ Serve \/ ListingMakesKey \/ ListingFillsKey
  BY <1>2, <1>7 DEF Restart, Serve, ListingMakesKey, ListingFillsKey
<1> QED BY <1>2, <1>3, <1>4, <1>5, <1>6, <1>7 DEF Next

(* What a step may do to a build tag: the daemon that ends a build sets
   it, a delete removes it. *)
LEMMA BuildTagStep ==
  ASSUME TypeOK, [Next]_vars, NEW t \in BuildTags
  PROVE  \/ buildTag'[t] = buildTag[t]
         \/ \E c \in Builds : t = TagOf(c) /\ buildTag'[t] = ImageOf[c]
         \/ /\ buildTag'[t] = None
            /\ \E r \in Requests : del[r].pc = "untag" /\ t = TagOf(del[r].build)
<1>1. CASE UNCHANGED vars
  BY <1>1
<1>2. ASSUME NEW c \in Builds, DaemonBuilds(c)
      PROVE  buildTag'[t] = buildTag[t] \/ (t = TagOf(c) /\ buildTag'[t] = ImageOf[c])
  BY <1>2, TagOfType DEF TypeOK, DaemonBuilds
<1>3. ASSUME NEW c \in Builds,
             \/ Post(c) \/ DaemonFails(c) \/ Worker(c)
             \/ MarkInterrupted(c) \/ MarkingStops(c)
      PROVE  UNCHANGED buildTag
  BY <1>3 DEF Post, PostGoesOn, CreateContext, MakeKey, KeyRaises, StorePlaceholder,
     StartBuildRecord, Respond, Generate, PostFails, DaemonFails, Worker, StartBuild,
     StreamEnds, StreamBreaks, RecordSuccess, RecordFailure, FinishFailed, MoveSeriesTag,
     WriteCompose, WriteMonitoring, WriteNotices, Generate, EnterSmokeStage, SmokeTest, Raise,
     Abort, AbortFails, MarkInterrupted, MarkingStops
<1>4. ASSUME NEW r \in Requests, Untag(r)
      PROVE  \/ buildTag'[t] = buildTag[t]
             \/ buildTag'[t] = None /\ del[r].pc = "untag" /\ t = TagOf(del[r].build)
  BY <1>4 DEF TypeOK, Untag
<1>5. ASSUME NEW r \in Requests,
             \/ LeaveDelete(r) \/ RemoveDirectory(r) \/ RemoveEntry(r) \/ RemoveEmptied(r)
             \/ RemovalFails(r) \/ RemoveCredential(r) \/ ResolveTags(r) \/ UntagSeries(r)
             \/ \E c \in Builds : OpenDelete(r, c)
      PROVE  UNCHANGED buildTag
  BY <1>5 DEF LeaveDelete, RemoveDirectory, RemoveEntry, RemoveEmptied, RemovalFails,
     RemoveCredential, ResolveTags, UntagSeries, OpenDelete
<1>6. CASE Crash \/ Restart \/ Serve \/ ListingMakesKey \/ ListingFillsKey
  BY <1>6 DEF Crash, Restart, Serve, ListingMakesKey, ListingFillsKey
<1> QED BY <1>1, <1>2, <1>3, <1>4, <1>5, <1>6 DEF Next, Daemon, Delete

LEMMA TagsAreOwnStep ==
  ASSUME UniqueTags PROVE IInv /\ TagsAreOwn /\ [Next]_vars => TagsAreOwn'
<1> SUFFICES ASSUME IInv, TagsAreOwn, [Next]_vars, NEW b \in Builds
             PROVE  buildTag'[TagOf(b)] \in {None, ImageOf[b]}
  BY DEF TagsAreOwn
<1>1. TypeOK /\ TagOf(b) \in BuildTags
  BY TagOfType DEF IInv
<1>2. CASE buildTag'[TagOf(b)] = buildTag[TagOf(b)]
  BY <1>2 DEF TagsAreOwn
<1>3. ASSUME NEW c \in Builds, TagOf(b) = TagOf(c), buildTag'[TagOf(b)] = ImageOf[c]
      PROVE  buildTag'[TagOf(b)] = ImageOf[b]
  BY <1>3 DEF UniqueTags
<1> QED BY <1>1, <1>2, <1>3, BuildTagStep

(* The tag a build's compose file names is its own image's or gone, as
   long as no two ids share the prefix the tag is made of. *)
THEOREM TagsNameOwnImages ==
  ASSUME UniqueTags PROVE SafetySpec => []TagNamesOwnImage
<1>1. Init => TagsAreOwn
  BY TagOfType DEF Init, TagsAreOwn
<1>2. TagsAreOwn => TagNamesOwnImage
  BY DEF TagsAreOwn, TagNamesOwnImage
<1> QED BY <1>1, <1>2, TagsAreOwnStep, Invariance, PTL DEF SafetySpec

(* A build that still has its directory or its credential keeps its tag:
   no delete of another build, however far it got, takes it away. *)
THEOREM KeptBuildsKeepTags ==
  ASSUME UniqueTags PROVE SafetySpec => KeptBuildKeepsTag
<1>1. Init => CredentialIsGone
  BY DEF Init, CredentialIsGone, IdleRequest
<1>2. IInv /\ CredentialIsGone /\ [Next]_vars =>
        [\A b \in Builds : (dir[b] \/ cred[b] # "none") /\ buildTag[TagOf(b)] # None =>
           buildTag'[TagOf(b)] # None]_vars
  <2> SUFFICES ASSUME IInv, CredentialIsGone, [Next]_vars, NEW b \in Builds,
                      dir[b] \/ cred[b] # "none", buildTag[TagOf(b)] # None
               PROVE  buildTag'[TagOf(b)] # None
    OBVIOUS
  <2>1. TypeOK /\ TagOf(b) \in BuildTags
    BY TagOfType DEF IInv
  <2>2. ASSUME NEW r \in Requests, del[r].pc = "untag", TagOf(b) = TagOf(del[r].build)
        PROVE  FALSE
    <3>1. /\ del[r].build \in Builds /\ ~dir[del[r].build]
          /\ cred[del[r].build] = "none"
      BY <2>2 DEF IInv, DeleteOrder, DeletesAreUnowned, CredentialIsGone
    <3> QED BY <2>2, <3>1 DEF UniqueTags
  <2> QED BY <2>1, <2>2, BuildTagStep
<1> QED BY <1>1, <1>2, CredentialIsGoneStep, Invariance, PTL DEF SafetySpec, KeptBuildKeepsTag

(* The series tag moves only onto the image of a build of the series whose
   credential already says it succeeded. *)
THEOREM SeriesTagsAreEarned ==
  ASSUME UniqueTags PROVE SafetySpec => SeriesTagEarned
<1>1. Init => TagsAreOwn
  BY TagOfType DEF Init, TagsAreOwn
<1>2. IInv /\ TagsAreOwn /\ [Next]_vars =>
        [\A s \in Series : seriesTag'[s] \notin {None, seriesTag[s]} =>
           \E b \in Builds : SeriesOf[b] = s /\ cred[b] = "ok" /\ ImageOf[b] = seriesTag'[s]]_vars
  <2> SUFFICES ASSUME IInv, TagsAreOwn, [Next]_vars, NEW s \in Series,
                      seriesTag'[s] \notin {None, seriesTag[s]}
               PROVE  \E b \in Builds : SeriesOf[b] = s /\ cred[b] = "ok" /\ ImageOf[b] = seriesTag'[s]
    OBVIOUS
  <2>1. TypeOK
    BY DEF IInv
  <2>2. ASSUME NEW b \in Builds, MoveSeriesTag(b)
        PROVE  SeriesOf[b] = s /\ cred[b] = "ok" /\ ImageOf[b] = seriesTag'[s]
    <3>1. cred[b] = "ok"
      BY <2>2 DEF MoveSeriesTag, Move, IInv, WorkOrder, Built
    <3>2. SeriesOf[b] = s /\ seriesTag'[s] = buildTag[TagOf(b)] /\ buildTag[TagOf(b)] # None
      BY <2>1, <2>2 DEF TypeOK, MoveSeriesTag
    <3> QED BY <3>1, <3>2 DEF TagsAreOwn
  <2>3. ASSUME NEW r \in Requests, UntagSeries(r) PROVE FALSE
    BY <2>1, <2>3 DEF TypeOK, UntagSeries
  <2>4. ASSUME UNCHANGED seriesTag PROVE FALSE
    BY <2>4
  <2>5. ASSUME NEW c \in Builds, Post(c) \/ Daemon(c) \/ MarkInterrupted(c) \/ MarkingStops(c)
        PROVE  UNCHANGED seriesTag
    BY <2>5 DEF Post, PostGoesOn, CreateContext, MakeKey, KeyRaises, StorePlaceholder,
       StartBuildRecord, Respond, Generate, PostFails, Daemon, DaemonBuilds, DaemonFails,
       MarkInterrupted, MarkingStops
  <2>6. ASSUME NEW c \in Builds, Worker(c), ~MoveSeriesTag(c)
        PROVE  UNCHANGED seriesTag
    BY <2>6 DEF Worker, StartBuild, StreamEnds, StreamBreaks, RecordSuccess, RecordFailure,
       FinishFailed, WriteCompose, WriteMonitoring, WriteNotices, Generate,
       EnterSmokeStage, SmokeTest, Raise, Abort, AbortFails
  <2>7. ASSUME NEW r \in Requests, Delete(r) \/ \E c \in Builds : OpenDelete(r, c),
               ~UntagSeries(r)
        PROVE  UNCHANGED seriesTag
    BY <2>7 DEF Delete, LeaveDelete, RemoveDirectory, RemoveEntry, RemoveEmptied, RemovalFails,
       RemoveCredential, ResolveTags, Untag, OpenDelete
  <2>8. CASE Crash \/ Restart \/ Serve \/ ListingMakesKey \/ ListingFillsKey \/ UNCHANGED vars
    BY <2>4, <2>8 DEF Crash, Restart, Serve, ListingMakesKey, ListingFillsKey
  <2> QED BY <2>2, <2>3, <2>4, <2>5, <2>6, <2>7, <2>8 DEF Next
<1> QED BY <1>1, <1>2, TagsAreOwnStep, Invariance, PTL DEF SafetySpec, SeriesTagEarned

-----------------------------------------------------------------------------
(* A disk that does not fail *)

(* Every running record has its task once the console serves: a task ends
   only by concluding its record, a crash takes the console down with it,
   and the console serves again only when the records are marked. *)
THEOREM RunningBuildsAreWatched ==
  ASSUME ~DiskMayFail PROVE SafetySpec => []RunningIsWatched
<1>1. Init => RunningIsWatched
  BY DEF Init, RunningIsWatched
<1>2. IInv /\ RunningIsWatched /\ [Next]_vars => RunningIsWatched'
  <2> SUFFICES ASSUME IInv, RunningIsWatched, [Next]_vars, up' = "serving",
                      NEW b \in Builds, status'[b].state = "running"
               PROVE  pc'[b] \in Live
    BY DEF RunningIsWatched
  <2>1. TypeOK
    BY DEF IInv
  <2>2. CASE UNCHANGED vars
    BY <2>2 DEF RunningIsWatched
  <2>3. ASSUME NEW c \in Builds, Post(c) PROVE pc'[b] \in Live
    <3>1. CASE CreateContext(c) \/ MakeKey(c) \/ StorePlaceholder(c) \/ Respond(c)
      BY <2>1, <3>1 DEF TypeOK, CreateContext, MakeKey, StorePlaceholder, SaveCredential,
         Respond, Generate, Move, RunningIsWatched
    <3>3. CASE KeyRaises(c)
      BY <2>1, <3>3 DEF TypeOK, KeyRaises, Move, RunningIsWatched, IInv, PostOrder, NoStatus
    <3>2. CASE StartBuildRecord(c)
      BY <2>1, <3>2 DEF TypeOK, StartBuildRecord, Move, Save, RunningIsWatched
    <3> QED BY <2>3, <3>1, <3>2, <3>3 DEF Post, PostGoesOn, PostFails
  <2>4. ASSUME NEW c \in Builds, Worker(c) PROVE pc'[b] \in Live
    <3>1. CASE StartBuild(c) \/ StreamEnds(c) \/ StreamBreaks(c) \/ RecordSuccess(c)
                 \/ RecordFailure(c) \/ MoveSeriesTag(c) \/ Raise(c)
      BY <2>1, <3>1 DEF TypeOK, StartBuild, StreamEnds, StreamBreaks, RecordSuccess,
         RecordFailure, SaveCredential, MoveSeriesTag, Raise, Move, RunningIsWatched
    <3>2. CASE WriteCompose(c) \/ WriteMonitoring(c) \/ WriteNotices(c)
      BY <2>1, <3>2 DEF TypeOK, WriteCompose, WriteMonitoring, WriteNotices, Generate,
         Move, RunningIsWatched
    <3>3. CASE EnterSmokeStage(c)
      <4>1. pc[b] \in Live
        BY <2>1, <3>3 DEF TypeOK, EnterSmokeStage, SetStage, Save, Move, RunningIsWatched
      <4> QED BY <2>1, <3>3, <4>1 DEF TypeOK, EnterSmokeStage, Move
    <3>4. CASE FinishFailed(c) \/ SmokeTest(c) \/ Abort(c)
      <4>1. status[c].state = "running"
        BY <3>4 DEF FinishFailed, SmokeTest, Abort, Move, IInv, WorkerOwnsBuild
      <4>2. c # b
        BY <2>1, <3>4, <4>1 DEF TypeOK, FinishFailed, SmokeTest, Abort, Finish, Save
      <4> QED BY <2>1, <3>4, <4>2 DEF TypeOK, FinishFailed, SmokeTest, Abort, Finish, Save,
                 Move, RunningIsWatched
    <3> QED BY <2>4, <3>1, <3>2, <3>3, <3>4 DEF Worker, AbortFails
  <2>5. ASSUME NEW c \in Builds, Daemon(c) PROVE pc'[b] \in Live
    BY <2>5 DEF Daemon, DaemonBuilds, DaemonFails, RunningIsWatched
  <2>6. ASSUME NEW r \in Requests, Delete(r) PROVE pc'[b] \in Live
    <3>1. CASE RemoveEntry(r)
      BY <2>1, <3>1 DEF TypeOK, RemoveEntry, NoStatus, RunningIsWatched
    <3>2. CASE LeaveDelete(r) \/ RemoveDirectory(r) \/ RemoveEmptied(r) \/ RemoveCredential(r)
                 \/ ResolveTags(r) \/ Untag(r) \/ UntagSeries(r)
      BY <3>2 DEF LeaveDelete, RemoveDirectory, RemoveEmptied, RemoveCredential, ResolveTags,
         Untag, UntagSeries, RunningIsWatched
    <3> QED BY <2>6, <3>1, <3>2 DEF Delete, RemovalFails
  <2>7. ASSUME NEW r \in Requests, NEW c \in Builds, OpenDelete(r, c) PROVE pc'[b] \in Live
    BY <2>7 DEF OpenDelete, RunningIsWatched
  <2>8. CASE Crash \/ Restart \/ Serve \/ ListingMakesKey \/ ListingFillsKey
    BY <2>8 DEF Crash, Restart, Serve, ListingMakesKey, ListingFillsKey, RunningIsWatched
  <2>9. ASSUME NEW c \in Builds, MarkInterrupted(c) \/ MarkingStops(c) PROVE FALSE
    BY <2>9 DEF MarkInterrupted, MarkingStops
  <2> QED BY <2>2, <2>3, <2>4, <2>5, <2>6, <2>7, <2>8, <2>9 DEF Next
<1> QED BY <1>1, <1>2, Invariance, PTL DEF SafetySpec

(* What is written stays until a removal of the build has begun. *)
LEMMA FilesStep ==
  ASSUME IInv, [Next]_vars, NEW b \in Builds
  PROVE  \/ /\ files[b] \subseteq files'[b]
            /\ "compose" \in files'[b] => "compose" \in files[b] \/ b \in Composed
         \/ b \in doomed /\ files'[b] \subseteq files[b]
<1>1. TypeOK
  BY DEF IInv
<1>2. CASE UNCHANGED vars
  BY <1>2
<1>3. ASSUME NEW c \in Builds, NEW f \in Artifacts, Generate(c, f),
             f = "compose" => c \in Composed
      PROVE  /\ files[b] \subseteq files'[b]
             /\ "compose" \in files'[b] => "compose" \in files[b] \/ b \in Composed
  BY <1>1, <1>3 DEF TypeOK, Generate
<1>4. ASSUME NEW c \in Builds,
             \/ WriteCompose(c) \/ WriteMonitoring(c) \/ WriteNotices(c) \/ Respond(c)
      PROVE  \/ UNCHANGED files
             \/ \E f \in Artifacts : Generate(c, f) /\ (f = "compose" => c \in Composed)
  BY <1>4 DEF WriteCompose, WriteMonitoring, WriteNotices, Respond
<1>5. ASSUME NEW c \in Builds, Post(c) \/ Daemon(c) \/ MarkingStops(c), ~Respond(c)
      PROVE  UNCHANGED files
  BY <1>5 DEF Post, PostGoesOn, CreateContext, MakeKey, KeyRaises, StorePlaceholder,
     StartBuildRecord, PostFails, Daemon, DaemonBuilds, DaemonFails, MarkingStops
<1>6. ASSUME NEW c \in Builds, Worker(c),
             ~(WriteCompose(c) \/ WriteMonitoring(c) \/ WriteNotices(c))
      PROVE  UNCHANGED files
  BY <1>6 DEF Worker, StartBuild, StreamEnds, StreamBreaks, RecordSuccess, RecordFailure,
     FinishFailed, MoveSeriesTag, EnterSmokeStage, SmokeTest, Raise, Abort, AbortFails
<1>7. ASSUME NEW c \in Builds, MarkInterrupted(c)
      PROVE  /\ files[b] \subseteq files'[b]
             /\ "compose" \in files'[b] => "compose" \in files[b]
  BY <1>1, <1>7 DEF TypeOK, MarkInterrupted
<1>8. ASSUME NEW r \in Requests, RemoveEntry(r)
      PROVE  files'[b] = files[b] \/ (b \in doomed /\ files'[b] \subseteq files[b])
  BY <1>1, <1>8 DEF TypeOK, RemoveEntry, IInv, DeletesAreUnowned
<1>9. ASSUME NEW r \in Requests, Delete(r) \/ \E c \in Builds : OpenDelete(r, c),
             ~RemoveEntry(r)
      PROVE  UNCHANGED files
  BY <1>9 DEF Delete, LeaveDelete, RemoveDirectory, RemoveEmptied, RemoveCredential,
     RemovalFails, ResolveTags, Untag, UntagSeries, OpenDelete
<1>10. CASE Crash \/ Restart \/ Serve \/ ListingMakesKey \/ ListingFillsKey
  BY <1>10 DEF Crash, Restart, Serve, ListingMakesKey, ListingFillsKey
<1> QED BY <1>2, <1>3, <1>4, <1>5, <1>6, <1>7, <1>8, <1>9, <1>10 DEF Next

(* A removal that has begun is never taken back. *)
LEMMA DoomStep ==
  ASSUME [Next]_vars PROVE doomed \subseteq doomed'
<1>1. CASE UNCHANGED vars
  BY <1>1
<1>2. ASSUME NEW c \in Builds, Post(c) \/ Daemon(c) \/ MarkInterrupted(c) \/ MarkingStops(c)
      PROVE  UNCHANGED doomed
  BY <1>2 DEF Post, PostGoesOn, CreateContext, MakeKey, KeyRaises, StorePlaceholder,
     StartBuildRecord, Respond, Generate, PostFails, Daemon, DaemonBuilds, DaemonFails,
     MarkInterrupted, MarkingStops
<1>3. ASSUME NEW c \in Builds, Worker(c)
      PROVE  UNCHANGED doomed
  BY <1>3 DEF Worker, StartBuild, StreamEnds, StreamBreaks, RecordSuccess, RecordFailure,
     FinishFailed, MoveSeriesTag, WriteCompose, WriteMonitoring, WriteNotices, Generate,
     EnterSmokeStage, SmokeTest, Raise, Abort, AbortFails
<1>4. ASSUME NEW r \in Requests, Delete(r) \/ \E c \in Builds : OpenDelete(r, c)
      PROVE  doomed \subseteq doomed'
  BY <1>4 DEF Delete, LeaveDelete, RemoveDirectory, RemoveEntry, RemoveEmptied,
     RemoveCredential, RemovalFails, ResolveTags, Untag, UntagSeries, OpenDelete
<1>5. CASE Crash \/ Restart \/ Serve \/ ListingMakesKey \/ ListingFillsKey
  BY <1>5 DEF Crash, Restart, Serve, ListingMakesKey, ListingFillsKey
<1> QED BY <1>1, <1>2, <1>3, <1>4, <1>5 DEF Next

(* The worker passes each writing step once, in order, and concludes from
   its last one. *)
LEMMA WriteOrder ==
  ASSUME IInv, [Next]_vars, NEW b \in Builds
  PROVE  /\ pc'[b] = "monitoring" => pc[b] = "monitoring" \/ WriteCompose(b)
         /\ pc'[b] = "notices" => \/ pc[b] = "notices" \/ WriteMonitoring(b)
                                  \/ WriteCompose(b) /\ b \notin Monitored
         /\ pc'[b] \in {"staging", "smoke"} => pc[b] \in {"notices", "staging", "smoke"}
         /\ pc'[b] \in Live \ {"started"} => pc[b] \in Live \ {"started"} \/ Respond(b)
         /\ status'[b].state = "succeeded" => status[b].state = "succeeded" \/ pc[b] = "smoke"
         /\ status'[b].state = "failed" =>
              status[b].state = "failed" \/ pc[b] \in Live \ {"started"}
<1>1. TypeOK
  BY DEF IInv
<1>2. CASE UNCHANGED vars
  BY <1>2
<1>3. ASSUME NEW c \in Builds, c # b, Post(c) \/ Worker(c)
      PROVE  pc'[b] = pc[b] /\ status'[b] = status[b]
  <2>1. pc'[b] = pc[b]
    BY <1>1, <1>3 DEF TypeOK, Post, PostGoesOn, CreateContext, MakeKey, KeyRaises,
       StorePlaceholder, SaveCredential, StartBuildRecord, Respond, Generate, PostFails, Worker,
       StartBuild, StreamEnds, StreamBreaks, RecordSuccess, RecordFailure, FinishFailed,
       MoveSeriesTag, WriteCompose, WriteMonitoring, WriteNotices, EnterSmokeStage, SmokeTest,
       Raise, Abort, AbortFails, Move
  <2>2. status'[b] = status[b]
    BY <1>1, <1>3 DEF TypeOK, Post, PostGoesOn, CreateContext, MakeKey, KeyRaises,
       StorePlaceholder, StartBuildRecord, Respond, Generate, PostFails, Worker, StartBuild,
       StreamEnds, StreamBreaks, RecordSuccess, RecordFailure, FinishFailed, MoveSeriesTag,
       WriteCompose, WriteMonitoring, WriteNotices, Generate, EnterSmokeStage, SmokeTest, Raise,
       Abort, AbortFails, Finish, SetStage, Save
  <2> QED BY <2>1, <2>2
<1>4. CASE Post(b)
  <2>1. /\ pc'[b] \notin {"monitoring", "notices", "staging", "smoke"}
        /\ pc'[b] \in Live \ {"started"} => Respond(b)
    BY <1>1, <1>4 DEF TypeOK, Post, PostGoesOn, CreateContext, MakeKey, KeyRaises,
       StorePlaceholder, SaveCredential, StartBuildRecord, Respond, Generate, PostFails, Move
  <2>2. \A s \in {"succeeded", "failed"} : status'[b].state = s => status[b].state = s
    BY <1>1, <1>4 DEF TypeOK, Post, PostGoesOn, CreateContext, MakeKey, KeyRaises,
       StorePlaceholder, StartBuildRecord, Respond, Generate, PostFails, Save, StartRecord
  <2> QED BY <2>1, <2>2
<1>5. CASE Worker(b)
  <2>1. CASE StartBuild(b) \/ StreamEnds(b) \/ StreamBreaks(b) \/ MoveSeriesTag(b)
               \/ AbortFails(b)
    BY <1>1, <2>1 DEF TypeOK, StartBuild, StreamEnds, StreamBreaks, MoveSeriesTag, AbortFails,
       Move
  <2>6. CASE RecordSuccess(b) \/ RecordFailure(b)
    BY <1>1, <2>6 DEF TypeOK, RecordSuccess, RecordFailure, SaveCredential, Move
  <2>7. CASE Raise(b)
    BY <1>1, <2>7 DEF TypeOK, Raise, MayRaise, Move
  <2>2. CASE WriteCompose(b) \/ WriteMonitoring(b) \/ WriteNotices(b)
    BY <1>1, <2>2 DEF TypeOK, WriteCompose, WriteMonitoring, WriteNotices, Generate, Move
  <2>3. CASE EnterSmokeStage(b)
    <3>1. status[b] \in StatusRecords
      BY <1>1 DEF TypeOK
    <3>2. [status[b] EXCEPT !.stage = "smoke"].state = status[b].state
      BY <3>1 DEF StatusRecords
    <3>3. pc[b] = "staging" /\ pc'[b] = "smoke"
      BY <1>1, <2>3 DEF TypeOK, EnterSmokeStage, Move
    <3>4. status'[b].state = status[b].state
      BY <1>1, <2>3, <3>2 DEF TypeOK, EnterSmokeStage, SetStage, Save
    <3> QED BY <3>3, <3>4
  <2>4. CASE SmokeTest(b)
    BY <1>1, <2>4 DEF TypeOK, SmokeTest, Move
  <2>5. CASE FinishFailed(b) \/ Abort(b)
    BY <1>1, <2>5 DEF TypeOK, FinishFailed, Abort, Finish, Save, Move
  <2> QED BY <1>5, <2>1, <2>2, <2>3, <2>4, <2>5, <2>6, <2>7 DEF Worker
<1>6. ASSUME NEW c \in Builds, Daemon(c) \/ \E r \in Requests : OpenDelete(r, c)
      PROVE  UNCHANGED <<pc, status>>
  BY <1>6 DEF Daemon, DaemonBuilds, DaemonFails, OpenDelete
<1>7. ASSUME NEW c \in Builds, MarkInterrupted(c) \/ MarkingStops(c)
      PROVE  /\ pc'[b] = pc[b]
             /\ \A s \in {"succeeded", "failed"} : status'[b].state = s => status[b].state = s
  <2>1. status[c] \in StatusRecords
    BY <1>1 DEF TypeOK
  <2>2. Interrupted(c).state = "interrupted"
    BY <2>1 DEF StatusRecords, Interrupted
  <2> QED BY <1>1, <1>7, <2>2 DEF TypeOK, MarkInterrupted, MarkingStops, Save
<1>8. ASSUME NEW r \in Requests, Delete(r)
      PROVE  /\ pc'[b] = pc[b]
             /\ \A s \in {"succeeded", "failed"} : status'[b].state = s => status[b].state = s
  <2>1. status'[b] \in {status[b], NoStatus}
    BY <1>1, <1>8 DEF TypeOK, Delete, LeaveDelete, RemoveDirectory, RemoveEntry, RemoveEmptied,
       RemovalFails, RemoveCredential, ResolveTags, Untag, UntagSeries
  <2>2. UNCHANGED pc
    BY <1>8 DEF Delete, LeaveDelete, RemoveDirectory, RemoveEntry, RemoveEmptied, RemovalFails,
       RemoveCredential, ResolveTags, Untag, UntagSeries
  <2> QED BY <2>1, <2>2 DEF NoStatus
<1>9. CASE Crash \/ Restart \/ Serve \/ ListingMakesKey \/ ListingFillsKey
  BY <1>1, <1>9 DEF TypeOK, Crash, Restart, Serve, ListingMakesKey, ListingFillsKey
<1> QED BY <1>2, <1>3, <1>4, <1>5, <1>6, <1>7, <1>8, <1>9 DEF Next

LEMMA FilesAreDeliveredStep == IInv /\ FilesAreDelivered /\ [Next]_vars => FilesAreDelivered'
<1> SUFFICES ASSUME IInv, FilesAreDelivered, [Next]_vars, NEW b \in Builds
             PROVE  /\ "compose" \in files'[b] => b \in Composed
                    /\ pc'[b] \in Live \ {"started"} => "log" \in files'[b]
                    /\ pc'[b] \in {"monitoring", "notices", "staging", "smoke"} /\ b \in Composed
                         => "compose" \in files'[b]
                    /\ pc'[b] \in {"notices", "staging", "smoke"} /\ b \in Monitored =>
                         "monitoring" \in files'[b]
                    /\ status'[b].state = "succeeded" /\ b \notin doomed' =>
                         Deliverables(b) \subseteq files'[b]
                    /\ status'[b].state = "failed" /\ b \notin doomed' =>
                         "log" \in files'[b]
  BY DEF FilesAreDelivered, Deliverables
<1>1. \/ files[b] \subseteq files'[b]
      \/ b \in doomed /\ pc[b] = "over" /\ pc'[b] = "over"
  BY FilesStep, TaskStep DEF IInv, DoomOrder
<1>2. "compose" \in files'[b] => b \in Composed
  BY FilesStep DEF FilesAreDelivered
<1>3. WriteCompose(b) /\ b \in Composed => "compose" \in files'[b]
  BY DEF WriteCompose, Generate, IInv, TypeOK
<1>4. WriteMonitoring(b) => "monitoring" \in files'[b]
  BY DEF WriteMonitoring, Generate, IInv, TypeOK
<1>5. WriteMonitoring(b) => pc[b] = "monitoring"
  BY DEF WriteMonitoring, Move
<1>6. Respond(b) => "log" \in files'[b]
  BY DEF Respond, Generate, IInv, TypeOK
<1>7. pc'[b] \in Live \ {"started"} => "log" \in files'[b]
  BY <1>1, <1>6, WriteOrder DEF FilesAreDelivered
<1>8. pc'[b] \in {"monitoring", "notices", "staging", "smoke"} /\ b \in Composed
        => "compose" \in files'[b]
  BY <1>1, <1>3, <1>5, WriteOrder DEF FilesAreDelivered
<1>9. pc'[b] \in {"notices", "staging", "smoke"} /\ b \in Monitored =>
        "monitoring" \in files'[b]
  BY <1>1, <1>4, WriteOrder DEF FilesAreDelivered
<1>10. ASSUME status'[b].state = "succeeded", b \notin doomed'
       PROVE  Deliverables(b) \subseteq files'[b]
  <2>1. b \notin doomed /\ files[b] \subseteq files'[b]
    BY <1>1, <1>10, DoomStep
  <2>2. Deliverables(b) \subseteq files[b]
    BY <1>10, <2>1, WriteOrder DEF FilesAreDelivered, Deliverables
  <2> QED BY <2>1, <2>2
<1>11. ASSUME status'[b].state = "failed", b \notin doomed' PROVE "log" \in files'[b]
  <2>1. b \notin doomed /\ files[b] \subseteq files'[b]
    BY <1>1, <1>11, DoomStep
  <2> QED BY <1>11, <2>1, WriteOrder DEF FilesAreDelivered
<1> QED BY <1>2, <1>7, <1>8, <1>9, <1>10, <1>11

(* The files of a build follow its task: what the page of a success offers
   was written before the record said so, and stays until a removal of the
   build begins, whatever fails, crashes or restarts. *)
THEOREM FilesFollowTask == SafetySpec => []FilesAreDelivered
<1>1. Init => FilesAreDelivered
  BY DEF Init, FilesAreDelivered, NoStatus
<1> QED BY <1>1, FilesAreDeliveredStep, Invariance, PTL DEF SafetySpec

(* A record that says succeeded has its image, a credential that agrees
   and, unless a removal of the build has begun, every file its page
   offers: on any disk, through crashes and restarts. *)
THEOREM SuccessIsComplete == SafetySpec => []SucceededIsComplete
<1>1. IInv /\ FilesAreDelivered => SucceededIsComplete
  BY DEF IInv, EndedOrder, WorkOrder, FilesAreDelivered, SucceededIsComplete
<1> QED BY <1>1, FilesFollowTask, Invariance, PTL

-----------------------------------------------------------------------------
(* Passwords *)

(* The password of a build that has ended on its own can be read. *)
PasswordIsKept ==
  \A b \in Builds : status[b].state \in {"succeeded", "failed"} => cred[b] \in Readable

(* A worker about to record a failure has a whole credential behind it. *)
FailureHasPassword ==
  \A b \in Builds :
    /\ pc[b] \in {"failing", "aborting"} => cred[b] \in Readable
    /\ status[b].state = "failed" => cred[b] \in Readable

(* A console that never dies has nothing to interrupt when it starts. *)
NothingInterrupted ==
  /\ up # "down" /\ crashes = 0
  /\ up = "booting" => \A b \in Builds : pc[b] = "new"
  /\ \A b \in Builds : status[b].state # "interrupted"

(* What a step of the worker may do on the way to a failure. *)
LEMMA FailureStep ==
  ASSUME IInv, ~DiskMayFail, [Next]_vars, NEW b \in Builds
  PROVE  /\ pc'[b] \in {"failing", "aborting"} =>
              \/ pc[b] \in {"failing", "aborting"} /\ cred'[b] = cred[b]
              \/ cred'[b] = "notOk"
              \/ pc[b] \in {"building", "tagging", "smoke"} /\ cred'[b] = cred[b]
         /\ status'[b].state = "failed" =>
              status[b].state = "failed" \/ pc[b] \in {"failing", "aborting"}
         /\ pc[b] \in {"failing", "aborting"} => cred'[b] = cred[b]
<1>1. TypeOK
  BY DEF IInv
<1>2. CASE UNCHANGED vars
  BY <1>2
<1>3. ASSUME NEW c \in Builds, c # b, Post(c) \/ Worker(c)
      PROVE  pc'[b] = pc[b] /\ status'[b] = status[b] /\ cred'[b] = cred[b]
  <2>1. pc'[b] = pc[b]
    BY <1>1, <1>3 DEF TypeOK, Post, PostGoesOn, CreateContext, MakeKey, KeyRaises,
       StorePlaceholder, SaveCredential, StartBuildRecord, Respond, Generate, PostFails, Worker,
       StartBuild, StreamEnds, StreamBreaks, RecordSuccess, RecordFailure, FinishFailed,
       MoveSeriesTag, WriteCompose, WriteMonitoring, WriteNotices, EnterSmokeStage, SmokeTest,
       Raise, Abort, AbortFails, Move
  <2>2. status'[b] = status[b]
    BY <1>1, <1>3 DEF TypeOK, Post, PostGoesOn, CreateContext, MakeKey, KeyRaises,
       StorePlaceholder, StartBuildRecord, Respond, Generate, PostFails, Worker, StartBuild,
       StreamEnds, StreamBreaks, RecordSuccess, RecordFailure, FinishFailed, MoveSeriesTag,
       WriteCompose, WriteMonitoring, WriteNotices, Generate, EnterSmokeStage, SmokeTest, Raise,
       Abort, AbortFails, Finish, SetStage, Save
  <2>3. cred'[b] = cred[b]
    BY <1>1, <1>3 DEF TypeOK, Post, PostGoesOn, CreateContext, MakeKey, KeyRaises,
       StorePlaceholder, SaveCredential, StartBuildRecord, Respond, Generate, PostFails, Worker,
       StartBuild, StreamEnds, StreamBreaks, RecordSuccess, RecordFailure, FinishFailed,
       MoveSeriesTag, WriteCompose, WriteMonitoring, WriteNotices, Generate, EnterSmokeStage,
       SmokeTest, Raise, Abort, AbortFails
  <2> QED BY <2>1, <2>2, <2>3
<1>4. CASE Post(b)
  <2>1. pc'[b] \notin {"failing", "aborting"}
    BY <1>1, <1>4 DEF TypeOK, Post, PostGoesOn, CreateContext, MakeKey, KeyRaises,
       StorePlaceholder, SaveCredential, StartBuildRecord, Respond, Generate, PostFails, Move
  <2>2. status'[b].state = "failed" => status[b].state = "failed"
    BY <1>1, <1>4 DEF TypeOK, Post, PostGoesOn, CreateContext, MakeKey, KeyRaises,
       StorePlaceholder, StartBuildRecord, Respond, Generate, PostFails, Save, StartRecord
  <2>3. pc[b] \notin {"failing", "aborting"}
    BY <1>4 DEF Post, PostGoesOn, CreateContext, MakeKey, KeyRaises, StorePlaceholder,
       SaveCredential, StartBuildRecord, Respond, Generate, PostFails, Move
  <2> QED BY <2>1, <2>2, <2>3
<1>5. CASE Worker(b)
  <2>1. CASE StartBuild(b) \/ StreamEnds(b) \/ MoveSeriesTag(b) \/ RecordSuccess(b)
               \/ StreamBreaks(b) \/ Raise(b) \/ AbortFails(b) \/ RecordFailure(b)
    BY <1>1, <2>1 DEF TypeOK, StartBuild, StreamEnds, StreamBreaks, RecordSuccess,
       RecordFailure, SaveCredential, MoveSeriesTag, Raise, MayRaise, AbortFails, Move
  <2>2. CASE WriteCompose(b) \/ WriteMonitoring(b) \/ WriteNotices(b)
    BY <1>1, <2>2 DEF TypeOK, WriteCompose, WriteMonitoring, WriteNotices, Generate, Move
  <2>3. CASE EnterSmokeStage(b)
    <3>1. status[b] \in StatusRecords
      BY <1>1 DEF TypeOK
    <3>2. [status[b] EXCEPT !.stage = "smoke"].state = status[b].state
      BY <3>1 DEF StatusRecords
    <3>3. pc[b] = "staging" /\ pc'[b] = "smoke"
      BY <1>1, <2>3 DEF TypeOK, EnterSmokeStage, Move
    <3>4. status'[b].state = status[b].state
      BY <1>1, <2>3, <3>2 DEF TypeOK, EnterSmokeStage, SetStage, Save
    <3> QED BY <3>3, <3>4
  <2>4. CASE SmokeTest(b)
    BY <1>1, <2>4 DEF TypeOK, SmokeTest, Finish, Save, Move
  <2>5. CASE FinishFailed(b) \/ Abort(b)
    BY <1>1, <2>5 DEF TypeOK, FinishFailed, Abort, Move
  <2> QED BY <1>5, <2>1, <2>2, <2>3, <2>4, <2>5 DEF Worker
<1>6. ASSUME NEW c \in Builds, Daemon(c) \/ \E r \in Requests : OpenDelete(r, c)
      PROVE  UNCHANGED <<pc, status, cred>>
  BY <1>6 DEF Daemon, DaemonBuilds, DaemonFails, OpenDelete
<1>7. ASSUME NEW c \in Builds, MarkInterrupted(c) \/ MarkingStops(c)
      PROVE  /\ pc'[b] = pc[b] /\ cred'[b] = cred[b]
             /\ status'[b].state = "failed" => status[b].state = "failed"
  <2>1. status[c] \in StatusRecords
    BY <1>1 DEF TypeOK
  <2>2. Interrupted(c).state = "interrupted"
    BY <2>1 DEF StatusRecords, Interrupted
  <2> QED BY <1>1, <1>7, <2>2 DEF TypeOK, MarkInterrupted, MarkingStops, Save
<1>8. ASSUME NEW r \in Requests, Delete(r)
      PROVE  /\ pc'[b] = pc[b]
             /\ status'[b].state = "failed" => status[b].state = "failed"
             /\ pc[b] # "over" => cred'[b] = cred[b]
  <2>1. status'[b] \in {status[b], NoStatus}
    BY <1>1, <1>8 DEF TypeOK, Delete, LeaveDelete, RemoveDirectory, RemoveEntry, RemoveEmptied,
       RemovalFails, RemoveCredential, ResolveTags, Untag, UntagSeries
  <2>2. UNCHANGED pc
    BY <1>8 DEF Delete, LeaveDelete, RemoveDirectory, RemoveEntry, RemoveEmptied, RemovalFails,
       RemoveCredential, ResolveTags, Untag, UntagSeries
  <2>3. pc[b] # "over" => cred'[b] = cred[b]
    BY <1>1, <1>8 DEF TypeOK, Delete, LeaveDelete, RemoveDirectory, RemoveEntry, RemoveEmptied,
       RemovalFails, RemoveCredential, ResolveTags, Untag, UntagSeries, IInv, DeletesAreUnowned
  <2> QED BY <2>1, <2>2, <2>3 DEF NoStatus
<1>9. CASE Crash \/ Restart \/ Serve \/ ListingMakesKey \/ ListingFillsKey
  BY <1>1, <1>9 DEF TypeOK, Crash, Restart, Serve, ListingMakesKey, ListingFillsKey
<1> QED BY <1>2, <1>3, <1>4, <1>5, <1>6, <1>7, <1>8, <1>9 DEF Next

LEMMA FailureHasPasswordStep ==
  ASSUME ~DiskMayFail
  PROVE  IInv /\ FailureHasPassword /\ [Next]_vars => FailureHasPassword'
<1> SUFFICES ASSUME IInv, FailureHasPassword, [Next]_vars, NEW b \in Builds
             PROVE  /\ pc'[b] \in {"failing", "aborting"} => cred'[b] \in Readable
                    /\ status'[b].state = "failed" => cred'[b] \in Readable
  BY DEF FailureHasPassword
<1>1. pc[b] \in {"building", "tagging", "smoke"} => cred[b] \in Readable
  BY DEF IInv, WorkOrder, Built
<1>2. pc'[b] \in {"failing", "aborting"} => cred'[b] \in Readable
  BY <1>1, FailureStep DEF FailureHasPassword
<1>3. ASSUME status'[b].state = "failed" PROVE cred'[b] \in Readable
  <2>1. status'[b] # NoStatus /\ cred[b] \in Readable
    BY <1>3, FailureStep DEF FailureHasPassword, NoStatus
  <2>2. pc[b] \in {"failing", "aborting"} => cred'[b] = cred[b]
    BY FailureStep
  <2>3. pc[b] \notin {"failing", "aborting"} => pc[b] = "over"
    BY <1>3, FailureStep DEF IInv, EndedOrder
  <2> QED BY <2>1, <2>2, <2>3, CredentialStep
<1> QED BY <1>2, <1>3

(* Whatever the end of a build, unless a crash cut it off, its password can
   be read as long as its record is there. *)
THEOREM ConcludedBuildsKeepPasswords ==
  ASSUME ~DiskMayFail PROVE SafetySpec => []PasswordIsKept
<1>1. Init => FailureHasPassword
  BY DEF Init, FailureHasPassword, NoStatus
<1>2. IInv /\ FailureHasPassword => PasswordIsKept
  BY DEF IInv, EndedOrder, FailureHasPassword, PasswordIsKept
<1> QED BY <1>1, <1>2, FailureHasPasswordStep, Invariance, PTL DEF SafetySpec

(* Without a crash no build is interrupted ... *)
LEMMA NothingInterruptedStep ==
  ASSUME MaxCrashes = 0
  PROVE  IInv /\ NothingInterrupted /\ [Next]_vars => NothingInterrupted'
<1> SUFFICES ASSUME IInv, NothingInterrupted, [Next]_vars PROVE NothingInterrupted'
  OBVIOUS
<1>1. TypeOK
  BY DEF IInv
<1>2. CASE UNCHANGED vars
  BY <1>2 DEF NothingInterrupted
<1>3. ASSUME NEW c \in Builds, MarkInterrupted(c) \/ MarkingStops(c) PROVE FALSE
  <2>1. pc[c] = "new"
    BY <1>3 DEF MarkInterrupted, MarkingStops, NothingInterrupted
  <2> QED BY <1>3, <2>1 DEF MarkInterrupted, MarkingStops, Stale, IInv, PostOrder, NoStatus
<1>4. ~Crash /\ ~Restart
  BY DEF Crash, Restart, NothingInterrupted
<1>5. CASE Serve \/ ListingMakesKey \/ ListingFillsKey
  BY <1>5 DEF Serve, ListingMakesKey, ListingFillsKey, NothingInterrupted
<1>6. ASSUME NEW c \in Builds, Post(c) \/ Worker(c), NEW b \in Builds
      PROVE  status'[b].state # "interrupted"
  <2>1. CASE StartBuildRecord(c)
    BY <1>1, <2>1 DEF TypeOK, StartBuildRecord, Save, StartRecord, NothingInterrupted
  <2>2. CASE EnterSmokeStage(c)
    <3>1. status[c] \in StatusRecords
      BY <1>1 DEF TypeOK
    <3>2. [status[c] EXCEPT !.stage = "smoke"].state = status[c].state
      BY <3>1 DEF StatusRecords
    <3>3. status' = status \/ status' = [status EXCEPT ![c] = [status[c] EXCEPT !.stage = "smoke"]]
      BY <2>2 DEF EnterSmokeStage, SetStage, Save
    <3>4. status'[b].state = status[b].state
      BY <1>1, <3>2, <3>3 DEF TypeOK
    <3> QED BY <3>4 DEF NothingInterrupted
  <2>3. CASE FinishFailed(c) \/ SmokeTest(c) \/ Abort(c)
    BY <1>1, <2>3 DEF TypeOK, FinishFailed, SmokeTest, Abort, Finish, Save, NothingInterrupted
  <2>4. CASE UNCHANGED status
    BY <2>4 DEF NothingInterrupted
  <2> QED BY <1>6, <2>1, <2>2, <2>3, <2>4 DEF Post, PostGoesOn, CreateContext, MakeKey,
     KeyRaises, StorePlaceholder, Respond, Generate, PostFails, Worker, StartBuild, StreamEnds,
     StreamBreaks, RecordSuccess, RecordFailure, MoveSeriesTag, WriteCompose, WriteMonitoring,
     WriteNotices, Generate, Raise, AbortFails
<1>7. ASSUME NEW c \in Builds, Post(c) \/ Worker(c)
      PROVE  up' = up /\ crashes' = crashes /\ up # "booting"
  <2>1. up' = up /\ crashes' = crashes
    BY <1>7 DEF Post, PostGoesOn, CreateContext, MakeKey, KeyRaises, StorePlaceholder,
       StartBuildRecord, Respond, Generate, PostFails, Worker, StartBuild, StreamEnds,
       StreamBreaks, RecordSuccess, RecordFailure, FinishFailed, MoveSeriesTag, WriteCompose,
       WriteMonitoring, WriteNotices, Generate, EnterSmokeStage, SmokeTest, Raise, Abort,
       AbortFails
  <2>2. pc[c] \in PostSteps \cup Live \/ up = "serving"
    BY <1>7 DEF Post, PostGoesOn, CreateContext, MakeKey, KeyRaises, StorePlaceholder,
       SaveCredential, StartBuildRecord, Respond, Generate, PostFails, Worker, StartBuild,
       StreamEnds, StreamBreaks, RecordSuccess, RecordFailure, FinishFailed, MoveSeriesTag,
       WriteCompose, WriteMonitoring, WriteNotices, EnterSmokeStage, SmokeTest, Raise, MayRaise,
       Abort, AbortFails, Move, EventLoopFree
  <2> QED BY <2>1, <2>2 DEF IInv, Quiescent
<1>8. ASSUME NEW c \in Builds, Daemon(c) \/ \E r \in Requests : OpenDelete(r, c)
      PROVE  UNCHANGED <<up, crashes, pc, status>>
  BY <1>8 DEF Daemon, DaemonBuilds, DaemonFails, OpenDelete
<1>9. ASSUME NEW r \in Requests, Delete(r)
      PROVE  /\ UNCHANGED <<up, crashes, pc>>
             /\ \A b \in Builds : status'[b] \in {status[b], NoStatus}
  BY <1>1, <1>9 DEF TypeOK, Delete, LeaveDelete, RemoveDirectory, RemoveEntry, RemoveEmptied,
     RemovalFails, RemoveCredential, ResolveTags, Untag, UntagSeries
<1>10. ASSUME NEW c \in Builds, Post(c) \/ Worker(c) PROVE NothingInterrupted'
  BY <1>6, <1>7, <1>10 DEF NothingInterrupted
<1>11. ASSUME NEW c \in Builds, Daemon(c) \/ \E r \in Requests : OpenDelete(r, c)
       PROVE  NothingInterrupted'
  BY <1>8, <1>11 DEF NothingInterrupted
<1>12. ASSUME NEW r \in Requests, Delete(r) PROVE NothingInterrupted'
  BY <1>9, <1>12 DEF NothingInterrupted, NoStatus
<1> QED BY <1>2, <1>3, <1>4, <1>5, <1>10, <1>11, <1>12 DEF Next

(* ... so that the crash is the one way to lose the password of a build that
   has ended: where writes succeed and the console never dies, the property
   the run credential_kept refutes does hold. *)
THEOREM OnlyCrashesLosePasswords ==
  ASSUME ~DiskMayFail, MaxCrashes = 0 PROVE SafetySpec => []CredentialKept
<1>1. Init => NothingInterrupted
  BY DEF Init, NothingInterrupted, NoStatus
<1>2. NothingInterrupted /\ PasswordIsKept => CredentialKept
  BY DEF NothingInterrupted, PasswordIsKept, CredentialKept
<1> QED BY <1>1, <1>2, NothingInterruptedStep, ConcludedBuildsKeepPasswords, Invariance, PTL
           DEF SafetySpec

-----------------------------------------------------------------------------
(* Scheduling: one handler on the event loop, no more threads than tokens,
   and no task or request that could go on for ever. *)

(* Between two statements on the event loop there is one handler at most. *)
EventLoopIsExclusive ==
  /\ \A a, b \in Builds : pc[a] \in PostSteps /\ pc[b] \in PostSteps => a = b
  /\ \A q, r \in Requests : del[q].pc \in RemovalSteps /\ del[r].pc \in RemovalSteps => q = r
  /\ \A b \in Builds, r \in Requests : ~(pc[b] \in PostSteps /\ del[r].pc \in RemovalSteps)

(* Who holds a token of the thread pool. *)
Running == {b \in Builds : pc[b] \in WorkerSteps}
Untagging == {r \in Requests : del[r].pc \in {"untag", "untagSeries"}}

(* The pool hands out no token twice. *)
ThreadsAreBounded ==
  /\ IsFiniteSet(Running) /\ IsFiniteSet(Untagging)
  /\ Cardinality(Running) + Cardinality(Untagging) <= PoolSize

(* The most steps a task, and a delete, can still take of its own. *)
StepsLeft ==
  [s \in Steps |->
     CASE s = "new" -> 18 [] s = "context" -> 17 [] s = "key" -> 16
       [] s = "keyed" -> 15 [] s = "tornNew" -> 14
       [] s = "saved" -> 13 [] s = "started" -> 12 [] s = "queued" -> 11
       [] s = "building" -> 10 [] s = "landed" -> 9 [] s = "tornOk" -> 8
       [] s = "tagging" -> 7 [] s = "compose" -> 6 [] s = "monitoring" -> 5
       [] s = "notices" -> 4 [] s = "staging" -> 3 [] s = "smoke" -> 2
       [] s = "refused" -> 4 [] s = "tornBad" -> 3 [] s = "failing" -> 2
       [] s = "aborting" -> 1 [] s = "over" -> 0]

RequestLeft ==
  [s \in DeleteSteps |->
     CASE s = "form" -> 6 [] s = "removing" -> 5 [] s = "credential" -> 4
       [] s = "image" -> 3 [] s = "untag" -> 2 [] s = "untagSeries" -> 1 [] s = "idle" -> 0]

(* What rmtree still finds in the directory of a build. *)
EntriesLeft(b) == files[b] \cup (IF status[b] = NoStatus THEN {} ELSE {"status"})

(* Neither a task nor an open delete ever goes back, whoever takes a step;
   each step of its own brings it nearer to its end, or takes an entry of a
   directory nobody puts one back into. *)
WorkRunsOut ==
  [][/\ \A b \in Builds : pc'[b] # pc[b] => StepsLeft[pc'[b]] < StepsLeft[pc[b]]
     /\ \A b \in Builds : Worker(b) => pc'[b] # pc[b]
     /\ \A r \in Requests : del[r].pc # "idle" /\ del'[r].pc # del[r].pc =>
                              RequestLeft[del'[r].pc] < RequestLeft[del[r].pc]
     /\ \A r \in Requests : Delete(r) => del'[r].pc # del[r].pc \/ RemoveEntry(r)
     /\ \A r \in Requests : RemoveEntry(r) =>
          EntriesLeft(del[r].build)' # EntriesLeft(del[r].build)
     /\ \A b \in doomed : EntriesLeft(b)' \subseteq EntriesLeft(b)]_vars

(* A handler begins on a free event loop and keeps it to its end. *)
LEMMA PostMoves ==
  ASSUME TypeOK, NEW b \in Builds, Post(b)
  PROVE  /\ del' = del /\ \A a \in Builds \ {b} : pc'[a] = pc[a]
         /\ \/ EventLoopFree /\ pc[b] = "new" /\ pc'[b] = "context"
            \/ pc[b] \in PostSteps /\ pc'[b] \in PostSteps \cup {"queued", "over"}
         /\ StepsLeft[pc'[b]] < StepsLeft[pc[b]]
<1>1. del' = del /\ \A a \in Builds \ {b} : pc'[a] = pc[a]
  BY DEF TypeOK, Post, PostGoesOn, CreateContext, MakeKey, KeyRaises, StorePlaceholder,
     SaveCredential, StartBuildRecord, Respond, Generate, PostFails, Move
<1>2. \/ EventLoopFree /\ pc[b] = "new" /\ pc'[b] = "context"
      \/ pc[b] = "context" /\ pc'[b] \in {"key", "tornNew", "over"}
      \/ pc[b] = "key" /\ pc'[b] = "keyed"
      \/ pc[b] = "keyed" /\ pc'[b] = "tornNew"
      \/ pc[b] = "tornNew" /\ pc'[b] = "saved"
      \/ pc[b] = "saved" /\ pc'[b] = "started"
      \/ pc[b] = "started" /\ pc'[b] = "queued"
      \/ pc[b] \in PostSteps /\ pc'[b] = "over"
  BY DEF TypeOK, Post, PostGoesOn, CreateContext, MakeKey, KeyRaises, StorePlaceholder,
     SaveCredential, StartBuildRecord, Respond, Generate, PostFails, Move
<1> QED BY <1>1, <1>2 DEF StepsLeft

(* A worker begins on a free thread and keeps it to its end. *)
LEMMA WorkerMoves ==
  ASSUME TypeOK, NEW b \in Builds, Worker(b)
  PROVE  /\ del' = del /\ \A a \in Builds \ {b} : pc'[a] = pc[a]
         /\ \/ ThreadFree /\ pc[b] = "queued" /\ pc'[b] \in WorkerSteps
            \/ pc[b] \in WorkerSteps /\ pc'[b] \in WorkerSteps \cup {"over"}
         /\ StepsLeft[pc'[b]] < StepsLeft[pc[b]]
<1>1. del' = del /\ \A a \in Builds \ {b} : pc'[a] = pc[a]
  BY DEF TypeOK, Worker, StartBuild, StreamEnds, StreamBreaks, RecordSuccess, RecordFailure,
     FinishFailed, MoveSeriesTag, WriteCompose, WriteMonitoring, WriteNotices, Generate,
     EnterSmokeStage, SmokeTest, Raise, Abort, AbortFails, SaveCredential, Move
<1>2. \/ ThreadFree /\ pc[b] = "queued" /\ pc'[b] \in {"building", "refused"}
      \/ pc[b] = "building" /\ pc'[b] \in {"landed", "refused", "aborting"}
      \/ pc[b] = "landed" /\ pc'[b] = "tornOk"
      \/ pc[b] = "tornOk" /\ pc'[b] = "tagging"
      \/ pc[b] = "refused" /\ pc'[b] = "tornBad"
      \/ pc[b] = "tornBad" /\ pc'[b] = "failing"
      \/ pc[b] = "failing" /\ pc'[b] = "over"
      \/ pc[b] = "tagging" /\ pc'[b] = "compose"
      \/ pc[b] = "compose" /\ pc'[b] \in {"monitoring", "notices"}
      \/ pc[b] = "monitoring" /\ pc'[b] = "notices"
      \/ pc[b] = "notices" /\ pc'[b] = "staging"
      \/ pc[b] = "staging" /\ pc'[b] = "smoke"
      \/ pc[b] = "smoke" /\ pc'[b] = "over"
      \/ pc[b] \in TryWork /\ pc'[b] = "aborting"
      \/ pc[b] = "aborting" /\ pc'[b] = "over"
  BY DEF TypeOK, Worker, StartBuild, StreamEnds, StreamBreaks, RecordSuccess, RecordFailure,
     FinishFailed, MoveSeriesTag, WriteCompose, WriteMonitoring, WriteNotices,
     EnterSmokeStage, SmokeTest, Raise, MayRaise, Abort, AbortFails, SaveCredential, Move
<1>3. StepsLeft[pc'[b]] < StepsLeft[pc[b]]
  BY <1>2 DEF StepsLeft
<1> QED BY <1>1, <1>2, <1>3

(* A delete holds the event loop from the directory to the credential, and
   a thread for the tags. *)
LEMMA DeleteMoves ==
  ASSUME TypeOK, NEW r \in Requests, Delete(r)
  PROVE  /\ pc' = pc /\ \A q \in Requests \ {r} : del'[q] = del[q]
         /\ \/ EventLoopFree /\ del[r].pc = "form" /\ del'[r].pc \in RemovalSteps
            \/ RemoveEntry(r) /\ del[r].pc = "removing" /\ del'[r] = del[r]
            \/ del[r].pc = "removing" /\ del'[r].pc = "credential"
            \/ del[r].pc = "credential" /\ del'[r].pc = "image"
            \/ ThreadFree /\ del[r].pc = "image" /\ del'[r].pc = "untag"
            \/ del[r].pc = "untag" /\ del'[r].pc = "untagSeries"
            \/ del[r].pc # "idle" /\ del'[r].pc = "idle"
         /\ RequestLeft[del'[r].pc] < RequestLeft[del[r].pc] \/ (RemoveEntry(r) /\ del' = del)
<1>1. pc' = pc
  BY DEF Delete, LeaveDelete, RemoveDirectory, RemoveEntry, RemoveEmptied, RemovalFails,
     RemoveCredential, ResolveTags, Untag, UntagSeries
<1>2. \A q \in Requests \ {r} : del'[q] = del[q]
  BY DEF TypeOK, Delete, LeaveDelete, RemoveDirectory, RemoveEntry, RemoveEmptied, RemovalFails,
     RemoveCredential, ResolveTags, Untag, UntagSeries, EndRequest
<1>3. \/ RemoveEntry(r) /\ del[r].pc = "removing" /\ del' = del
      \/ EventLoopFree /\ del[r].pc = "form" /\ del'[r].pc \in RemovalSteps
      \/ del[r].pc = "removing" /\ del'[r].pc = "credential"
      \/ del[r].pc = "credential" /\ del'[r].pc = "image"
      \/ ThreadFree /\ del[r].pc = "image" /\ del'[r].pc = "untag"
      \/ del[r].pc = "untag" /\ del'[r].pc = "untagSeries"
      \/ del[r].pc # "idle" /\ del'[r].pc = "idle"
  <2>1. CASE LeaveDelete(r) \/ RemovalFails(r) \/ UntagSeries(r)
    BY <2>1, RequestEnds DEF LeaveDelete, RemovalFails, UntagSeries
  <2>2. CASE RemoveDirectory(r)
    <3>1. PICK s \in RemovalSteps : del' = [del EXCEPT ![r].pc = s]
      BY <2>2 DEF RemoveDirectory
    <3>2. del'[r].pc = s
      BY <3>1, RequestMoves
    <3> QED BY <2>2, <3>2 DEF RemoveDirectory
  <2>3. CASE RemoveEntry(r)
    BY <2>3 DEF RemoveEntry
  <2>4. CASE RemoveEmptied(r)
    BY <2>4, RequestMoves DEF RemoveEmptied
  <2>5. CASE RemoveCredential(r)
    BY <2>5, RequestMoves, RequestEnds DEF RemoveCredential
  <2>6. CASE ResolveTags(r)
    BY <2>6, RequestMoves, RequestEnds DEF ResolveTags
  <2>7. CASE Untag(r)
    BY <2>7, RequestMoves, RequestEnds DEF Untag
  <2> QED BY <2>1, <2>2, <2>3, <2>4, <2>5, <2>6, <2>7 DEF Delete
<1>4. del[r].pc \in DeleteSteps
  BY DEF TypeOK, DeleteRecords
<1>5. RequestLeft[del'[r].pc] < RequestLeft[del[r].pc] \/ (RemoveEntry(r) /\ del' = del)
  BY <1>3, <1>4 DEF RequestLeft
<1> QED BY <1>1, <1>2, <1>3, <1>5

(* Everyone else leaves tasks and requests where they are, but that a
   request is opened, and that a crash ends them all. *)
LEMMA OthersMove ==
  ASSUME TypeOK,
         \/ UNCHANGED vars \/ Crash \/ Restart \/ Serve \/ ListingMakesKey \/ ListingFillsKey
         \/ \E b \in Builds : \/ Daemon(b) \/ MarkInterrupted(b) \/ MarkingStops(b)
                              \/ \E r \in Requests : OpenDelete(r, b)
  PROVE  \/ pc' = pc /\ del' = del
         \/ /\ pc' = pc
            /\ \E r \in Requests : /\ del[r].pc = "idle" /\ del'[r].pc = "form"
                                   /\ \A q \in Requests \ {r} : del'[q] = del[q]
         \/ /\ \A b \in Builds : pc'[b] = IF pc[b] = "new" THEN "new" ELSE "over"
            /\ \A r \in Requests : del'[r].pc = "idle"
<1>1. ASSUME NEW r \in Requests, NEW b \in Builds, OpenDelete(r, b)
      PROVE  /\ pc' = pc /\ del[r].pc = "idle" /\ del'[r].pc = "form"
             /\ \A q \in Requests \ {r} : del'[q] = del[q]
  BY <1>1 DEF TypeOK, OpenDelete
<1>2. CASE Crash
  BY <1>2 DEF TypeOK, Crash, IdleRequest
<1>3. CASE UNCHANGED vars \/ Restart \/ Serve \/ ListingMakesKey \/ ListingFillsKey
              \/ \E b \in Builds : Daemon(b) \/ MarkInterrupted(b) \/ MarkingStops(b)
  BY <1>3 DEF Restart, Serve, ListingMakesKey, ListingFillsKey, Daemon, DaemonBuilds,
     DaemonFails, MarkInterrupted, MarkingStops
<1> QED BY <1>1, <1>2, <1>3

(* Every step is one of these. *)
LEMMA StepKinds ==
  ASSUME [Next]_vars
  PROVE  \/ \E b \in Builds : Post(b) \/ Worker(b)
         \/ \E r \in Requests : Delete(r)
         \/ UNCHANGED vars \/ Crash \/ Restart \/ Serve \/ ListingMakesKey \/ ListingFillsKey
         \/ \E b \in Builds : \/ Daemon(b) \/ MarkInterrupted(b) \/ MarkingStops(b)
                              \/ \E r \in Requests : OpenDelete(r, b)
BY DEF Next

(* An async handler runs alone between two awaits: POST /build never writes
   while another one, or a delete, is between two of its files. *)
THEOREM HandlersRunAlone == SafetySpec => []EventLoopIsExclusive
<1>1. Init => EventLoopIsExclusive
  BY DEF Init, EventLoopIsExclusive, IdleRequest
<1>2. TypeOK /\ EventLoopIsExclusive /\ [Next]_vars => EventLoopIsExclusive'
  <2> SUFFICES ASSUME TypeOK, EventLoopIsExclusive, [Next]_vars PROVE EventLoopIsExclusive'
    OBVIOUS
  <2>1. ASSUME NEW b \in Builds, Post(b) \/ Worker(b) PROVE EventLoopIsExclusive'
    BY <2>1, PostMoves, WorkerMoves DEF EventLoopIsExclusive, EventLoopFree
  <2>2. ASSUME NEW r \in Requests, Delete(r) PROVE EventLoopIsExclusive'
    BY <2>2, DeleteMoves DEF EventLoopIsExclusive, EventLoopFree
  <2>3. CASE \/ UNCHANGED vars \/ Crash \/ Restart \/ Serve \/ ListingMakesKey \/ ListingFillsKey
             \/ \E b \in Builds : \/ Daemon(b) \/ MarkInterrupted(b) \/ MarkingStops(b)
                                  \/ \E r \in Requests : OpenDelete(r, b)
    BY <2>3, OthersMove DEF EventLoopIsExclusive
  <2> QED BY <2>1, <2>2, <2>3, StepKinds
<1> QED BY <1>1, <1>2, TypeCorrect, PTL DEF SafetySpec

(* Builds and tag removals together hold no more threads than there are. *)
THEOREM TokensAreKept == SafetySpec => []ThreadsAreBounded
<1>1. Init => ThreadsAreBounded
  <2> SUFFICES ASSUME Init PROVE ThreadsAreBounded
    OBVIOUS
  <2>1. Running = {} /\ Untagging = {}
    BY DEF Init, Running, Untagging, IdleRequest
  <2> QED BY <2>1, FS_EmptySet DEF ThreadsAreBounded
<1>2. TypeOK /\ ThreadsAreBounded /\ [Next]_vars => ThreadsAreBounded'
  <2> SUFFICES ASSUME TypeOK, ThreadsAreBounded, [Next]_vars PROVE ThreadsAreBounded'
    OBVIOUS
  <2>1. /\ IsFiniteSet(Running) /\ IsFiniteSet(Untagging)
        /\ Cardinality(Running) \in Nat /\ Cardinality(Untagging) \in Nat
        /\ Cardinality(Running) + Cardinality(Untagging) <= PoolSize
    BY FS_CardinalityType DEF ThreadsAreBounded
  <2>2. ThreadFree => Cardinality(Running) + Cardinality(Untagging) < PoolSize
    BY DEF ThreadFree, Running, Untagging
  <2>3. CASE Running' \subseteq Running /\ Untagging' \subseteq Untagging
    <3>1. /\ IsFiniteSet(Running') /\ IsFiniteSet(Untagging')
          /\ Cardinality(Running') <= Cardinality(Running)
          /\ Cardinality(Untagging') <= Cardinality(Untagging)
      BY <2>1, <2>3, FS_Subset
    <3>2. Cardinality(Running') \in Nat /\ Cardinality(Untagging') \in Nat
      BY <3>1, FS_CardinalityType
    <3> QED BY <2>1, <3>1, <3>2 DEF ThreadsAreBounded
  <2>4. ASSUME NEW b \in Builds, ThreadFree,
               Running' \subseteq Running \cup {b}, Untagging' \subseteq Untagging
        PROVE  ThreadsAreBounded'
    <3>1. /\ IsFiniteSet(Running \cup {b})
          /\ Cardinality(Running \cup {b}) \in {Cardinality(Running), Cardinality(Running) + 1}
      BY <2>1, FS_AddElement
    <3>2. /\ IsFiniteSet(Running') /\ IsFiniteSet(Untagging')
          /\ Cardinality(Running') <= Cardinality(Running \cup {b})
          /\ Cardinality(Untagging') <= Cardinality(Untagging)
      BY <2>1, <2>4, <3>1, FS_Subset
    <3>3. Cardinality(Running') \in Nat /\ Cardinality(Untagging') \in Nat
      BY <3>2, FS_CardinalityType
    <3> QED BY <2>1, <2>2, <2>4, <3>1, <3>2, <3>3 DEF ThreadsAreBounded
  <2>5. ASSUME NEW r \in Requests, ThreadFree,
               Running' \subseteq Running, Untagging' \subseteq Untagging \cup {r}
        PROVE  ThreadsAreBounded'
    <3>1. /\ IsFiniteSet(Untagging \cup {r})
          /\ Cardinality(Untagging \cup {r}) \in
               {Cardinality(Untagging), Cardinality(Untagging) + 1}
      BY <2>1, FS_AddElement
    <3>2. /\ IsFiniteSet(Running') /\ IsFiniteSet(Untagging')
          /\ Cardinality(Running') <= Cardinality(Running)
          /\ Cardinality(Untagging') <= Cardinality(Untagging \cup {r})
      BY <2>1, <2>5, <3>1, FS_Subset
    <3>3. Cardinality(Running') \in Nat /\ Cardinality(Untagging') \in Nat
      BY <3>2, FS_CardinalityType
    <3> QED BY <2>1, <2>2, <2>5, <3>1, <3>2, <3>3 DEF ThreadsAreBounded
  <2>6. ASSUME NEW b \in Builds, Post(b) PROVE ThreadsAreBounded'
    <3>1. Running' \subseteq Running /\ Untagging' \subseteq Untagging
      BY <2>6, PostMoves DEF Running, Untagging
    <3> QED BY <3>1, <2>3
  <2>7. ASSUME NEW b \in Builds, Worker(b) PROVE ThreadsAreBounded'
    <3>1. /\ Running' \subseteq Running \cup {b} /\ Untagging' \subseteq Untagging
          /\ ThreadFree \/ b \in Running
      BY <2>7, WorkerMoves DEF Running, Untagging
    <3>2. b \in Running => Running' \subseteq Running
      BY <3>1
    <3> QED BY <3>1, <3>2, <2>3, <2>4
  <2>8. ASSUME NEW r \in Requests, Delete(r) PROVE ThreadsAreBounded'
    <3>1. /\ Running' \subseteq Running /\ Untagging' \subseteq Untagging \cup {r}
          /\ ThreadFree \/ r \in Untagging \/ r \notin Untagging'
      BY <2>8, DeleteMoves DEF Running, Untagging
    <3>2. ~ThreadFree => Untagging' \subseteq Untagging
      BY <3>1
    <3> QED BY <3>1, <3>2, <2>3, <2>5
  <2>9. CASE \/ UNCHANGED vars \/ Crash \/ Restart \/ Serve \/ ListingMakesKey \/ ListingFillsKey
             \/ \E b \in Builds : \/ Daemon(b) \/ MarkInterrupted(b) \/ MarkingStops(b)
                                  \/ \E r \in Requests : OpenDelete(r, b)
    <3>1. Running' \subseteq Running /\ Untagging' \subseteq Untagging
      BY <2>9, OthersMove DEF Running, Untagging
    <3> QED BY <3>1, <2>3
  <2> QED BY <2>6, <2>7, <2>8, <2>9, StepKinds
<1> QED BY <1>1, <1>2, TypeCorrect, PTL DEF SafetySpec

(* Taking an entry leaves one less; once a removal has begun none is added. *)
LEMMA EntriesRunOut ==
  ASSUME IInv, [Next]_vars
  PROVE  /\ \A r \in Requests : RemoveEntry(r) =>
              EntriesLeft(del[r].build)' # EntriesLeft(del[r].build)
         /\ \A b \in doomed : EntriesLeft(b)' \subseteq EntriesLeft(b)
<1>1. /\ files \in [Builds -> SUBSET Artifacts] /\ status \in [Builds -> StatusRecords]
      /\ doomed \subseteq Builds
  BY DEF IInv, TypeOK
<1>2. ASSUME NEW r \in Requests, RemoveEntry(r)
      PROVE  EntriesLeft(del[r].build)' # EntriesLeft(del[r].build)
  <2>1. PICK b \in Builds : b = del[r].build /\ b \in doomed
    BY <1>2 DEF RemoveEntry, IInv, DeleteOrder, DeletesAreUnowned
  <2>2. del' = del
    BY <1>2 DEF RemoveEntry
  <2>3. ASSUME NEW f \in files[b], files' = [files EXCEPT ![b] = @ \ {f}], UNCHANGED status
        PROVE  EntriesLeft(b)' # EntriesLeft(b)
    <3>1. f # "status" /\ f \notin files'[b] /\ f \in files[b]
      BY <1>1, <2>1, <2>3
    <3> QED BY <3>1 DEF EntriesLeft
  <2>4. ASSUME status[b] # NoStatus, status' = [status EXCEPT ![b] = NoStatus], UNCHANGED files
        PROVE  EntriesLeft(b)' # EntriesLeft(b)
    <3>1. status'[b] = NoStatus /\ "status" \notin files'[b]
      BY <1>1, <2>1, <2>4
    <3> QED BY <2>4, <3>1 DEF EntriesLeft
  <2>5. EntriesLeft(b)' # EntriesLeft(b)
    BY <1>2, <2>1, <2>3, <2>4 DEF RemoveEntry
  <2> QED BY <2>1, <2>2, <2>5 DEF EntriesLeft
<1>3. ASSUME NEW b \in doomed PROVE EntriesLeft(b)' \subseteq EntriesLeft(b)
  <2>1. files'[b] \subseteq files[b] /\ status'[b] \in {status[b], NoStatus}
    BY RemovalStays
  <2> QED BY <2>1 DEF EntriesLeft
<1> QED BY <1>2, <1>3

(* A task takes eighteen steps of its own at most, a delete six and one for
   each entry of the directory, and nobody else's step gives one back: what
   the liveness properties rest on, but for the fairness that lets those
   steps be taken. *)
THEOREM TasksAndDeletesRunOut == SafetySpec => WorkRunsOut
<1>1. /\ \A s \in Steps : StepsLeft[s] \in Nat /\ (s # "over" => StepsLeft["over"] < StepsLeft[s])
      /\ \A s \in DeleteSteps : /\ RequestLeft[s] \in Nat
                                /\ s # "idle" => RequestLeft["idle"] < RequestLeft[s]
  BY DEF StepsLeft, RequestLeft
<1>2. IInv /\ [Next]_vars =>
        [/\ \A b \in Builds : pc'[b] # pc[b] => StepsLeft[pc'[b]] < StepsLeft[pc[b]]
         /\ \A b \in Builds : Worker(b) => pc'[b] # pc[b]
         /\ \A r \in Requests : del[r].pc # "idle" /\ del'[r].pc # del[r].pc =>
                                  RequestLeft[del'[r].pc] < RequestLeft[del[r].pc]
         /\ \A r \in Requests : Delete(r) => del'[r].pc # del[r].pc \/ RemoveEntry(r)
         /\ \A r \in Requests : RemoveEntry(r) =>
              EntriesLeft(del[r].build)' # EntriesLeft(del[r].build)
         /\ \A b \in doomed : EntriesLeft(b)' \subseteq EntriesLeft(b)]_vars
  <2> SUFFICES ASSUME IInv, [Next]_vars
      PROVE  /\ \A b \in Builds : pc'[b] # pc[b] => StepsLeft[pc'[b]] < StepsLeft[pc[b]]
             /\ \A b \in Builds : Worker(b) => pc'[b] # pc[b]
             /\ \A r \in Requests : del[r].pc # "idle" /\ del'[r].pc # del[r].pc =>
                                      RequestLeft[del'[r].pc] < RequestLeft[del[r].pc]
             /\ \A r \in Requests : Delete(r) => del'[r].pc # del[r].pc \/ RemoveEntry(r)
    BY EntriesRunOut
  <2>0. TypeOK
    BY DEF IInv
  <2>1. /\ \A b \in Builds : pc[b] \in Steps
        /\ \A r \in Requests : del[r].pc \in DeleteSteps
    BY <2>0 DEF TypeOK, DeleteRecords
  <2>2. ASSUME NEW b \in Builds, pc'[b] # pc[b]
        PROVE  StepsLeft[pc'[b]] < StepsLeft[pc[b]]
    <3>1. CASE \E c \in Builds : Post(c) \/ Worker(c)
      BY <2>2, <3>1, <2>0, PostMoves, WorkerMoves
    <3>2. CASE \E r \in Requests : Delete(r)
      BY <2>2, <3>2, <2>0, DeleteMoves
    <3>3. CASE \/ UNCHANGED vars \/ Crash \/ Restart \/ Serve \/ ListingMakesKey \/ ListingFillsKey
               \/ \E c \in Builds : \/ Daemon(c) \/ MarkInterrupted(c) \/ MarkingStops(c)
                                    \/ \E r \in Requests : OpenDelete(r, c)
      <4>1. pc'[b] = "over" /\ pc[b] # "over"
        BY <2>2, <3>3, <2>0, OthersMove
      <4> QED BY <4>1, <1>1, <2>1
    <3> QED BY <3>1, <3>2, <3>3, StepKinds
  <2>3. ASSUME NEW b \in Builds, Worker(b) PROVE pc'[b] # pc[b]
    <3>1. StepsLeft[pc'[b]] < StepsLeft[pc[b]] /\ StepsLeft[pc[b]] \in Nat
      BY <2>3, <2>0, WorkerMoves, <1>1, <2>1
    <3> QED BY <3>1
  <2>4. ASSUME NEW r \in Requests, del[r].pc # "idle", del'[r].pc # del[r].pc
        PROVE  RequestLeft[del'[r].pc] < RequestLeft[del[r].pc]
    <3>1. CASE \E c \in Builds : Post(c) \/ Worker(c)
      BY <2>4, <3>1, <2>0, PostMoves, WorkerMoves
    <3>2. CASE \E q \in Requests : Delete(q)
      BY <2>4, <3>2, <2>0, DeleteMoves
    <3>3. CASE \/ UNCHANGED vars \/ Crash \/ Restart \/ Serve \/ ListingMakesKey \/ ListingFillsKey
               \/ \E c \in Builds : \/ Daemon(c) \/ MarkInterrupted(c) \/ MarkingStops(c)
                                    \/ \E q \in Requests : OpenDelete(q, c)
      <4>1. del'[r].pc = "idle"
        BY <2>4, <3>3, <2>0, OthersMove
      <4> QED BY <2>4, <4>1, <1>1, <2>1
    <3> QED BY <3>1, <3>2, <3>3, StepKinds
  <2>5. ASSUME NEW r \in Requests, Delete(r), ~RemoveEntry(r) PROVE del'[r].pc # del[r].pc
    <3>1. RequestLeft[del'[r].pc] < RequestLeft[del[r].pc] /\ RequestLeft[del[r].pc] \in Nat
      BY <2>0, <2>5, DeleteMoves, <1>1, <2>1
    <3> QED BY <3>1
  <2> QED BY <2>2, <2>3, <2>4, <2>5
<1> QED BY <1>2, Invariance, PTL DEF SafetySpec, WorkRunsOut
=============================================================================
