---------------------------- MODULE BuildLifecycle ----------------------------
(***************************************************************************)
(* The life of a build in the pg4all console: POST /build on the event     *)
(* loop, _run_build on a pool thread, the Docker daemon it drives, POST    *)
(* /builds/{id}/delete, and what a crash and a restart of the console do   *)
(* to the state these leave on disk and on the daemon.                     *)
(*                                                                         *)
(* One step is what no other party can cut in two.  An async handler is    *)
(* one step between two awaits as far as other handlers go, and several    *)
(* where it writes more than one file, because worker threads interleave   *)
(* with it and a crash or a failed write can come between two files.       *)
(***************************************************************************)
EXTENDS Naturals, FiniteSets

CONSTANTS
  Builds,         \* build ids; numbered in the order they are minted
  Requests,       \* POST /builds/{id}/delete requests in flight at once
  Series,         \* <major>-<workload>-<tier> combinations
  Prefixes,       \* first BUILD_ID_TAG_LENGTH characters of a build id
  Images,         \* image ids on the daemon
  None,           \* no image, no build
  SeriesOf,       \* SeriesOf[b]: the combination submitted for b
  PrefixOf,       \* PrefixOf[b]: the prefix of b's id
  ImageOf,        \* ImageOf[b]: the image b's context builds to
  Composed,       \* builds that selected a sidecar service: they get a compose file
  Monitored,      \* builds that selected Prometheus, a sidecar
  PoolSize,       \* tokens of the thread pool shared by everything sync
  MaxCrashes,     \* bound: how often the console process dies
  DiskMayFail     \* whether writes and removals on disk may fail

ASSUME BuildsAssumption == Builds \subseteq Nat
ASSUME SelectionAssumption ==
  /\ SeriesOf \in [Builds -> Series]
  /\ PrefixOf \in [Builds -> Prefixes]
  /\ ImageOf \in [Builds -> Images]
  /\ Monitored \subseteq Composed /\ Composed \subseteq Builds
ASSUME NoneAssumption == None \notin Images \cup Builds
ASSUME BoundsAssumption ==
  /\ PoolSize \in Nat \ {0}
  /\ MaxCrashes \in Nat
  /\ DiskMayFail \in BOOLEAN

VARIABLES
  up,             \* the console process: "down", "booting" or "serving"
  crashes,        \* how often it died; only there to be bounded
  pc,             \* pc[b]: where the task that makes b is, see Steps
  dir,            \* dir[b]: build_output/<b>/ exists
  files,          \* files[b]: what else of it is there, see Artifacts
  status,         \* status[b]: what load() returns for it
  cred,           \* cred[b]: credentials/<b>.enc
  key,            \* secrets/master.key, see KeyStates
  doomed,         \* builds whose removal has begun; only properties read it
  job,            \* job[b]: the build on the daemon
  buildTag,       \* buildTag[t]: image id the build tag t names
  seriesTag,      \* seriesTag[s]: image id the series tag s names
  del             \* del[r]: the delete request r

disk == <<dir, files, status, cred, key, doomed>>
daemon == <<job, buildTag, seriesTag>>
vars == <<up, crashes, pc, disk, daemon, del>>

-----------------------------------------------------------------------------
(* Names and values *)

TagOf_SeriesOnly(b) == <<SeriesOf[b], CHOOSE p \in Prefixes : TRUE>>

(* image_tags.build_tag: the series name and the prefix of the build id. *)
TagOf(b) == <<SeriesOf[b], PrefixOf[b]>>
BuildTags == Series \X Prefixes

(* What image_tags.py takes for granted: no two ids share their prefix. *)
UniqueTags == \A a, b \in Builds : TagOf(a) = TagOf(b) => a = b

(* Steps of POST /build: the event loop runs nothing else meanwhile. *)
PostSteps == {"context", "key", "keyed", "tornNew", "saved", "started"}
(* Steps of _run_build once it has a thread. *)
TryWork == {"building", "landed", "tornOk", "refused", "tornBad", "failing",
            "tagging", "compose", "monitoring", "notices", "staging", "smoke"}
WorkerSteps == TryWork \cup {"aborting"}
(* Steps at which some task answers for the record that says running. *)
Live == {"started", "queued"} \cup WorkerSteps
Steps == {"new", "over"} \cup PostSteps \cup Live

Terminal == {"succeeded", "failed", "interrupted"}

(* status.json; a state of "none" stands for a file load() cannot read.  The
   outcome of the smoke test it carries decides nothing and is left out. *)
StatusRecords ==
  [state : {"none", "running"} \cup Terminal, stage : {"none", "building", "smoke", "done"},
   buildOk : {"unknown", "yes", "no"}]
NoStatus == [state |-> "none", stage |-> "none", buildOk |-> "unknown"]
StartRecord ==
  [state |-> "running", stage |-> "building", buildOk |-> "unknown"]

(* An .enc file is torn while write_bytes has truncated it: it exists and
   does not decrypt.  Otherwise it carries build_ok. *)
CredStates == {"none", "torn", "notOk", "ok"}
Readable == {"notOk", "ok"}

(* The key every credential is sealed with, made once.  While write_bytes
   fills it, it is there and empty; a crash meanwhile leaves it so. *)
KeyStates == {"none", "filling", "empty", "whole"}

(* The entries of a build's directory beside status.json, "log" for
   build.log.  The build context is left out: it is written with the
   directory, and nothing but a download reads it back. *)
Artifacts == {"log", "compose", "monitoring", "notices"}

DeleteSteps == {"idle", "form", "removing", "credential", "image", "untag", "untagSeries"}
(* Of these, a delete holds the event loop at: *)
RemovalSteps == {"removing", "credential"}
DeleteRecords ==
  [pc : DeleteSteps, build : Builds \cup {None}, running : BOOLEAN, tagged : BOOLEAN,
   shared : BOOLEAN, seriesHere : BOOLEAN]
IdleRequest ==
  [pc |-> "idle", build |-> None, running |-> FALSE, tagged |-> FALSE,
   shared |-> FALSE, seriesHere |-> FALSE]

TypeOK ==
  /\ up \in {"down", "booting", "serving"}
  /\ crashes \in 0..MaxCrashes
  /\ pc \in [Builds -> Steps]
  /\ dir \in [Builds -> BOOLEAN]
  /\ files \in [Builds -> SUBSET Artifacts]
  /\ status \in [Builds -> StatusRecords]
  /\ cred \in [Builds -> CredStates]
  /\ key \in KeyStates
  /\ doomed \in SUBSET Builds
  /\ job \in [Builds -> {"none", "active", "built", "failed"}]
  /\ buildTag \in [BuildTags -> Images \cup {None}]
  /\ seriesTag \in [Series -> Images \cup {None}]
  /\ del \in [Requests -> DeleteRecords]

Init ==
  /\ up = "booting"
  /\ crashes = 0
  /\ pc = [b \in Builds |-> "new"]
  /\ dir = [b \in Builds |-> FALSE]
  /\ files = [b \in Builds |-> {}]
  /\ status = [b \in Builds |-> NoStatus]
  /\ cred = [b \in Builds |-> "none"]
  /\ key = "none"
  /\ doomed = {}
  /\ job = [b \in Builds |-> "none"]
  /\ buildTag = [t \in BuildTags |-> None]
  /\ seriesTag = [s \in Series |-> None]
  /\ del = [r \in Requests |-> IdleRequest]

-----------------------------------------------------------------------------
(* Scheduling *)

(* No handler is between two statements on the event loop. *)
EventLoopFree ==
  /\ up = "serving"
  /\ \A b \in Builds : pc[b] \notin PostSteps
  /\ \A r \in Requests : del[r].pc \notin RemovalSteps

ThreadFree_OneHeldBack ==
  Cardinality({b \in Builds : pc[b] \in WorkerSteps})
    + Cardinality({r \in Requests : del[r].pc \in {"untag", "untagSeries"}}) + 1 < PoolSize

(* One token per _run_build and per remove_build_image in progress. *)
ThreadFree ==
  Cardinality({b \in Builds : pc[b] \in WorkerSteps})
    + Cardinality({r \in Requests : del[r].pc \in {"untag", "untagSeries"}}) < PoolSize

Move(b, from, to) == pc[b] = from /\ pc' = [pc EXCEPT ![b] = to]

-----------------------------------------------------------------------------
(* build_store *)

(* save(): creates the directory if it has to, replaces the file whole. *)
Save(b, record) ==
  /\ dir' = [dir EXCEPT ![b] = TRUE]
  /\ status' = [status EXCEPT ![b] = record]

Finish_KeepsRunning(b, state, ok) ==
  Save(b, [status[b] EXCEPT !.stage = "done", !.buildOk = ok])

Finish_UnknownState(b, state, ok) ==
  Save(b, [state |-> "aborted", stage |-> "done", buildOk |-> ok])

(* finish(): does nothing, silently, when there is no record to load. *)
Finish(b, state, ok) ==
  IF status[b].state = "none"
  THEN UNCHANGED <<dir, status>>
  ELSE Save(b, [state |-> state, stage |-> "done", buildOk |-> ok])

SetStage(b, stage) ==
  IF status[b].state = "none"
  THEN UNCHANGED <<dir, status>>
  ELSE Save(b, [status[b] EXCEPT !.stage = stage])

(* save_credential(): write_bytes truncates the file, then fills it.  A key
   that sealed the first credential of a build seals its second one. *)
SaveCredential(b, from, torn, to, ok) ==
  \/ pc[b] \in from /\ Move(b, pc[b], torn) /\ cred' = [cred EXCEPT ![b] = "torn"]
  \/ Move(b, torn, to) /\ cred' = [cred EXCEPT ![b] = ok]

-----------------------------------------------------------------------------
(* POST /build *)

(* The gates before this point (login, validation errors without an
   acknowledgement) end the request with nothing written. *)
CreateContext(b) ==
  /\ EventLoopFree
  /\ \A a \in Builds : a < b => pc[a] # "new"
  /\ Move(b, "new", "context")
  /\ dir' = [dir EXCEPT ![b] = TRUE]
  /\ UNCHANGED <<up, crashes, files, status, cred, key, doomed, daemon, del>>

(* _load_or_create_key for the first credential ever: a file that does not
   exist is created empty, then filled. *)
MakeKey(b) ==
  /\ \/ key = "none" /\ Move(b, "context", "key") /\ key' = "filling"
     \/ Move(b, "key", "keyed") /\ key' = "whole"
  /\ UNCHANGED <<up, crashes, dir, files, status, cred, doomed, daemon, del>>

(* An empty key: Fernet raises in save_credential and nothing catches it. *)
KeyRaises(b) ==
  /\ key \in {"filling", "empty"}
  /\ Move(b, "context", "over")
  /\ UNCHANGED <<up, crashes, disk, daemon, del>>

(* The key was there, or is the one just made. *)
HasKey(b) == pc[b] = "context" => key = "whole"

StorePlaceholder_ClaimsSuccess(b) ==
  /\ HasKey(b)
  /\ SaveCredential(b, {"context", "keyed"}, "tornNew", "saved", "ok")
  /\ UNCHANGED <<up, crashes, dir, files, status, key, doomed, daemon, del>>

StorePlaceholder(b) ==
  /\ HasKey(b)
  /\ SaveCredential(b, {"context", "keyed"}, "tornNew", "saved", "notOk")
  /\ UNCHANGED <<up, crashes, dir, files, status, key, doomed, daemon, del>>

StartBuildRecord(b) ==
  /\ Move(b, "saved", "started")
  /\ Save(b, StartRecord)
  /\ UNCHANGED <<up, crashes, files, cred, key, doomed, daemon, del>>

(* A file of the directory is written. *)
Generate(b, artifact) ==
  /\ files' = [files EXCEPT ![b] = @ \cup {artifact}]
  /\ UNCHANGED <<up, crashes, dir, status, cred, key, doomed, daemon, del>>

(* The log is created, the background task added, the redirect sent. *)
Respond(b) == Move(b, "started", "queued") /\ Generate(b, "log")

(* A write of the handler fails: 500, and what was written stays. *)
PostFails(b) ==
  /\ DiskMayFail
  /\ pc[b] \in PostSteps
  /\ pc' = [pc EXCEPT ![b] = "over"]
  /\ key' = IF pc[b] = "key" THEN "empty" ELSE key
  /\ UNCHANGED <<up, crashes, dir, files, status, cred, doomed, daemon, del>>

(* POST /build goes on to its end, once it has begun. *)
PostGoesOn(b) ==
  \/ MakeKey(b) \/ KeyRaises(b) \/ StorePlaceholder(b) \/ StartBuildRecord(b) \/ Respond(b)

Post(b) == CreateContext(b) \/ PostGoesOn(b) \/ PostFails(b)

(* A listing asked for before the first build finds no key either and makes
   one, on a pool thread beside POST /build.  That two of them find none
   and the second replaces the key of the first is left to Secrets: here
   looking and creating are one step. *)
ListingMakesKey ==
  /\ up = "serving"
  /\ key = "none" /\ key' = "filling"
  /\ UNCHANGED <<up, crashes, pc, dir, files, status, cred, doomed, daemon, del>>

ListingFillsKey ==
  /\ up = "serving"
  /\ key = "filling" /\ \A b \in Builds : pc[b] # "key"
  /\ \/ key' = "whole"
     \/ DiskMayFail /\ key' = "empty"
  /\ UNCHANGED <<up, crashes, pc, dir, files, status, cred, doomed, daemon, del>>

-----------------------------------------------------------------------------
(* The daemon: it goes on building whether or not the console listens. *)

DaemonBuilds(b) ==
  /\ job[b] = "active"
  /\ job' = [job EXCEPT ![b] = "built"]
  /\ buildTag' = [buildTag EXCEPT ![TagOf(b)] = ImageOf[b]]
  /\ UNCHANGED <<up, crashes, pc, disk, seriesTag, del>>

DaemonFails(b) ==
  /\ job[b] = "active"
  /\ job' = [job EXCEPT ![b] = "failed"]
  /\ UNCHANGED <<up, crashes, pc, disk, buildTag, seriesTag, del>>

Daemon(b) == DaemonBuilds(b) \/ DaemonFails(b)

-----------------------------------------------------------------------------
(* _run_build, on a pool thread *)

(* The thread starts; the context is uploaded, or no daemon answers. *)
StartBuild(b) ==
  /\ ThreadFree
  /\ \/ Move(b, "queued", "building") /\ job' = [job EXCEPT ![b] = "active"]
     \/ Move(b, "queued", "refused") /\ UNCHANGED job
  /\ UNCHANGED <<up, crashes, disk, buildTag, seriesTag, del>>

(* _consume drains the stream: the daemon's verdict is the result. *)
StreamEnds(b) ==
  /\ \/ job[b] = "built" /\ Move(b, "building", "landed")
     \/ job[b] = "failed" /\ Move(b, "building", "refused")
  /\ UNCHANGED <<up, crashes, disk, daemon, del>>

(* The stream breaks, whatever becomes of the build: a DockerException is
   a failed result, any other exception leaves build_image. *)
StreamBreaks(b) ==
  /\ job[b] \in {"active", "built"}
  /\ Move(b, "building", "refused") \/ Move(b, "building", "aborting")
  /\ UNCHANGED <<up, crashes, disk, daemon, del>>

RecordSuccess(b) ==
  /\ SaveCredential(b, {"landed"}, "tornOk", "tagging", "ok")
  /\ UNCHANGED <<up, crashes, dir, files, status, key, doomed, daemon, del>>

RecordFailure_NoReturn(b) ==
  /\ SaveCredential(b, {"refused"}, "tornBad", "tagging", "notOk")
  /\ UNCHANGED <<up, crashes, dir, files, status, key, doomed, daemon, del>>

RecordFailure(b) ==
  /\ SaveCredential(b, {"refused"}, "tornBad", "failing", "notOk")
  /\ UNCHANGED <<up, crashes, dir, files, status, key, doomed, daemon, del>>

FinishFailed(b) ==
  /\ Move(b, "failing", "over")
  /\ Finish(b, "failed", "no")
  /\ UNCHANGED <<up, crashes, files, cred, key, doomed, daemon, del>>

(* tag_image: the series tag moves onto whatever the build tag names; the
   daemon may refuse, which only makes the log. *)
MoveSeriesTag(b) ==
  /\ Move(b, "tagging", "compose")
  /\ \/ /\ buildTag[TagOf(b)] # None
        /\ seriesTag' = [seriesTag EXCEPT ![SeriesOf[b]] = buildTag[TagOf(b)]]
     \/ UNCHANGED seriesTag
  /\ UNCHANGED <<up, crashes, disk, job, buildTag, del>>

WriteCompose_NeverMonitored(b) ==
  /\ Move(b, "compose", "notices")
  /\ IF b \in Composed
     THEN Generate(b, "compose")
     ELSE UNCHANGED <<up, crashes, disk, daemon, del>>

WriteCompose(b) ==
  /\ Move(b, "compose", IF b \in Monitored THEN "monitoring" ELSE "notices")
  /\ IF b \in Composed
     THEN Generate(b, "compose")
     ELSE UNCHANGED <<up, crashes, disk, daemon, del>>

WriteMonitoring(b) == Move(b, "monitoring", "notices") /\ Generate(b, "monitoring")

(* generate_notices has a handler of its own: without the notices, on. *)
WriteNotices(b) ==
  /\ Move(b, "notices", "staging")
  /\ \/ Generate(b, "notices")
     \/ UNCHANGED <<up, crashes, disk, daemon, del>>

EnterSmokeStage(b) ==
  /\ Move(b, "staging", "smoke")
  /\ SetStage(b, "smoke")
  /\ UNCHANGED <<up, crashes, files, cred, key, doomed, daemon, del>>

(* The smoke test returns; whatever it found, the build succeeded. *)
SmokeTest(b) ==
  /\ Move(b, "smoke", "over")
  /\ Finish(b, "succeeded", "yes")
  /\ UNCHANGED <<up, crashes, files, cred, key, doomed, daemon, del>>

(* Statements of the try block that raise past their own handlers: the
   daemon's client where docker errors are not all caught (tag_image,
   run_smoke_test), and every write when the disk fails. *)
MayRaise == {"tagging", "smoke"} \cup (IF DiskMayFail THEN TryWork ELSE {})

Raise(b) ==
  /\ pc[b] \in MayRaise
  /\ Move(b, pc[b], "aborting")
  /\ UNCHANGED <<up, crashes, disk, daemon, del>>

Abort_LogOnly(b) ==
  /\ Move(b, "aborting", "over")
  /\ UNCHANGED <<up, crashes, disk, daemon, del>>

(* The outer handler logs and marks the record failed. *)
Abort(b) ==
  /\ Move(b, "aborting", "over")
  /\ Finish(b, "failed", "no")
  /\ UNCHANGED <<up, crashes, files, cred, key, doomed, daemon, del>>

(* Its append_log, or finish, raises: the thread dies, the record stays. *)
AbortFails(b) ==
  /\ DiskMayFail
  /\ Move(b, "aborting", "over")
  /\ UNCHANGED <<up, crashes, disk, daemon, del>>

Worker(b) ==
  \/ StartBuild(b) \/ StreamEnds(b) \/ StreamBreaks(b)
  \/ RecordSuccess(b) \/ RecordFailure(b) \/ FinishFailed(b)
  \/ MoveSeriesTag(b) \/ WriteCompose(b) \/ WriteMonitoring(b) \/ WriteNotices(b)
  \/ EnterSmokeStage(b) \/ SmokeTest(b)
  \/ Raise(b) \/ Abort(b) \/ AbortFails(b)

-----------------------------------------------------------------------------
(* POST /builds/{id}/delete *)

EndRequest(r) == del' = [del EXCEPT ![r] = IdleRequest]

(* _builds_sharing_tag: other readable credentials naming the same tag. *)
SharedTag(b) == \E o \in Builds \ {b} : cred[o] \in Readable /\ TagOf(o) = TagOf(b)

(* _delete_context is read whole, then the handler awaits the form. *)
OpenDelete(r, b) ==
  /\ EventLoopFree
  /\ del[r].pc = "idle"
  /\ cred[b] \in Readable \/ status[b].state # "none" \/ dir[b]
  /\ del' = [del EXCEPT ![r] =
       [pc |-> "form", build |-> b,
        running |-> status[b].state = "running",
        tagged |-> cred[b] \in Readable \/ status[b].state # "none",
        shared |-> SharedTag(b),
        seriesHere |-> FALSE]]
  /\ UNCHANGED <<up, crashes, pc, disk, daemon>>

(* No confirmation, a build still running (409), or a client gone. *)
LeaveDelete(r) ==
  /\ EventLoopFree
  /\ del[r].pc = "form"
  /\ EndRequest(r)
  /\ UNCHANGED <<up, crashes, pc, disk, daemon>>

MayRemove_NoCheck(r) == TRUE

(* The check is on the context read before the await. *)
MayRemove(r) == ~del[r].running

(* delete_build: is there a directory to remove? *)
RemoveDirectory(r) ==
  /\ EventLoopFree
  /\ del[r].pc = "form"
  /\ MayRemove(r)
  /\ doomed' = doomed \cup {del[r].build}
  /\ del' = [del EXCEPT ![r].pc = IF dir[del[r].build] THEN "removing" ELSE "credential"]
  /\ UNCHANGED <<up, crashes, pc, dir, files, status, cred, key, daemon>>

(* rmtree unlinks one entry after the other, in the order the directory
   lists them, and removes the directory when it is empty. *)
RemoveEntry(r) ==
  LET b == del[r].build IN
  /\ del[r].pc = "removing"
  /\ \/ /\ \E f \in files[b] : files' = [files EXCEPT ![b] = @ \ {f}]
        /\ UNCHANGED status
     \/ /\ status[b] # NoStatus
        /\ status' = [status EXCEPT ![b] = NoStatus]
        /\ UNCHANGED files
  /\ UNCHANGED <<up, crashes, pc, dir, cred, key, doomed, daemon, del>>

RemoveEmptied(r) ==
  LET b == del[r].build IN
  /\ del[r].pc = "removing"
  /\ files[b] = {} /\ status[b] = NoStatus
  /\ dir' = [dir EXCEPT ![b] = FALSE]
  /\ del' = [del EXCEPT ![r].pc = "credential"]
  /\ UNCHANGED <<up, crashes, pc, files, status, cred, key, doomed, daemon>>

RemoveCredential(r) ==
  /\ del[r].pc = "credential"
  /\ cred' = [cred EXCEPT ![del[r].build] = "none"]
  /\ \/ /\ del[r].tagged /\ ~del[r].shared
        /\ del' = [del EXCEPT ![r].pc = "image"]
     \/ EndRequest(r)
  /\ UNCHANGED <<up, crashes, pc, dir, files, status, key, doomed, daemon>>

(* rmtree or unlink raises: 500, and what is not removed yet stays. *)
RemovalFails(r) ==
  /\ DiskMayFail
  /\ del[r].pc \in RemovalSteps
  /\ EndRequest(r)
  /\ UNCHANGED <<up, crashes, pc, disk, daemon>>

(* remove_build_image gets a thread and resolves both tags, or no daemon. *)
ResolveTags(r) ==
  /\ del[r].pc = "image"
  /\ ThreadFree
  /\ LET b == del[r].build
         image == buildTag[TagOf(b)] IN
       \/ del' = [del EXCEPT ![r].pc = "untag",
                             ![r].seriesHere = image # None /\ seriesTag[SeriesOf[b]] = image]
       \/ EndRequest(r)
  /\ UNCHANGED <<up, crashes, pc, disk, daemon>>

(* remove_image is not forced: the daemon may keep the tag. *)
Untag(r) ==
  /\ del[r].pc = "untag"
  /\ \/ buildTag' = [buildTag EXCEPT ![TagOf(del[r].build)] = None]
     \/ UNCHANGED buildTag
  /\ IF del[r].seriesHere
     THEN del' = [del EXCEPT ![r].pc = "untagSeries"]
     ELSE EndRequest(r)
  /\ UNCHANGED <<up, crashes, pc, disk, job, seriesTag>>

UntagSeries(r) ==
  /\ del[r].pc = "untagSeries"
  /\ \/ seriesTag' = [seriesTag EXCEPT ![SeriesOf[del[r].build]] = None]
     \/ UNCHANGED seriesTag
  /\ EndRequest(r)
  /\ UNCHANGED <<up, crashes, pc, disk, job, buildTag>>

Delete(r) ==
  \/ LeaveDelete(r) \/ RemoveDirectory(r) \/ RemoveEntry(r) \/ RemoveEmptied(r)
  \/ RemoveCredential(r) \/ RemovalFails(r) \/ ResolveTags(r) \/ Untag(r) \/ UntagSeries(r)

-----------------------------------------------------------------------------
(* The console process *)

(* It dies: every task of it is lost, disk and daemon stay. *)
Crash ==
  /\ up # "down"
  /\ crashes < MaxCrashes
  /\ up' = "down"
  /\ crashes' = crashes + 1
  /\ pc' = [b \in Builds |-> IF pc[b] = "new" THEN "new" ELSE "over"]
  /\ del' = [r \in Requests |-> IdleRequest]
  /\ key' = IF key = "filling" THEN "empty" ELSE key
  /\ UNCHANGED <<dir, files, status, cred, doomed, daemon>>

Restart ==
  /\ up = "down"
  /\ up' = "booting"
  /\ UNCHANGED <<crashes, pc, disk, daemon, del>>

Stale_AnyState(b) == status[b].state # "none"

(* mark_interrupted_builds skips what has no record or has ended. *)
Stale(b) == status[b].state = "running"

Interrupted(b) == [status[b] EXCEPT !.state = "interrupted", !.stage = "done"]

(* The record is saved, the log gets a line, and is created if need be. *)
MarkInterrupted(b) ==
  /\ up = "booting"
  /\ Stale(b)
  /\ Save(b, Interrupted(b))
  /\ files' = [files EXCEPT ![b] = @ \cup {"log"}]
  /\ UNCHANGED <<up, crashes, pc, cred, key, doomed, daemon, del>>

(* Start-up ends between the two, by a crash or because append_log raises;
   or save does, and the record stays as it was. *)
MarkingStops(b) ==
  /\ up = "booting"
  /\ Stale(b)
  /\ \/ Save(b, Interrupted(b))
     \/ DiskMayFail /\ UNCHANGED <<dir, status>>
  /\ up' = "down"
  /\ IF DiskMayFail
     THEN UNCHANGED crashes
     ELSE crashes < MaxCrashes /\ crashes' = crashes + 1
  /\ UNCHANGED <<pc, files, cred, key, doomed, daemon, del>>

(* lifespan yields once the loop over the build directories is through. *)
Serve ==
  /\ up = "booting"
  /\ \A b \in Builds : status[b].state # "running"
  /\ up' = "serving"
  /\ UNCHANGED <<crashes, pc, disk, daemon, del>>

Next ==
  \/ \E b \in Builds : Post(b) \/ Daemon(b) \/ Worker(b) \/ MarkInterrupted(b) \/ MarkingStops(b)
  \/ \E r \in Requests : Delete(r) \/ \E b \in Builds : OpenDelete(r, b)
  \/ ListingMakesKey \/ ListingFillsKey
  \/ Crash \/ Restart \/ Serve

SafetySpec == Init /\ [][Next]_vars

(* Threads are scheduled and handlers run to their end; the container's
   restart policy starts the console again; the daemon ends what it was
   asked to build; a client sends its form or goes away.  The operator
   owes nothing: CreateContext and OpenDelete are not fair. *)
Fairness ==
  /\ \A b \in Builds :
       /\ WF_vars(PostGoesOn(b))
       /\ WF_vars(Daemon(b))
       /\ WF_vars(Worker(b))
       /\ WF_vars(MarkInterrupted(b))
  /\ \A r \in Requests : WF_vars(Delete(r))
  /\ WF_vars(ListingFillsKey) /\ WF_vars(Restart) /\ WF_vars(Serve)

Spec == SafetySpec /\ Fairness

-----------------------------------------------------------------------------
(* Safety *)

(* While any task answers for a build, its directory and its running
   record are there and its credential file exists: no interleaving of
   deletes, restarts and failed writes removes them from under _run_build
   ("would carry on writing into the directory after it was removed"). *)
WorkerOwnsBuild ==
  \A b \in Builds : pc[b] \in Live =>
    up = "serving" /\ dir[b] /\ status[b].state = "running" /\ cred[b] # "none"

(* A delete that got past its check is about a build no task works on, and
   takes the credential and the image only once directory and record are
   gone for good. *)
DeletesAreUnowned ==
  \A r \in Requests : del[r].pc \notin {"idle", "form"} =>
    LET b == del[r].build IN
    /\ b \in doomed /\ pc[b] = "over"
    /\ del[r].pc # "removing" => ~dir[b] /\ status[b] = NoStatus

(* What a build that succeeded leaves behind, besides its notices. *)
Deliverables(b) ==
  {"log"} \cup {f \in {"compose", "monitoring"} :
                 b \in IF f = "compose" THEN Composed ELSE Monitored}

(* A record that says succeeded has its image built, a credential that
   agrees and, until a removal of the build begins, every file its page
   offers.  Not after: a crash in the middle of rmtree can leave the record
   without any of them. *)
SucceededIsComplete ==
  \A b \in Builds : status[b].state = "succeeded" =>
    /\ job[b] = "built" /\ cred[b] = "ok"
    /\ status[b].stage = "done" /\ status[b].buildOk = "yes"
    /\ b \notin doomed => Deliverables(b) \subseteq files[b]

(* build_ok in a credential is never a promise: the image was built. *)
CredentialIsHonest == \A b \in Builds : cred[b] = "ok" => job[b] = "built"

(* Once the console serves, a page that polls a running record polls a
   build some task will conclude. *)
RunningIsWatched ==
  up = "serving" => \A b \in Builds : status[b].state = "running" => pc[b] \in Live

(* The tag a build's compose file names is its own image or gone: "a later
   build of the same combination cannot change what this one runs". *)
TagNamesOwnImage ==
  \A b \in Builds : job[b] = "built" => buildTag[TagOf(b)] \in {None, ImageOf[b]}

(* The short name moves only onto an image whose build recorded success. *)
SeriesTagEarned ==
  [][\A s \in Series : seriesTag'[s] \notin {None, seriesTag[s]} =>
       \E b \in Builds : SeriesOf[b] = s /\ cred[b] = "ok" /\ ImageOf[b] = seriesTag'[s]]_vars

(* The tag of a build that still has its directory or its credential is
   never removed, whatever is being deleted meanwhile. *)
KeptBuildKeepsTag ==
  [][\A b \in Builds : (dir[b] \/ cred[b] # "none") /\ buildTag[TagOf(b)] # None =>
       buildTag'[TagOf(b)] # None]_vars

(* A record that has ended is never rewritten, only removed. *)
TerminalIsFinal ==
  [][\A b \in Builds : status[b].state \in Terminal =>
       status'[b] \in {status[b], NoStatus}]_vars

(* Once the removal of a build has begun nothing of it comes back, whoever
   else runs, crashes, fails or restarts before a removal is through: no
   task "would carry on writing into the directory after it was removed,
   leaving a half-rebuilt one behind", nor does a restart mark what is left. *)
RemovalIsFinal ==
  [][\A b \in doomed :
       /\ files'[b] \subseteq files[b]
       /\ status'[b] \in {status[b], NoStatus}
       /\ dir'[b] => dir[b]]_vars

-----------------------------------------------------------------------------
(* The inductive invariant behind the safety properties: what is known of
   the disk, the daemon and the open requests at each step of a build. *)

(* A process that does not serve has no tasks. *)
Quiescent ==
  up # "serving" =>
    /\ \A b \in Builds : pc[b] \in {"new", "over"}
    /\ \A r \in Requests : del[r].pc = "idle"

(* Nothing exists of an id not minted, its record comes last, and nothing is
   in a directory that does not exist. *)
PostOrder ==
  \A b \in Builds :
    /\ pc[b] = "new" => ~dir[b] /\ cred[b] = "none"
    /\ pc[b] \in PostSteps => dir[b]
    /\ pc[b] \in {"new"} \cup (PostSteps \ {"started"}) => status[b] = NoStatus
    /\ pc[b] \in {"new", "queued"} \cup PostSteps => job[b] = "none"
    /\ pc[b] \in {"tornNew", "saved"} => cred[b] # "none"
    /\ ~dir[b] => files[b] = {} /\ status[b] = NoStatus

(* One party at a time makes the key, and what is sealed has one. *)
KeyOrder ==
  /\ key = "filling" => up = "serving"
  /\ \A b \in Builds :
       /\ pc[b] = "key" => key = "filling"
       /\ pc[b] = "keyed" \/ cred[b] # "none" => key = "whole"
  /\ \A a, b \in Builds : pc[a] = "key" /\ pc[b] = "key" => a = b

Built == {"landed", "tornOk", "tagging", "compose", "monitoring", "notices",
          "staging", "smoke"}

(* The worker knows the daemon's verdict before it records success, and
   records it before it touches the series tag. *)
WorkOrder ==
  \A b \in Builds :
    /\ pc[b] \in Built => job[b] = "built"
    /\ pc[b] \in {"saved", "started", "queued", "building", "refused"} => cred[b] = "notOk"
    /\ pc[b] \in Built \ {"landed", "tornOk"} => cred[b] = "ok"
    /\ cred[b] = "ok" => job[b] = "built"

(* A record has ended only once its task has. *)
EndedOrder ==
  \A b \in Builds :
    /\ status[b].state \in Terminal => pc[b] = "over"
    /\ status[b].state = "succeeded" =>
         cred[b] = "ok" /\ status[b].stage = "done" /\ status[b].buildOk = "yes"

(* An open request is about a build whose task had ended when it looked. *)
DeleteOrder ==
  \A r \in Requests : del[r].pc # "idle" =>
    /\ del[r].build \in Builds
    /\ del[r].pc = "form" /\ ~del[r].running =>
         pc[del[r].build] = "over" /\ status[del[r].build].state # "running"

(* What is being removed, or was, nobody makes or marks any more. *)
DoomOrder == \A b \in doomed : pc[b] = "over" /\ status[b].state # "running"

IInv ==
  /\ TypeOK /\ Quiescent /\ PostOrder /\ KeyOrder /\ WorkerOwnsBuild /\ WorkOrder
  /\ EndedOrder /\ DeleteOrder /\ DoomOrder /\ DeletesAreUnowned

-----------------------------------------------------------------------------
(* Liveness *)

(* No record stays running for ever. *)
EveryBuildConcludes ==
  \A b \in Builds : status[b].state = "running" ~> status[b].state # "running"

(* Every delete request is answered, although builds hold the threads. *)
DeletesEnd == \A r \in Requests : del[r].pc # "idle" ~> del[r].pc = "idle"

-----------------------------------------------------------------------------
(* Refinement of BuildRecord *)

RecordOf(b) ==
  IF status[b].state # "none" THEN status[b].state
  ELSE IF pc[b] = "over" THEN "removed" ELSE "absent"

Rec == INSTANCE BuildRecord WITH
         record <- [b \in Builds |-> RecordOf(b)],
         watched <- {b \in Builds : pc[b] \in Live}

(* The console implements the abstract life of a record ... *)
ImplementsRecordSafety == Rec!RecordSafety
(* ... including that a running record is eventually concluded. *)
ImplementsRecord == Rec!RecordSpec

-----------------------------------------------------------------------------
(* What comments of the code say, and the code does not do *)

(* "A series tag ... follows the newest build of that combination": it
   never goes back from a build's image to the image of an older one. *)
SeriesFollowsNewest ==
  [][\A a, b \in Builds : a < b /\ ImageOf[a] # ImageOf[b] =>
       \A s \in Series : seriesTag[s] = ImageOf[b] => seriesTag'[s] # ImageOf[a]]_vars

(* remove_build_image removes "the series tag if it still points here": a
   series tag that is removed names the image of the build being deleted. *)
SeriesRemovedFromOwner ==
  [][\A s \in Series : seriesTag[s] # None /\ seriesTag'[s] = None =>
       \E r \in Requests : /\ del[r].pc = "untagSeries" /\ SeriesOf[del[r].build] = s
                           /\ ImageOf[del[r].build] = seriesTag[s]]_vars

(* "again anytime at /credentials/<build_id>": a build that has ended, and
   whose record is kept, has a credential that can be read. *)
CredentialKept ==
  \A b \in Builds : status[b].state \in Terminal => cred[b] \in Readable
=============================================================================
