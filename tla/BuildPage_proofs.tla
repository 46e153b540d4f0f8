---------------------------- MODULE BuildPage_proofs ----------------------------
(***************************************************************************)
(* What the operator's page shows of a build, for every set of builds and  *)
(* requests: proofs about BuildPage.                                       *)
(***************************************************************************)
EXTENDS BuildPage, BuildOutcome_proofs

USE SelectionAssumption, NoneAssumption, BoundsAssumption, DropsAssumption
USE DEF disk, daemon, vars, pageVars, allVars, Steps, Live, WorkerSteps, TryWork, PostSteps,
        Terminal, CredStates, Readable, KeyStates, Artifacts

-----------------------------------------------------------------------------
(* The invariants of a request and of the tab *)

(* A build that got its record, which only a removal takes away. *)
Recorded(b) == status[b].state # "none" \/ b \in doomed

PageKinds == {"page", "poll"}

(* Which requests take which steps. *)
GetShape ==
  /\ get.pc = "idle" => get = NoGet
  /\ get.pc # "idle" /\ get.kind # "list" => get.build \in Builds
  /\ get.pc \in {"record", "log"} => get.kind \in PageKinds
  /\ get.pc \in {"find", "decrypt", "findCompose", "readCompose"} =>
       get.kind \in PageKinds \cup {"credential"}
  /\ get.pc \in {"isFile", "readFile"} => get.kind = "notices"
  /\ get.pc \in {"rows", "states"} => get.kind = "list"
  /\ get.pc = "answered" <=> get.answer # "none"

(* A page's view says something once its record was read. *)
GetView ==
  /\ get.pc \in {"sent", "queued", "record"} => get.view.state = "none"
  /\ get.pc # "answered" => ~get.view.compose
  /\ get.view.state # "none" =>
       get.kind \in PageKinds /\ get.view.state # "login" /\ Recorded(get.build)
  /\ get.kind \in PageKinds =>
       /\ get.pc \in {"log", "find", "decrypt", "findCompose", "readCompose"} =>
            get.view.state # "none"
       /\ get.answer = "ok" => get.view.state # "none"

(* A view of an ended build agrees with the record it was read from, as far
   as the request has read, until a removal of the build begins. *)
ViewFits(b, v, log, credential, compose) ==
  v.state \in Terminal /\ b \notin doomed =>
    /\ v.state = status[b].state
    /\ log => v.whole = ("log" \in files[b]) /\ (v.state # "interrupted" => v.whole)
    /\ v.state = "failed" /\ credential /\ ~DiskMayFail => v.cred # "none"
    /\ v.state = "succeeded" =>
         /\ credential => v.cred = "ok"
         /\ compose => v.compose = (b \in Composed)

GetFits ==
  ViewFits(get.build, get.view, get.pc # "log",
           get.pc \in {"findCompose", "readCompose"} \/ get.answer = "ok",
           get.answer = "ok")

(* What a request saw to be there is there when it reads it, or a removal of
   its build has begun in between. *)
StillThere ==
  /\ get.pc = "decrypt" => cred[get.build] # "none" \/ get.build \in doomed
  /\ get.pc = "rows" => \A b \in get.left : cred[b] # "none" \/ b \in doomed
  /\ get.pc = "readCompose" => "compose" \in files[get.build] \/ get.build \in doomed
  /\ get.pc = "readFile" => "notices" \in files[get.build] \/ get.build \in doomed

(* A request about one build fails only if the build is being removed. *)
FailuresFit ==
  /\ get.kind = "poll" /\ get.answer = "notFound" => get.build \in doomed
  /\ get.kind # "list" /\ get.answer = "error" => get.build \in doomed

(* The tab polls what it shows. *)
TabFollows ==
  /\ get.kind \in PageKinds /\ get.pc # "idle" => tab.build = get.build
  /\ tab.watch = "polling" <=> get.kind = "poll"
  /\ tab.watch # "off" => tab.shown.state = "running"
  /\ tab.shown.state \notin {"none", "login"} => tab.build \in Builds /\ Recorded(tab.build)

TabFits == ViewFits(tab.build, tab.shown, TRUE, TRUE, TRUE)

PageInv ==
  /\ PageTypeOK /\ GetShape /\ GetView /\ GetFits /\ StillThere /\ FailuresFit
  /\ TabFollows /\ TabFits /\ SpinnerIsOfDeleted

-----------------------------------------------------------------------------
(* The console underneath *)

(* What is known of the console whatever the pages ask. *)
ConsoleInv ==
  IInv /\ RecordIsKept /\ FilesAreDelivered /\ (~DiskMayFail => FailureHasPassword)

(* Every step of the system is a step of the console or leaves it alone. *)
LEMMA PageStepsConsole == [PageNext]_allVars => [Next]_vars
BY DEF PageNext, Console, OpenPage, OpenOther, SendPoll, Handler, Admit,
   StartThread, ListRows, ReadRecord, ReadLog, FindCredential, Decrypt, FindCompose, ReadCompose,
   ReadRow, ReadState, RowsRead, StatesRead, FindFile, ReadFile, Deliver, DropAnswer

THEOREM PageKeepsConsole == PageSpec => SafetySpec
<1>1. PageInit => Init
  BY DEF PageInit
<1> QED BY <1>1, PageStepsConsole, PTL DEF PageSpec, SafetySpec

(* With pages open beside it the console still implements BuildRecord: a
   record starts once, ends once, and goes only with its build. *)
THEOREM PagesImplementRecord == PageSpec => ImplementsRecordSafety
BY PageKeepsConsole, Refinement, PTL

LEMMA RecordedStays ==
  ASSUME ConsoleInv, [Next]_vars, NEW b \in Builds, Recorded(b)
  PROVE  Recorded(b)'
<1>1. status'[b] = status[b] \/ status'[b].state # "none" \/ b \in doomed
  BY RecordStep DEF ConsoleInv
<1>2. b \in doomed => b \in doomed'
  BY DoomStep
<1> QED BY <1>1, <1>2 DEF Recorded

(* What a record that has ended says of the rest. *)
LEMMA EndedHasAll ==
  ASSUME ConsoleInv, NEW b \in Builds, status[b].state \in Terminal, b \notin doomed
  PROVE  /\ pc[b] = "over"
         /\ status[b].state # "interrupted" => "log" \in files[b]
         /\ status[b].state = "succeeded" =>
              cred[b] = "ok" /\ ("compose" \in files[b] <=> b \in Composed)
         /\ status[b].state = "failed" /\ ~DiskMayFail => cred[b] \in Readable
<1>1. pc[b] = "over"
  BY DEF ConsoleInv, IInv, EndedOrder
<1>2. ASSUME status[b].state = "succeeded" PROVE cred[b] = "ok"
  BY <1>2 DEF ConsoleInv, IInv, EndedOrder
<1>3. ASSUME status[b].state = "succeeded"
      PROVE  "log" \in files[b] /\ ("compose" \in files[b] <=> b \in Composed)
  BY <1>3 DEF ConsoleInv, FilesAreDelivered, Deliverables
<1>4. status[b].state = "failed" => "log" \in files[b]
  BY DEF ConsoleInv, FilesAreDelivered
<1>5. status[b].state = "failed" /\ ~DiskMayFail => cred[b] \in Readable
  BY DEF ConsoleInv, FailureHasPassword
<1> QED BY <1>1, <1>2, <1>3, <1>4, <1>5

(* Nothing is added to a build that has ended. *)
LEMMA EndedFilesStay ==
  ASSUME IInv, [Next]_vars, NEW b \in Builds, status[b].state \in Terminal
  PROVE  files'[b] \subseteq files[b]
<1>1. TypeOK /\ pc[b] = "over"
  BY DEF IInv, EndedOrder
<1>2. CASE UNCHANGED vars
  BY <1>2
<1>3. ASSUME NEW c \in Builds,
             \/ WriteCompose(c) \/ WriteMonitoring(c) \/ WriteNotices(c) \/ Respond(c)
      PROVE  files'[b] = files[b]
  BY <1>1, <1>3 DEF TypeOK, WriteCompose, WriteMonitoring, WriteNotices, Respond, Generate, Move
<1>4. ASSUME NEW c \in Builds, Post(c) \/ Daemon(c) \/ MarkingStops(c), ~Respond(c)
      PROVE  UNCHANGED files
  BY <1>4 DEF Post, PostGoesOn, CreateContext, MakeKey, KeyRaises, StorePlaceholder,
     StartBuildRecord, PostFails, Daemon, DaemonBuilds, DaemonFails, MarkingStops
<1>5. ASSUME NEW c \in Builds, Worker(c),
             ~(WriteCompose(c) \/ WriteMonitoring(c) \/ WriteNotices(c))
      PROVE  UNCHANGED files
  BY <1>5 DEF Worker, StartBuild, StreamEnds, StreamBreaks, RecordSuccess, RecordFailure,
     FinishFailed, MoveSeriesTag, EnterSmokeStage, SmokeTest, Raise, Abort, AbortFails
<1>6. ASSUME NEW c \in Builds, MarkInterrupted(c) PROVE files'[b] = files[b]
  BY <1>1, <1>6 DEF TypeOK, MarkInterrupted, Stale
<1>7. ASSUME NEW r \in Requests, RemoveEntry(r) PROVE files'[b] \subseteq files[b]
  BY <1>1, <1>7 DEF TypeOK, RemoveEntry
<1>8. ASSUME NEW r \in Requests, Delete(r) \/ \E c \in Builds : OpenDelete(r, c),
             ~RemoveEntry(r)
      PROVE  UNCHANGED files
  BY <1>8 DEF Delete, LeaveDelete, RemoveDirectory, RemoveEmptied, RemoveCredential,
     RemovalFails, ResolveTags, Untag, UntagSeries, OpenDelete
<1>9. CASE Crash \/ Restart \/ Serve \/ ListingMakesKey \/ ListingFillsKey
  BY <1>9 DEF Crash, Restart, Serve, ListingMakesKey, ListingFillsKey
<1> QED BY <1>2, <1>3, <1>4, <1>5, <1>6, <1>7, <1>8, <1>9 DEF Next

(* An ended build stays as it is until a removal of it begins. *)
LEMMA EndedIsStable ==
  ASSUME ConsoleInv, [Next]_vars, NEW b \in Builds, status[b].state \in Terminal,
         b \notin doomed'
  PROVE  /\ b \notin doomed /\ status'[b].state = status[b].state
         /\ "log" \in files'[b] <=> "log" \in files[b]
<1>1. b \notin doomed
  BY DoomStep
<1>2. status'[b].state \in {status[b].state, "none"}
  BY EndedStays DEF ConsoleInv, NoStatus
<1>3. status'[b].state # "none"
  BY <1>1, RecordStep DEF ConsoleInv
<1>4. "log" \in files'[b] <=> "log" \in files[b]
  BY <1>1, FilesStep, EndedFilesStay DEF ConsoleInv
<1> QED BY <1>1, <1>2, <1>3, <1>4

(* Nothing vanishes but in the removal of its build. *)
LEMMA VanishesWithBuild ==
  ASSUME ConsoleInv, [Next]_vars, NEW b \in Builds
  PROVE  /\ b \in doomed => b \in doomed'
         /\ cred[b] # "none" => cred'[b] # "none" \/ b \in doomed'
         /\ \A f \in files[b] : f \in files'[b] \/ b \in doomed'
<1>1. b \in doomed => b \in doomed'
  BY DoomStep
<1>2. cred[b] # "none" => cred'[b] # "none" \/ b \in doomed'
  BY <1>1, CredentialStep DEF ConsoleInv
<1>3. ASSUME NEW f \in files[b] PROVE f \in files'[b] \/ b \in doomed'
  BY <1>1, <1>3, FilesStep DEF ConsoleInv
<1> QED BY <1>1, <1>2, <1>3

(* PageOrder: the record, then the log, then the rest. *)
LEMMA ReadOrder == AfterRead("record") = "log" /\ AfterRead("log") = "find"
<1>1. /\ 1 \in 1..2 /\ 2 \in 1..2 /\ 1..2 = {1, 2}
      /\ PageOrder[1] = "record" /\ PageOrder[2] = "log" /\ PageOrder[3] = "find"
  BY DEF PageOrder
<1>2. (CHOOSE i \in 1..2 : PageOrder[i] = "record") = 1
  BY <1>1
<1>3. (CHOOSE i \in 1..2 : PageOrder[i] = "log") = 2
  BY <1>1
<1> QED BY <1>1, <1>2, <1>3 DEF AfterRead

-----------------------------------------------------------------------------
(* Types *)

LEMMA ViewTypes ==
  /\ NoView \in Views /\ NoView.state = "none" /\ ~NoView.compose
  /\ LoginForm \in Views /\ LoginForm.state = "login"
  /\ Blank \in Tabs /\ Blank.build = None /\ Blank.shown = NoView /\ Blank.watch = "off"
  /\ NoGet \in Gets /\ NoGet.pc = "idle" /\ NoGet.kind = "page" /\ NoGet.view = NoView
  /\ NoGet.answer = "none" /\ NoGet.left = {} /\ NoGet.build = None
<1>1. NoView \in Views /\ NoView.state = "none" /\ ~NoView.compose
  BY DEF NoView, Views
<1>2. LoginForm \in Views /\ LoginForm.state = "login"
  BY DEF LoginForm, NoView, Views
<1>3. Blank \in Tabs /\ Blank.build = None /\ Blank.shown = NoView /\ Blank.watch = "off"
  BY <1>1 DEF Blank, Tabs, Watches
<1>4. /\ NoGet.pc = "idle" /\ NoGet.kind = "page" /\ NoGet.view = NoView
      /\ NoGet.answer = "none" /\ NoGet.left = {} /\ NoGet.build = None
  BY DEF NoGet
<1>5. NoGet \in Gets
  BY <1>1 DEF NoGet, Gets, Kinds, GetSteps, Answers, Badges
<1> QED BY <1>1, <1>2, <1>3, <1>4, <1>5

(* The tab after its request was lost on the way. *)
LEMMA LoseTab ==
  ASSUME PageTypeOK, Lose
  PROVE  /\ get' = NoGet /\ tab' \in Tabs
         /\ tab' # Blank => tab'.build = tab.build /\ tab'.shown = tab.shown
         /\ get.kind = "poll" => /\ tab'.watch = "waiting" /\ tab' # Blank
                                 /\ tab'.build = tab.build /\ tab'.shown = tab.shown
         /\ get.kind \notin PageKinds => tab' = tab
         /\ get.kind = "page" => tab' = Blank
<1>1. tab \in Tabs
  BY DEF PageTypeOK
<1>2. CASE get.kind = "poll"
  <2>1. tab' = [tab EXCEPT !.watch = "waiting"]
    BY <1>2 DEF Lose
  <2>2. /\ tab' \in Tabs /\ tab'.build = tab.build /\ tab'.shown = tab.shown
        /\ tab'.watch = "waiting"
    BY <1>1, <2>1 DEF Tabs, Watches
  <2> QED BY <1>2, <2>2, ViewTypes DEF Lose, PageKinds
<1>3. CASE get.kind # "poll"
  BY <1>1, <1>3, ViewTypes DEF Lose, PageKinds
<1> QED BY <1>2, <1>3

LEMMA InitPageInv == PageInit => PageInv
<1> SUFFICES ASSUME PageInit PROVE PageInv
  OBVIOUS
<1>1. get = NoGet /\ tab = Blank /\ drops = 0
  BY DEF PageInit
<1>2. PageTypeOK
  BY <1>1, ViewTypes DEF PageTypeOK
<1>3. GetShape /\ GetView /\ GetFits /\ StillThere /\ FailuresFit
  BY <1>1, ViewTypes DEF GetShape, GetView, GetFits, ViewFits, StillThere, FailuresFit
<1>4. TabFollows /\ TabFits /\ SpinnerIsOfDeleted
  BY <1>1, ViewTypes DEF TabFollows, TabFits, ViewFits, SpinnerIsOfDeleted
<1> QED BY <1>2, <1>3, <1>4 DEF PageInv

-----------------------------------------------------------------------------
(* Steps of the console *)

(* What a view of an ended build was read from stays, or the build is being
   removed. *)
LEMMA GetFitStays ==
  ASSUME ConsoleInv, PageInv, [Next]_vars
  PROVE  \/ get.view.state \notin Terminal \/ get.build \in doomed'
         \/ /\ get.build \notin doomed /\ status'[get.build].state = status[get.build].state
            /\ "log" \in files'[get.build] <=> "log" \in files[get.build]
<1> SUFFICES ASSUME get.view.state \in Terminal, get.build \notin doomed'
             PROVE  /\ get.build \notin doomed
                    /\ status'[get.build].state = status[get.build].state
                    /\ "log" \in files'[get.build] <=> "log" \in files[get.build]
  OBVIOUS
<1>1. get.build \in Builds /\ get.build \notin doomed
  BY DoomStep, ViewTypes DEF PageInv, GetShape, GetView, PageKinds
<1>2. status[get.build].state \in Terminal
  BY <1>1 DEF PageInv, GetFits, ViewFits
<1> QED BY <1>1, <1>2, EndedIsStable

LEMMA TabFitStays ==
  ASSUME ConsoleInv, PageInv, [Next]_vars
  PROVE  \/ tab.shown.state \notin Terminal \/ tab.build \in doomed'
         \/ /\ tab.build \notin doomed /\ status'[tab.build].state = status[tab.build].state
            /\ "log" \in files'[tab.build] <=> "log" \in files[tab.build]
<1> SUFFICES ASSUME tab.shown.state \in Terminal, tab.build \notin doomed'
             PROVE  /\ tab.build \notin doomed
                    /\ status'[tab.build].state = status[tab.build].state
                    /\ "log" \in files'[tab.build] <=> "log" \in files[tab.build]
  OBVIOUS
<1>1. tab.build \in Builds /\ tab.build \notin doomed
  BY DoomStep DEF PageInv, TabFollows
<1>2. status[tab.build].state \in Terminal
  BY <1>1 DEF PageInv, TabFits, ViewFits
<1> QED BY <1>1, <1>2, EndedIsStable

(* The request is lost with a crash of the console or on the network. *)
LEMMA LoseKeeps ==
  ASSUME ConsoleInv, PageInv, [Next]_vars, Lose, get.pc # "idle",
         drops' \in 0..MaxDrops
  PROVE  PageInv'
<1> USE DEF PageInv
<1>1. PageTypeOK'
  BY LoseTab, ViewTypes DEF PageTypeOK
<1>2. (GetShape /\ GetView /\ GetFits /\ StillThere /\ FailuresFit)'
  BY LoseTab, ViewTypes DEF GetShape, GetView, GetFits, ViewFits, StillThere, FailuresFit,
     PageKinds
<1>3. CASE get.kind = "page"
  <2>1. get' = NoGet /\ tab' = Blank
    BY <1>3, LoseTab
  <2>2. (TabFollows /\ TabFits /\ SpinnerIsOfDeleted)'
    BY <2>1, ViewTypes DEF TabFollows, TabFits, ViewFits, SpinnerIsOfDeleted
  <2> QED BY <1>1, <1>2, <2>2
<1>4. CASE get.kind # "page"
  <2>1. /\ get' = NoGet /\ tab'.build = tab.build /\ tab'.shown = tab.shown
        /\ tab'.watch = IF get.kind = "poll" THEN "waiting" ELSE tab.watch
    BY <1>4, LoseTab DEF PageKinds
  <2>2. tab'.watch # "off" <=> tab.watch # "off"
    BY <2>1 DEF TabFollows
  <2>3. TabFollows'
    <3>1. tab.shown.state \notin {"none", "login"} =>
            tab.build \in Builds /\ (status'[tab.build].state # "none" \/ tab.build \in doomed')
      <4> SUFFICES ASSUME tab.shown.state \notin {"none", "login"}
                   PROVE  /\ tab.build \in Builds
                          /\ status'[tab.build].state # "none" \/ tab.build \in doomed'
        OBVIOUS
      <4>1. PICK b \in Builds : b = tab.build /\ Recorded(b)
        BY DEF TabFollows
      <4> QED BY <4>1, RecordedStays DEF Recorded
    <3> QED BY <2>1, <2>2, <3>1, ViewTypes DEF TabFollows, Recorded, PageKinds
  <2>4. TabFits'
    BY <2>1, TabFitStays DEF TabFits, ViewFits
  <2>5. SpinnerIsOfDeleted'
    BY <2>1, <2>2, DoomStep DEF SpinnerIsOfDeleted
  <2> QED BY <1>1, <1>2, <2>3, <2>4, <2>5
<1> QED BY <1>3, <1>4

(* The console takes a step that no page notices. *)
LEMMA ConsoleKeeps ==
  ASSUME ConsoleInv, PageInv, [Next]_vars, UNCHANGED pageVars
  PROVE  PageInv'
<1> USE DEF PageInv
<1>1. UNCHANGED <<get, tab, drops>>
  OBVIOUS
<1>2. PageTypeOK' /\ GetShape'
  BY <1>1 DEF PageTypeOK, GetShape
<1>3. get.view.state # "none" => get.build \in Builds /\ Recorded(get.build)
  <2>1. get.view.state # "none" => get.pc # "idle"
    BY ViewTypes DEF GetShape
  <2> QED BY <2>1 DEF GetShape, GetView, PageKinds
<1>4. GetView'
  <2>1. get.view.state # "none" => Recorded(get.build)'
    BY <1>3, RecordedStays
  <2>2. (get.view.state # "none" => Recorded(get.build))'
    BY <1>1, <2>1 DEF Recorded
  <2> QED BY <1>1, <2>2 DEF GetView
<1>5. GetFits'
  BY <1>1, GetFitStays DEF GetFits, ViewFits
<1>6. StillThere'
  <2>1. get.pc \in {"decrypt", "readCompose", "readFile"} => get.build \in Builds
    BY DEF GetShape, PageKinds
  <2>2. ASSUME get.pc = "decrypt" PROVE cred'[get.build] # "none" \/ get.build \in doomed'
    BY <2>1, <2>2, VanishesWithBuild DEF StillThere
  <2>3. ASSUME get.pc = "readCompose"
        PROVE  "compose" \in files'[get.build] \/ get.build \in doomed'
    BY <2>1, <2>3, VanishesWithBuild DEF StillThere
  <2>4. ASSUME get.pc = "readFile"
        PROVE  "notices" \in files'[get.build] \/ get.build \in doomed'
    BY <2>1, <2>4, VanishesWithBuild DEF StillThere
  <2>5. ASSUME get.pc = "rows", NEW b \in get.left PROVE cred'[b] # "none" \/ b \in doomed'
    <3>1. b \in Builds
      BY <2>5 DEF PageTypeOK, Gets
    <3> QED BY <2>5, <3>1, VanishesWithBuild DEF StillThere
  <2> QED BY <1>1, <2>2, <2>3, <2>4, <2>5 DEF StillThere
<1>7. FailuresFit'
  BY <1>1, DoomStep DEF FailuresFit
<1>8. TabFollows'
  <2>1. tab.shown.state \notin {"none", "login"} => tab.build \in Builds /\ Recorded(tab.build)'
    BY RecordedStays DEF TabFollows
  <2> QED BY <1>1, <2>1 DEF TabFollows, Recorded
<1>9. TabFits'
  BY <1>1, TabFitStays DEF TabFits, ViewFits
<1>10. SpinnerIsOfDeleted'
  BY <1>1, DoomStep DEF SpinnerIsOfDeleted
<1> QED BY <1>2, <1>4, <1>5, <1>6, <1>7, <1>8, <1>9, <1>10

-----------------------------------------------------------------------------
(* Steps of the server *)

(* A request that goes on keeps what it asked, and the tab waits. *)
Serves ==
  /\ UNCHANGED <<vars, tab, drops>>
  /\ get' \in Gets /\ get.pc # "idle" /\ get'.pc # "idle"
  /\ get'.kind = get.kind /\ get'.build = get.build

LEMMA ServingKeepsTab ==
  ASSUME PageInv, Serves
  PROVE  PageTypeOK' /\ TabFollows' /\ TabFits' /\ SpinnerIsOfDeleted'
<1>1. PageTypeOK'
  BY DEF PageInv, Serves, PageTypeOK
<1>2. TabFollows'
  BY DEF PageInv, Serves, TabFollows, Recorded
<1>3. TabFits'
  BY DEF PageInv, Serves, TabFits, ViewFits
<1>4. SpinnerIsOfDeleted'
  BY DEF PageInv, Serves, SpinnerIsOfDeleted
<1> QED BY <1>1, <1>2, <1>3, <1>4

(* The steps that only move on, and those that answer. *)
LEMMA GoFields ==
  ASSUME PageInv, NEW from \in GetSteps \ {"idle"}, NEW to \in GetSteps \ {"idle"},
         UNCHANGED <<vars, tab, drops>>, Go(from, to)
  PROVE  /\ Serves /\ get.pc = from /\ get'.pc = to
         /\ get'.answer = get.answer /\ get'.view = get.view /\ get'.left = get.left
<1>1. get \in Gets
  BY DEF PageInv, PageTypeOK
<1>2. get.pc = from /\ get' = [get EXCEPT !.pc = to]
  BY DEF Go
<1> QED BY <1>1, <1>2 DEF Gets, Serves

LEMMA AnswerFields ==
  ASSUME PageInv, NEW from \in GetSteps \ {"idle"}, NEW what \in Answers,
         UNCHANGED <<vars, tab, drops>>, Answer(from, what)
  PROVE  /\ Serves /\ get.pc = from /\ get'.pc = "answered" /\ get'.answer = what
         /\ get'.view = get.view /\ get'.left = get.left
<1>1. get \in Gets /\ "answered" \in GetSteps
  BY DEF PageInv, PageTypeOK, GetSteps
<1>2. get.pc = from /\ get' = [get EXCEPT !.pc = "answered", !.answer = what]
  BY DEF Answer
<1> QED BY <1>1, <1>2 DEF Gets, Serves

(* The read that fills a field of the view. *)
LEMMA ReadFields ==
  ASSUME PageInv, NEW from \in GetSteps \ {"idle"}, NEW to \in GetSteps \ {"idle"},
         NEW what \in Answers, NEW v \in Views, get.pc = from,
         UNCHANGED <<vars, tab, drops>>,
         get' = [get EXCEPT !.pc = to, !.answer = what, !.view = v]
  PROVE  /\ Serves /\ get'.pc = to /\ get'.answer = what /\ get'.view = v
         /\ get'.left = get.left
<1>1. get \in Gets
  BY DEF PageInv, PageTypeOK
<1> QED BY <1>1 DEF Gets, Serves

-----------------------------------------------------------------------------
(* Admission *)

LEMMA AdmitKeeps == ASSUME PageInv, Admit PROVE PageInv'
<1>1. /\ Serves /\ get.pc = "sent" /\ get'.view = get.view
      /\ \/ get'.pc = "queued" /\ get'.answer = get.answer
         \/ get'.pc = "answered" /\ get'.answer = "login"
  BY GoFields, AnswerFields DEF Admit, GetSteps, Answers
<1>2. (GetShape /\ GetView /\ GetFits /\ StillThere /\ FailuresFit)'
  BY <1>1 DEF PageInv, Serves, GetShape, GetView, GetFits, ViewFits, StillThere, FailuresFit,
     PageKinds, Recorded
<1> QED BY <1>1, <1>2, ServingKeepsTab DEF PageInv

LEMMA StartThreadKeeps == ASSUME PageInv, StartThread PROVE PageInv'
<1>0. get \in Gets /\ get.pc = "queued" /\ UNCHANGED <<vars, tab, drops>>
  BY DEF PageInv, PageTypeOK, StartThread
<1>1. /\ Serves /\ get'.view = get.view
      /\ \/ /\ get'.answer = get.answer
            /\ \/ get.kind \in PageKinds /\ get'.pc = "record"
               \/ get.kind = "credential" /\ get'.pc = "find"
               \/ get.kind = "notices" /\ get'.pc = "isFile"
               \/ /\ get.kind = "list" /\ get'.pc = "rows"
                  /\ get'.left = {b \in Builds : cred[b] # "none"}
         \/ get.kind = "list" /\ get'.pc = "answered" /\ get'.answer = "error"
  <2>1. CASE get.kind \in PageKinds
    <3>1. Go("queued", "record")
      BY <2>1 DEF StartThread, PageKinds, PageOrder
    <3> QED BY <1>0, <2>1, <3>1, GoFields DEF GetSteps
  <2>2. CASE get.kind = "credential"
    <3>1. Go("queued", "find")
      BY <2>2 DEF StartThread
    <3> QED BY <1>0, <2>2, <3>1, GoFields DEF GetSteps
  <2>3. CASE get.kind = "notices"
    <3>1. Go("queued", "isFile")
      BY <2>3 DEF StartThread
    <3> QED BY <1>0, <2>3, <3>1, GoFields DEF GetSteps
  <2>4. CASE get.kind = "list"
    <3>1. ListRows
      BY <2>4 DEF StartThread
    <3>2. CASE key \in {"filling", "empty"}
      <4>1. Answer("queued", "error")
        BY <3>1, <3>2 DEF ListRows
      <4> QED BY <1>0, <2>4, <4>1, AnswerFields DEF GetSteps, Answers
    <3>3. CASE key \notin {"filling", "empty"}
      <4>1. get' = [get EXCEPT !.pc = "rows", !.left = {b \in Builds : cred[b] # "none"}]
        BY <3>1, <3>3 DEF ListRows
      <4> QED BY <1>0, <2>4, <4>1 DEF Gets, GetSteps, Serves
    <3> QED BY <3>2, <3>3
  <2> QED BY <1>0, <2>1, <2>2, <2>3, <2>4 DEF Gets, Kinds, PageKinds
<1>2. (GetShape /\ GetView /\ GetFits /\ StillThere /\ FailuresFit)'
  BY <1>0, <1>1 DEF PageInv, Serves, GetShape, GetView, GetFits, ViewFits, StillThere,
     FailuresFit, PageKinds, Recorded
<1> QED BY <1>1, <1>2, ServingKeepsTab DEF PageInv

-----------------------------------------------------------------------------
(* The page: record, log, credential, compose file *)

LEMMA ReadRecordKeeps ==
  ASSUME ConsoleInv, PageInv, ReadRecord PROVE PageInv'
<1>0. get \in Gets /\ get.pc = "record" /\ get.view \in Views /\ status \in [Builds -> StatusRecords]
  BY DEF PageInv, PageTypeOK, ReadRecord, Gets, ConsoleInv, IInv, TypeOK
<1>1. get.build \in Builds /\ get.kind \in PageKinds /\ get.answer = "none"
  BY <1>0 DEF PageInv, GetShape, PageKinds
<1>2. CASE status[get.build].state = "none"
  <2>1. /\ Serves /\ get'.view = get.view /\ get'.pc = "answered"
        /\ get'.answer = "notFound"
    BY <1>2, AnswerFields DEF ReadRecord, GetSteps, Answers
  <2>3. get.kind = "poll" => get.build \in doomed
    BY <1>0, <1>1, <1>2 DEF PageInv, TabFollows, PageKinds, Recorded
  <2>2. (GetShape /\ GetView /\ GetFits /\ StillThere /\ FailuresFit)'
    BY <1>0, <1>1, <1>2, <2>1, <2>3 DEF PageInv, Serves, GetShape, GetView, GetFits, ViewFits,
       StillThere, FailuresFit, PageKinds, Recorded
  <2> QED BY <2>1, <2>2, ServingKeepsTab DEF PageInv
<1>3. CASE status[get.build].state # "none"
  <2> DEFINE v == [get.view EXCEPT !.state = status[get.build].state]
  <2>1. status[get.build].state \in {"running"} \cup Terminal
    BY <1>0, <1>1, <1>3 DEF StatusRecords
  <2>2. /\ v \in Views /\ v.state = status[get.build].state
        /\ v.compose = get.view.compose
    BY <1>0, <2>1 DEF Views
  <2>3. get' = [get EXCEPT !.pc = "log", !.answer = "none", !.view = v]
    BY <1>0, <1>1, <1>3, ReadOrder DEF ReadRecord, Gets
  <2>4. Recorded(get.build)
    BY <1>3 DEF Recorded
  <2> HIDE DEF v
  <2>5. Serves /\ get'.view = v /\ get'.pc = "log" /\ get'.answer = "none"
    <3>1. UNCHANGED <<vars, tab, drops>>
      BY DEF ReadRecord
    <3>2. v \in Views
      BY <2>2
    <3> QED BY <1>0, <2>3, <3>1, <3>2, ReadFields DEF GetSteps, Answers
  <2>6. (GetShape /\ GetView /\ GetFits /\ StillThere /\ FailuresFit)'
    BY <1>0, <1>1, <1>3, <2>1, <2>2, <2>4, <2>5 DEF PageInv, Serves, GetShape, GetView,
       GetFits, ViewFits, StillThere, FailuresFit, PageKinds, Recorded
  <2> QED BY <2>5, <2>6, ServingKeepsTab DEF PageInv
<1> QED BY <1>2, <1>3

LEMMA ReadLogKeeps == ASSUME ConsoleInv, PageInv, ReadLog PROVE PageInv'
<1> DEFINE v == [get.view EXCEPT !.whole = LogWhole(get.build)]
<1>0. get \in Gets /\ get.pc = "log" /\ get.view \in Views
  BY DEF PageInv, PageTypeOK, ReadLog, Gets
<1>1. get.build \in Builds /\ get.kind \in PageKinds /\ get.answer = "none"
  BY <1>0 DEF PageInv, GetShape, PageKinds
<1>2. LogWhole(get.build) \in BOOLEAN
  BY <1>1 DEF LogWhole, ConsoleInv, IInv, TypeOK
<1>3. /\ v \in Views /\ v.state = get.view.state /\ v.compose = get.view.compose
      /\ v.whole = LogWhole(get.build)
  BY <1>0, <1>2 DEF Views
<1>4. get' = [get EXCEPT !.pc = "find", !.answer = "none", !.view = v]
  BY <1>0, <1>1, ReadOrder DEF ReadLog, Gets
<1>5. ASSUME v.state \in Terminal, get.build \notin doomed
      PROVE  v.whole = ("log" \in files[get.build]) /\ (v.state # "interrupted" => v.whole)
  <2>1. v.state = status[get.build].state
    BY <1>3, <1>5 DEF PageInv, GetFits, ViewFits
  <2>2. /\ pc[get.build] = "over"
        /\ v.state # "interrupted" => "log" \in files[get.build]
    BY <1>1, <1>5, <2>1, EndedHasAll
  <2>3. v.whole = ("log" \in files[get.build])
    BY <1>3, <2>2 DEF LogWhole
  <2> QED BY <2>2, <2>3
<1> HIDE DEF v
<1>6. Serves /\ get'.view = v /\ get'.pc = "find" /\ get'.answer = "none"
  <2>1. UNCHANGED <<vars, tab, drops>>
    BY DEF ReadLog
  <2>2. v \in Views
    BY <1>3
  <2> QED BY <1>0, <1>4, <2>1, <2>2, ReadFields DEF GetSteps, Answers
<1>7. (GetShape /\ GetView /\ GetFits /\ StillThere /\ FailuresFit)'
  BY <1>0, <1>1, <1>3, <1>5, <1>6 DEF PageInv, Serves, GetShape, GetView, GetFits, ViewFits,
     StillThere, FailuresFit, PageKinds, Recorded
<1> QED BY <1>6, <1>7, ServingKeepsTab DEF PageInv

(* Without a readable credential the build, if it is still there, did not
   end on its own. *)
LEMMA WithoutCredentialKeeps ==
  ASSUME ConsoleInv, PageInv, NEW from \in {"find", "decrypt"}, cred[get.build] \notin Readable,
         WithoutCredential(from), UNCHANGED <<vars, tab, drops>>
  PROVE  PageInv'
<1>0. get \in Gets /\ get.view \in Views
  BY DEF PageInv, PageTypeOK, Gets
<1>1. /\ Serves /\ get.pc = from /\ get'.view = get.view
      /\ \/ get.kind = "credential" /\ get'.pc = "answered" /\ get'.answer = "notFound"
         \/ get.kind # "credential" /\ get'.pc = "findCompose" /\ get'.answer = get.answer
  BY GoFields, AnswerFields DEF WithoutCredential, GetSteps, Answers
<1>2. get.build \in Builds
  BY <1>1 DEF PageInv, GetShape, PageKinds
<1>3. ASSUME get.build \notin doomed
      PROVE  /\ get.view.state # "succeeded"
             /\ ~DiskMayFail => get.view.state # "failed"
  BY <1>2, <1>3, EndedHasAll DEF PageInv, GetFits, ViewFits
<1>4. (GetShape /\ GetView /\ GetFits /\ StillThere /\ FailuresFit)'
  BY <1>0, <1>1, <1>2, <1>3 DEF PageInv, Serves, GetShape, GetView, GetFits, ViewFits,
     StillThere, FailuresFit, PageKinds, Recorded
<1> QED BY <1>1, <1>4, ServingKeepsTab DEF PageInv

LEMMA FindCredentialKeeps == ASSUME ConsoleInv, PageInv, FindCredential PROVE PageInv'
<1>1. CASE cred[get.build] = "none"
  BY <1>1, WithoutCredentialKeeps DEF FindCredential
<1>2. CASE cred[get.build] # "none"
  <2>1. /\ Serves /\ get.pc = "find" /\ get'.view = get.view /\ get'.pc = "decrypt"
        /\ get'.answer = get.answer
    BY <1>2, GoFields DEF FindCredential, GetSteps
  <2>2. (GetShape /\ GetView /\ GetFits /\ StillThere /\ FailuresFit)'
    BY <1>2, <2>1 DEF PageInv, Serves, GetShape, GetView, GetFits, ViewFits, StillThere,
       FailuresFit, PageKinds, Recorded
  <2> QED BY <2>1, <2>2, ServingKeepsTab DEF PageInv
<1> QED BY <1>1, <1>2

LEMMA DecryptKeeps == ASSUME ConsoleInv, PageInv, Decrypt PROVE PageInv'
<1>0. /\ get \in Gets /\ get.pc = "decrypt" /\ get.view \in Views
      /\ get.kind \in PageKinds \cup {"credential"}
      /\ get.build \in Builds /\ get.answer = "none"
  BY DEF PageInv, PageTypeOK, Decrypt, Gets, GetShape, PageKinds
<1>1. CASE key # "whole" \/ cred[get.build] = "none"
  <2>1. Answer("decrypt", "error") /\ UNCHANGED <<vars, tab, drops>>
    BY <1>1 DEF Decrypt
  <2>2. Serves /\ get'.view = get.view /\ get'.pc = "answered" /\ get'.answer = "error"
    BY <2>1, AnswerFields DEF GetSteps, Answers
  <2>3. get.build \in doomed
    BY <1>0, <1>1 DEF PageInv, StillThere, ConsoleInv, IInv, KeyOrder
  <2>4. (GetShape /\ GetView /\ GetFits /\ StillThere /\ FailuresFit)'
    BY <1>0, <2>2, <2>3 DEF PageInv, Serves, GetShape, GetView, GetFits, ViewFits,
       StillThere, FailuresFit, PageKinds, Recorded
  <2> QED BY <2>2, <2>4, ServingKeepsTab DEF PageInv
<1>2. CASE key = "whole" /\ cred[get.build] = "torn"
  BY <1>2, WithoutCredentialKeeps DEF Decrypt
<1>3. CASE key = "whole" /\ cred[get.build] \notin {"none", "torn"}
  <2> DEFINE v == [get.view EXCEPT !.cred = cred[get.build]]
  <2>1. cred[get.build] \in Readable
    BY <1>0, <1>3 DEF ConsoleInv, IInv, TypeOK
  <2>2. /\ v \in Views /\ v.state = get.view.state /\ v.compose = get.view.compose
        /\ v.whole = get.view.whole /\ v.cred = cred[get.build]
    BY <1>0, <2>1 DEF Views
  <2>3. get' = [get EXCEPT !.pc = "findCompose", !.answer = "none", !.view = v]
    BY <1>0, <1>3 DEF Decrypt, Gets
  <2>4. ASSUME v.state = "succeeded", get.build \notin doomed PROVE v.cred = "ok"
    <3>1. status[get.build].state = "succeeded"
      BY <2>2, <2>4 DEF PageInv, GetFits, ViewFits
    <3> QED BY <1>0, <2>2, <2>4, <3>1, EndedHasAll
  <2>5. v.cred # "none"
    BY <2>1, <2>2
  <2> HIDE DEF v
  <2>6. Serves /\ get'.view = v /\ get'.pc = "findCompose" /\ get'.answer = "none"
    <3>1. UNCHANGED <<vars, tab, drops>>
      BY DEF Decrypt
    <3>2. v \in Views
      BY <2>2
    <3> QED BY <1>0, <2>3, <3>1, <3>2, ReadFields DEF GetSteps, Answers
  <2>7. (GetShape /\ GetView /\ GetFits /\ StillThere /\ FailuresFit)'
    BY <1>0, <2>2, <2>4, <2>5, <2>6 DEF PageInv, Serves, GetShape, GetView, GetFits, ViewFits,
       StillThere, FailuresFit, PageKinds, Recorded
  <2> QED BY <2>6, <2>7, ServingKeepsTab DEF PageInv
<1> QED BY <1>1, <1>2, <1>3

LEMMA FindComposeKeeps == ASSUME ConsoleInv, PageInv, FindCompose PROVE PageInv'
<1>0. /\ get.pc = "findCompose" /\ get.kind \in PageKinds \cup {"credential"}
      /\ get.build \in Builds /\ get.view \in Views
  BY DEF PageInv, PageTypeOK, FindCompose, Gets, GetShape, PageKinds
<1>1. /\ Serves /\ get'.view = get.view
      /\ \/ /\ get'.pc = "readCompose" /\ get'.answer = get.answer
            /\ "compose" \in files[get.build]
         \/ /\ get'.pc = "answered" /\ get'.answer = "ok"
            /\ "compose" \notin files[get.build]
  BY GoFields, AnswerFields DEF FindCompose, GetSteps, Answers
<1>2. ASSUME get.view.state = "succeeded", get.build \notin doomed
      PROVE  "compose" \in files[get.build] <=> get.build \in Composed
  BY <1>0, <1>2, EndedHasAll DEF PageInv, GetFits, ViewFits
<1>3. get.view.compose = FALSE
  BY <1>0 DEF PageInv, GetView, Views
<1>4. ASSUME get.view.state = "succeeded", get.build \notin doomed,
             "compose" \notin files[get.build]
      PROVE  get.view.compose = (get.build \in Composed)
  <2>1. (get.build \in Composed) = FALSE
    BY <1>2, <1>4
  <2> QED BY <1>3, <2>1, Zenon
<1>5. GetFits'
  <2>1. CASE get'.pc = "readCompose"
    BY <1>0, <1>1, <2>1 DEF PageInv, Serves, GetFits, ViewFits, GetShape
  <2>2. CASE get'.pc = "answered"
    BY <1>0, <1>1, <1>4, <2>2 DEF PageInv, Serves, GetFits, ViewFits
  <2> QED BY <1>1, <2>1, <2>2
<1>6. (GetShape /\ GetView /\ StillThere /\ FailuresFit)'
  BY <1>0, <1>1 DEF PageInv, Serves, GetShape, GetView, StillThere, FailuresFit, PageKinds,
     Recorded
<1> QED BY <1>1, <1>5, <1>6, ServingKeepsTab DEF PageInv

LEMMA ReadComposeKeeps == ASSUME ConsoleInv, PageInv, ReadCompose PROVE PageInv'
<1>0. /\ get \in Gets /\ get.pc = "readCompose" /\ get.kind \in PageKinds \cup {"credential"}
      /\ get.build \in Builds /\ get.view \in Views
  BY DEF PageInv, PageTypeOK, ReadCompose, Gets, GetShape, PageKinds
<1>1. CASE "compose" \notin files[get.build]
  <2>1. Serves /\ get'.view = get.view /\ get'.pc = "answered" /\ get'.answer = "error"
    BY <1>1, AnswerFields DEF ReadCompose, GetSteps, Answers
  <2>2. get.build \in doomed
    BY <1>0, <1>1 DEF PageInv, StillThere
  <2>3. (GetShape /\ GetView /\ GetFits /\ StillThere /\ FailuresFit)'
    BY <1>0, <2>1, <2>2 DEF PageInv, Serves, GetShape, GetView, GetFits, ViewFits,
       StillThere, FailuresFit, PageKinds, Recorded
  <2> QED BY <2>1, <2>3, ServingKeepsTab DEF PageInv
<1>2. CASE "compose" \in files[get.build]
  <2> DEFINE v == [get.view EXCEPT !.compose = TRUE]
  <2>1. /\ v \in Views /\ v.state = get.view.state /\ v.compose = TRUE
        /\ v.whole = get.view.whole /\ v.cred = get.view.cred
    BY <1>0 DEF Views
  <2>2. get' = [get EXCEPT !.pc = "answered", !.answer = "ok", !.view = v]
    BY <1>0, <1>2 DEF ReadCompose, Gets
  <2>3. get.build \in Composed
    BY <1>0, <1>2 DEF ConsoleInv, FilesAreDelivered
  <2> HIDE DEF v
  <2>4. Serves /\ get'.view = v /\ get'.pc = "answered" /\ get'.answer = "ok"
    <3>1. UNCHANGED <<vars, tab, drops>>
      BY DEF ReadCompose
    <3>2. v \in Views
      BY <2>1
    <3> QED BY <1>0, <2>2, <3>1, <3>2, ReadFields DEF GetSteps, Answers
  <2>5. (GetShape /\ GetView /\ GetFits /\ StillThere /\ FailuresFit)'
    BY <1>0, <2>1, <2>3, <2>4 DEF PageInv, Serves, GetShape, GetView, GetFits, ViewFits,
       StillThere, FailuresFit, PageKinds, Recorded
  <2> QED BY <2>4, <2>5, ServingKeepsTab DEF PageInv
<1> QED BY <1>1, <1>2

-----------------------------------------------------------------------------
(* The downloads and the listing *)

LEMMA FileKeeps == ASSUME ConsoleInv, PageInv, FindFile \/ ReadFile PROVE PageInv'
<1>0. get.pc \in {"isFile", "readFile"}
  BY DEF FindFile, ReadFile
<1>1. get.kind = "notices" /\ get.build \in Builds /\ get.answer = "none"
  BY <1>0 DEF PageInv, GetShape
<1>2. CASE FindFile
  <2>1. /\ Serves /\ get'.view = get.view
        /\ \/ get'.pc = "readFile" /\ get'.answer = get.answer /\ "notices" \in files[get.build]
           \/ get'.pc = "answered" /\ get'.answer = "notFound"
    BY <1>2, GoFields, AnswerFields DEF FindFile, GetSteps, Answers
  <2>3. (GetShape /\ GetView /\ GetFits /\ StillThere /\ FailuresFit)'
    BY <1>0, <1>1, <2>1 DEF PageInv, Serves, GetShape, GetView, GetFits, ViewFits,
       StillThere, FailuresFit, PageKinds, Recorded
  <2> QED BY <2>1, <2>3, ServingKeepsTab DEF PageInv
<1>3. CASE ReadFile
  <2>1. /\ Serves /\ get'.view = get.view /\ get'.pc = "answered" /\ get.pc = "readFile"
        /\ get'.answer \in {"ok", "error"}
        /\ get'.answer = "error" => "notices" \notin files[get.build]
    BY <1>3, AnswerFields DEF ReadFile, GetSteps, Answers
  <2>2. "notices" \notin files[get.build] => get.build \in doomed
    BY <2>1 DEF PageInv, StillThere
  <2>3. get.view.state = "none"
    BY <1>1 DEF PageInv, GetView, PageKinds
  <2>4. (GetShape /\ GetView /\ GetFits /\ StillThere /\ FailuresFit)'
    BY <1>0, <1>1, <2>1, <2>2, <2>3 DEF PageInv, Serves, GetShape, GetView, GetFits,
       ViewFits, StillThere, FailuresFit, PageKinds, Recorded
  <2> QED BY <2>1, <2>4, ServingKeepsTab DEF PageInv
<1> QED BY <1>2, <1>3

(* A listing has no view to fit, only names it goes through. *)
LEMMA ListKeeps ==
  ASSUME PageInv, Serves, get.kind = "list", get'.view = get.view,
         \/ get'.pc \in {"rows", "states"} /\ get'.answer = get.answer
         \/ get'.pc = "answered" /\ get'.answer \in {"ok", "error"},
         get'.pc = "rows" => get.pc = "rows" /\ get'.left \subseteq get.left,
         get.pc \in {"rows", "states"}
  PROVE  PageInv'
<1>1. get.view.state = "none"
  BY DEF PageInv, GetView, PageKinds
<1>2. (GetShape /\ GetView /\ GetFits /\ FailuresFit)'
  BY <1>1 DEF PageInv, Serves, GetShape, GetView, GetFits, ViewFits, FailuresFit, PageKinds,
     Recorded
<1>3. StillThere'
  BY DEF PageInv, Serves, StillThere
<1> QED BY <1>2, <1>3, ServingKeepsTab DEF PageInv

LEMMA RowKeeps ==
  ASSUME ConsoleInv, PageInv, NEW b \in Builds, ReadRow(b) \/ ReadState(b) PROVE PageInv'
<1>0. /\ get \in Gets /\ get.pc \in {"rows", "states"} /\ b \in get.left
      /\ UNCHANGED <<vars, tab, drops>>
  BY DEF PageInv, PageTypeOK, ReadRow, ReadState
<1>1. get.kind = "list" /\ get.answer = "none" /\ get.badge \in [Builds -> Badges]
  BY <1>0 DEF PageInv, GetShape, Gets
<1>2. ASSUME NEW badges \in [Builds -> Badges],
             get' = [get EXCEPT !.left = @ \ {b}, !.badge = badges]
      PROVE  PageInv'
  <2>1. /\ Serves /\ get'.view = get.view /\ get'.answer = get.answer /\ get'.pc = get.pc
        /\ get'.left \subseteq get.left
    BY <1>0, <1>2 DEF Gets, Serves
  <2> QED BY <1>0, <1>1, <2>1, ListKeeps
<1>3. CASE ReadRow(b)
  <2>1. get.pc = "rows"
    BY <1>3 DEF ReadRow
  <2>2. CASE cred[b] = "none"
    <3>1. /\ Serves /\ get'.view = get.view /\ get'.pc = "answered" /\ get'.answer = "error"
          /\ get'.left = get.left
      BY <1>3, <2>2, AnswerFields DEF ReadRow, GetSteps, Answers
    <3> QED BY <1>0, <1>1, <2>1, <2>2, <3>1, ListKeeps
  <2>3. CASE cred[b] = "torn"
    <3>1. get' = [get EXCEPT !.left = @ \ {b}, !.badge = get.badge]
      BY <1>0, <1>3, <2>3 DEF ReadRow, Gets
    <3> QED BY <1>1, <1>2, <3>1
  <2>4. CASE cred[b] \notin {"none", "torn"}
    <3> DEFINE badges == [get.badge EXCEPT ![b] = cred[b]]
    <3>1. cred[b] \in Readable
      BY <2>4 DEF ConsoleInv, IInv, TypeOK
    <3>2. badges \in [Builds -> Badges]
      BY <1>1, <3>1 DEF Badges
    <3>3. get' = [get EXCEPT !.left = @ \ {b}, !.badge = badges]
      BY <1>0, <1>3, <2>4 DEF ReadRow, Gets
    <3> HIDE DEF badges
    <3> QED BY <1>2, <3>2, <3>3
  <2> QED BY <2>2, <2>3, <2>4
<1>4. CASE ReadState(b)
  <2> DEFINE badge == IF status[b].state = "none" THEN get.badge[b] ELSE status[b].state
             badges == [get.badge EXCEPT ![b] = badge]
  <2>1. status[b].state \in {"none", "running"} \cup Terminal
    BY DEF ConsoleInv, IInv, TypeOK, StatusRecords
  <2>2. badges \in [Builds -> Badges]
    BY <1>1, <2>1 DEF Badges
  <2>3. get' = [get EXCEPT !.left = @ \ {b}, !.badge = badges]
    BY <1>0, <1>1, <1>4 DEF ReadState, Gets
  <2> HIDE DEF badges
  <2> QED BY <1>2, <2>2, <2>3
<1> QED BY <1>3, <1>4

LEMMA RowsKeep == ASSUME PageInv, RowsRead \/ StatesRead PROVE PageInv'
<1>0. get \in Gets
  BY DEF PageInv, PageTypeOK
<1>1. CASE RowsRead
  <2>1. get.kind = "list" /\ get.pc = "rows"
    BY <1>1 DEF RowsRead, PageInv, GetShape
  <2>2. /\ Serves /\ get'.view = get.view /\ get'.pc = "states" /\ get'.answer = get.answer
    BY <1>0, <1>1 DEF RowsRead, Gets, GetSteps, Serves
  <2>3. get'.answer = "none"
    BY <2>1, <2>2 DEF PageInv, GetShape
  <2> QED BY <2>1, <2>2, <2>3, ListKeeps
<1>2. CASE StatesRead
  <2>1. /\ Serves /\ get'.view = get.view /\ get'.pc = "answered" /\ get'.answer = "ok"
        /\ get.pc = "states"
    BY <1>2, AnswerFields DEF StatesRead, GetSteps, Answers
  <2>2. get.kind = "list"
    BY <2>1 DEF PageInv, GetShape
  <2> QED BY <2>1, <2>2, ListKeeps
<1> QED BY <1>1, <1>2

LEMMA HandlerKeeps == ASSUME ConsoleInv, PageInv, Handler PROVE PageInv'
BY AdmitKeeps, StartThreadKeeps, ReadRecordKeeps, ReadLogKeeps, FindCredentialKeeps,
   DecryptKeeps, FindComposeKeeps, ReadComposeKeeps, FileKeeps, RowKeeps, RowsKeep DEF Handler

-----------------------------------------------------------------------------
(* The answer arrives, or does not *)

(* With the request over, only the tab is left to judge. *)
LEMMA RequestOver ==
  ASSUME get' = NoGet
  PROVE  (GetShape /\ GetView /\ GetFits /\ StillThere /\ FailuresFit)'
BY ViewTypes DEF GetShape, GetView, GetFits, ViewFits, StillThere, FailuresFit, PageKinds

LEMMA ShowFields ==
  ASSUME PageTypeOK, NEW view \in Views
  PROVE  /\ Show(view) \in Tabs /\ Show(view).build = tab.build
         /\ Show(view).shown = view
         /\ view.state = "running" => Show(view).watch = "waiting"
         /\ view.state # "running" => Show(view).watch = "off"
<1>1. tab \in Tabs
  BY DEF PageTypeOK
<1> QED BY <1>1 DEF Show, PollsOn, Tabs, Watches

LEMMA DeliverKeeps == ASSUME ConsoleInv, PageInv, Deliver PROVE PageInv'
<1>0. /\ get \in Gets /\ tab \in Tabs /\ get.view \in Views /\ get.pc = "answered"
      /\ get.answer \in {"ok", "notFound", "error", "login"}
  BY DEF PageInv, PageTypeOK, Deliver, Gets, GetShape, Answers
<1>1. get' = NoGet /\ tab' = TabAfter /\ UNCHANGED <<vars, drops>>
  BY DEF Deliver
<1>2. (GetShape /\ GetView /\ GetFits /\ StillThere /\ FailuresFit)'
  BY <1>1, RequestOver
<1>3. ASSUME tab' \in Tabs,
             tab'.watch # "polling",
             tab'.watch # "off" => tab'.shown.state = "running",
             tab'.shown.state \notin {"none", "login"} =>
               tab'.build \in Builds /\ Recorded(tab'.build),
             ViewFits(tab'.build, tab'.shown, TRUE, TRUE, TRUE),
             tab'.watch = "off" /\ tab'.shown.state = "running" => tab'.build \in doomed
      PROVE  PageInv'
  <2>1. PageTypeOK'
    BY <1>1, <1>3, ViewTypes DEF PageInv, PageTypeOK
  <2>2. (TabFollows /\ TabFits /\ SpinnerIsOfDeleted)'
    BY <1>1, <1>3, ViewTypes DEF TabFollows, TabFits, ViewFits, SpinnerIsOfDeleted, Recorded
  <2> QED BY <1>2, <2>1, <2>2 DEF PageInv
<1>4. CASE get.kind \notin PageKinds
  <2>1. tab' = tab
    BY <1>1, <1>4 DEF TabAfter, PageKinds
  <2>2. tab.watch # "polling"
    BY <1>4 DEF PageInv, TabFollows, PageKinds
  <2> QED BY <1>0, <1>3, <2>1, <2>2 DEF PageInv, TabFollows, TabFits, SpinnerIsOfDeleted
<1>5. CASE get.kind \in PageKinds /\ get.answer = "ok"
  <2>1. tab' = Show(get.view)
    BY <1>1, <1>5 DEF TabAfter, PageKinds
  <2>2. tab.build = get.build /\ get.build \in Builds
    BY <1>0, <1>5 DEF PageInv, TabFollows, GetShape, PageKinds
  <2>3. ViewFits(get.build, get.view, TRUE, TRUE, TRUE)
    BY <1>0, <1>5 DEF PageInv, GetFits, ViewFits
  <2>4. get.view.state # "none" => Recorded(get.build)
    BY DEF PageInv, GetView
  <2>5. /\ tab' \in Tabs /\ tab'.build = get.build /\ tab'.shown = get.view
        /\ tab'.watch # "off" <=> get.view.state = "running"
        /\ tab'.watch # "polling"
    BY <1>0, <2>1, <2>2, ShowFields DEF PageInv
  <2> QED BY <1>3, <2>2, <2>3, <2>4, <2>5
<1>6. CASE get.kind = "poll" /\ get.answer = "login"
  <2>1. tab' = Show(LoginForm)
    BY <1>1, <1>6 DEF TabAfter
  <2>2. /\ tab' \in Tabs /\ tab'.shown = LoginForm /\ tab'.watch = "off"
    BY <2>1, ShowFields, ViewTypes DEF PageInv
  <2>3. ViewFits(tab'.build, tab'.shown, TRUE, TRUE, TRUE)
    BY <2>2, ViewTypes DEF ViewFits
  <2> QED BY <1>3, <2>2, <2>3, ViewTypes
<1>7. CASE get.kind = "poll" /\ get.answer \in {"notFound", "error"}
  <2>1. tab' = [tab EXCEPT !.watch = "off"]
    BY <1>1, <1>7 DEF TabAfter
  <2>2. /\ tab' \in Tabs /\ tab'.build = tab.build /\ tab'.shown = tab.shown
        /\ tab'.watch = "off"
    BY <1>0, <2>1 DEF Tabs, Watches
  <2>3. tab.build = get.build /\ get.build \in Builds
    BY <1>0, <1>7 DEF PageInv, TabFollows, GetShape, PageKinds
  <2>4. get.build \in doomed
    BY <1>7 DEF PageInv, FailuresFit
  <2>5. /\ tab.shown.state \notin {"none", "login"} => Recorded(tab.build)
        /\ ViewFits(tab.build, tab.shown, TRUE, TRUE, TRUE)
    BY DEF PageInv, TabFollows, TabFits
  <2> QED BY <1>3, <2>2, <2>3, <2>4, <2>5
<1>8. CASE get.kind = "page" /\ get.answer # "ok"
  <2>1. tab' = Blank
    BY <1>1, <1>8 DEF TabAfter
  <2>2. ViewFits(tab'.build, tab'.shown, TRUE, TRUE, TRUE)
    BY <2>1, ViewTypes DEF ViewFits
  <2> QED BY <1>3, <2>1, <2>2, ViewTypes
<1> QED BY <1>0, <1>4, <1>5, <1>6, <1>7, <1>8 DEF PageKinds

LEMMA DropKeeps == ASSUME ConsoleInv, PageInv, DropAnswer PROVE PageInv'
<1>1. Lose /\ get.pc # "idle" /\ UNCHANGED vars /\ drops' \in 0..MaxDrops
  BY DEF DropAnswer, PageInv, PageTypeOK
<1> QED BY <1>1, LoseKeeps

-----------------------------------------------------------------------------
(* The browser *)

LEMMA AskFields ==
  ASSUME NEW kind \in Kinds, NEW b \in Builds \cup {None}, Ask(kind, b)
  PROVE  /\ get.pc = "idle" /\ get' \in Gets /\ get'.pc = "sent" /\ get'.kind = kind
         /\ get'.build = b /\ get'.view = NoView /\ get'.answer = "none"
<1>1. get.pc = "idle" /\ get' = [NoGet EXCEPT !.kind = kind, !.build = b, !.pc = "sent"]
  BY DEF Ask
<1>2. NoGet \in Gets /\ NoGet.view = NoView /\ NoGet.answer = "none"
  BY ViewTypes
<1> QED BY <1>1, <1>2 DEF Gets, GetSteps

(* A request just sent has read nothing. *)
LEMMA RequestSent ==
  ASSUME NEW kind \in Kinds, NEW b \in Builds \cup {None}, Ask(kind, b),
         kind # "list" => b \in Builds
  PROVE  (GetShape /\ GetView /\ GetFits /\ StillThere /\ FailuresFit)'
BY AskFields, ViewTypes DEF GetShape, GetView, GetFits, ViewFits, StillThere, FailuresFit

LEMMA BrowserKeeps ==
  ASSUME PageInv, \/ OpenOther \/ SendPoll \/ \E b \in Builds : OpenPage(b)
  PROVE  PageInv'
<1>1. ASSUME NEW b \in Builds, OpenPage(b) PROVE PageInv'
  <2> DEFINE t == [Blank EXCEPT !.build = b]
  <2>1. t \in Tabs /\ t.build = b /\ t.shown = NoView /\ t.watch = "off"
    BY ViewTypes DEF Tabs, Watches
  <2>2. tab' = t /\ Ask("page", b) /\ UNCHANGED <<vars, drops>>
    BY <1>1 DEF OpenPage
  <2> HIDE DEF t
  <2>3. /\ get' \in Gets /\ get'.kind = "page" /\ get'.build = b
        /\ (GetShape /\ GetView /\ GetFits /\ StillThere /\ FailuresFit)'
    BY <2>2, AskFields, RequestSent DEF Kinds
  <2>4. PageTypeOK'
    BY <2>1, <2>2, <2>3 DEF PageInv, PageTypeOK
  <2>5. (TabFollows /\ TabFits /\ SpinnerIsOfDeleted)'
    BY <2>1, <2>2, <2>3, ViewTypes DEF TabFollows, TabFits, ViewFits, SpinnerIsOfDeleted
  <2> QED BY <2>3, <2>4, <2>5 DEF PageInv
<1>2. CASE OpenOther
  <2>1. PICK kind \in {"list", "credential", "notices"}, b \in Builds \cup {None} :
          Ask(kind, b) /\ (kind # "list" => b \in Builds)
    BY <1>2 DEF OpenOther
  <2>2. UNCHANGED <<vars, tab, drops>> /\ kind \in Kinds /\ kind \notin PageKinds
    BY <1>2 DEF OpenOther, Kinds, PageKinds
  <2>3. /\ get' \in Gets /\ get'.kind = kind /\ get.pc = "idle"
        /\ (GetShape /\ GetView /\ GetFits /\ StillThere /\ FailuresFit)'
    BY <2>1, <2>2, AskFields, RequestSent
  <2>4. get.kind # "poll"
    BY <2>3, ViewTypes DEF PageInv, GetShape
  <2>5. PageTypeOK'
    BY <2>2, <2>3 DEF PageInv, PageTypeOK
  <2>6. (TabFollows /\ TabFits /\ SpinnerIsOfDeleted)'
    BY <2>2, <2>3, <2>4 DEF PageInv, TabFollows, TabFits, ViewFits, SpinnerIsOfDeleted,
       PageKinds, Recorded
  <2> QED BY <2>3, <2>5, <2>6 DEF PageInv
<1>3. CASE SendPoll
  <2>1. /\ tab.watch = "waiting" /\ Ask("poll", tab.build)
        /\ tab' = [tab EXCEPT !.watch = "polling"] /\ UNCHANGED <<vars, drops>>
    BY <1>3 DEF SendPoll
  <2>2. tab \in Tabs /\ tab.build \in Builds /\ tab.shown.state = "running"
    BY <2>1 DEF PageInv, PageTypeOK, TabFollows
  <2>3. /\ tab' \in Tabs /\ tab'.build = tab.build /\ tab'.shown = tab.shown
        /\ tab'.watch = "polling"
    BY <2>1, <2>2 DEF Tabs, Watches
  <2>4. /\ get' \in Gets /\ get'.kind = "poll" /\ get'.build = tab.build
        /\ (GetShape /\ GetView /\ GetFits /\ StillThere /\ FailuresFit)'
    BY <2>1, <2>2, AskFields, RequestSent DEF Kinds
  <2>5. PageTypeOK'
    BY <2>1, <2>3, <2>4 DEF PageInv, PageTypeOK
  <2>6. (TabFollows /\ TabFits /\ SpinnerIsOfDeleted)'
    BY <2>1, <2>2, <2>3, <2>4 DEF PageInv, TabFollows, TabFits, ViewFits,
       SpinnerIsOfDeleted, PageKinds, Recorded
  <2> QED BY <2>4, <2>5, <2>6 DEF PageInv
<1> QED BY <1>1, <1>2, <1>3

-----------------------------------------------------------------------------
(* Theorems *)

LEMMA NextConsoleInv == ConsoleInv /\ [Next]_vars => ConsoleInv'
BY NextIInv, RecordIsKeptStep, FilesAreDeliveredStep, FailureHasPasswordStep DEF ConsoleInv

LEMMA NextPageInv == ConsoleInv /\ PageInv /\ [PageNext]_allVars => PageInv'
<1> SUFFICES ASSUME ConsoleInv, PageInv, [PageNext]_allVars PROVE PageInv'
  OBVIOUS
<1>1. [Next]_vars
  BY PageStepsConsole
<1>2. CASE UNCHANGED allVars
  BY <1>1, <1>2, ConsoleKeeps
<1>3. CASE Console
  <2>1. CASE Lose /\ get.pc # "idle"
    <3>1. drops' \in 0..MaxDrops
      BY <1>3 DEF Console, PageInv, PageTypeOK
    <3> QED BY <1>1, <2>1, <3>1, LoseKeeps
  <2>2. CASE UNCHANGED pageVars
    BY <1>1, <2>2, ConsoleKeeps
  <2> QED BY <1>3, <2>1, <2>2 DEF Console
<1>4. CASE Handler \/ Deliver \/ DropAnswer
  BY <1>4, HandlerKeeps, DeliverKeeps, DropKeeps
<1>5. CASE \/ OpenOther \/ SendPoll \/ \E b \in Builds : OpenPage(b)
  BY <1>5, BrowserKeeps
<1> QED BY <1>2, <1>3, <1>4, <1>5 DEF PageNext

(* What holds of the console, the request and the tab at every step. *)
THEOREM PageInvariance == PageSpec => [](ConsoleInv /\ PageInv)
<1>1. PageInit => ConsoleInv /\ PageInv
  <2>1. Init => RecordIsKept /\ FilesAreDelivered /\ FailureHasPassword
    BY DEF Init, RecordIsKept, FilesAreDelivered, FailureHasPassword, NoStatus
  <2> QED BY <2>1, InitIInv, InitPageInv DEF PageInit, ConsoleInv
<1>2. ConsoleInv /\ PageInv /\ [PageNext]_allVars => (ConsoleInv /\ PageInv)'
  BY PageStepsConsole, NextConsoleInv, NextPageInv
<1> QED BY <1>1, <1>2, PTL DEF PageSpec

(* Every variable of a page and its request keeps its type. *)
THEOREM PageTypeCorrect == PageSpec => []PageTypeOK
<1>1. PageInv => PageTypeOK
  BY DEF PageInv
<1> QED BY <1>1, PageInvariance, PTL

(* Until a removal of the build begins, a page that shows an ended build
   shows the state of its record and the log, of a success or a failure the
   whole log and the password, of a success the compose file.  A failing disk
   can tear the credential of a failure: hence the assumption. *)
THEOREM EndedPagesAreComplete == ASSUME ~DiskMayFail PROVE PageSpec => []EndedPageIsComplete
<1>1. PageInv => EndedPageIsComplete
  BY DEF PageInv, TabFits, ViewFits, EndedPageIsComplete
<1> QED BY <1>1, PageInvariance, PTL

(* A page is left spinning only when a removal of its build has begun: on
   any disk, whatever is lost on the network. *)
THEOREM SpinnersAreOfDeleted == PageSpec => []SpinnerIsOfDeleted
<1>1. PageInv => SpinnerIsOfDeleted
  BY DEF PageInv
<1> QED BY <1>1, PageInvariance, PTL

(* A handler's step is about one request and changes nothing it reads. *)
LEMMA HandlerServes ==
  ASSUME PageTypeOK, Handler
  PROVE  UNCHANGED vars /\ get'.kind = get.kind /\ get'.build = get.build
<1>1. get \in Gets
  BY DEF PageTypeOK
<1>2. CASE \/ Admit \/ StartThread \/ ReadRecord \/ ReadLog \/ FindCredential \/ Decrypt
  BY <1>1, <1>2 DEF Gets, Admit, StartThread, ListRows, ReadRecord, ReadLog, FindCredential,
     Decrypt, WithoutCredential, Go, Answer
<1>3. CASE FindCompose \/ ReadCompose \/ RowsRead \/ StatesRead \/ FindFile \/ ReadFile
  BY <1>1, <1>3 DEF Gets, FindCompose, ReadCompose, RowsRead, StatesRead, FindFile, ReadFile,
     Go, Answer
<1>4. ASSUME NEW b \in Builds, ReadRow(b) \/ ReadState(b)
      PROVE  UNCHANGED vars /\ get'.kind = get.kind /\ get'.build = get.build
  BY <1>1, <1>4 DEF Gets, ReadRow, ReadState, Answer
<1> QED BY <1>2, <1>3, <1>4 DEF Handler

(* A listing fails at its first step or at a name it goes through. *)
LEMMA ListingFails ==
  ASSUME ConsoleInv, PageInv, Handler, get.kind = "list",
         get.answer # "error", get'.answer = "error"
  PROVE  key \in {"filling", "empty"} \/ get.left \cap doomed # {}
<1>1. get \in Gets /\ get.pc \notin {"record", "log", "find", "decrypt", "findCompose",
                                     "readCompose", "isFile", "readFile"}
  BY DEF PageInv, PageTypeOK, GetShape, PageKinds
<1>2. CASE StartThread
  BY <1>1, <1>2 DEF StartThread, ListRows, Gets
<1>3. ASSUME NEW b \in Builds, ReadRow(b) PROVE get.left \cap doomed # {}
  <2>1. get.pc = "rows" /\ b \in get.left
    BY <1>3 DEF ReadRow
  <2>2. cred[b] = "none"
    BY <1>1, <1>3 DEF ReadRow, Gets
  <2> QED BY <2>1, <2>2 DEF PageInv, StillThere
<1>4. CASE Admit \/ RowsRead \/ StatesRead \/ \E b \in Builds : ReadState(b)
  BY <1>1, <1>4 DEF Admit, RowsRead, StatesRead, ReadState, Go, Answer, Gets
<1>5. CASE \/ ReadRecord \/ ReadLog \/ FindCredential \/ Decrypt \/ FindCompose
           \/ ReadCompose \/ FindFile \/ ReadFile
  BY <1>1, <1>5 DEF ReadRecord, ReadLog, FindCredential, Decrypt, FindCompose, ReadCompose,
     FindFile, ReadFile, Answer
<1> QED BY <1>2, <1>3, <1>4, <1>5 DEF Handler

(* Only a handler makes an answer. *)
LEMMA OthersDoNotFail ==
  ASSUME [PageNext]_allVars, ~Handler, get.answer # "error" PROVE get'.answer # "error"
<1>1. CASE Console \/ Deliver \/ DropAnswer \/ UNCHANGED allVars
  BY <1>1, ViewTypes DEF Console, Deliver, DropAnswer, Lose
<1>2. CASE OpenOther \/ SendPoll \/ \E b \in Builds : OpenPage(b)
  BY <1>2, ViewTypes DEF OpenOther, SendPoll, OpenPage, Ask, NoGet
<1> QED BY <1>1, <1>2 DEF PageNext

(* A request fails with a 500 only when it reads a build that is being
   removed, or lists the credentials while the key is empty. *)
THEOREM ErrorsHaveCause == PageSpec => ErrorHasCause
<1>1. ConsoleInv /\ PageInv /\ (ConsoleInv /\ PageInv)' /\ [PageNext]_allVars =>
        [get.answer # "error" /\ get'.answer = "error" =>
           IF get.kind = "list"
           THEN key \in {"filling", "empty"} \/ get.left \cap doomed # {}
           ELSE get.build \in doomed]_allVars
  <2> SUFFICES ASSUME ConsoleInv, PageInv, PageInv', [PageNext]_allVars,
                      get.answer # "error", get'.answer = "error"
               PROVE  IF get.kind = "list"
                      THEN key \in {"filling", "empty"} \/ get.left \cap doomed # {}
                      ELSE get.build \in doomed
    OBVIOUS
  <2>1. Handler
    BY OthersDoNotFail
  <2>2. UNCHANGED vars /\ get'.kind = get.kind /\ get'.build = get.build
    BY <2>1, HandlerServes DEF PageInv
  <2>3. CASE get.kind = "list"
    BY <2>1, <2>3, ListingFails
  <2>4. CASE get.kind # "list"
    BY <2>2, <2>4 DEF PageInv, FailuresFit
  <2> QED BY <2>3, <2>4
<1> QED BY <1>1, PageInvariance, PTL DEF PageSpec, ErrorHasCause
=============================================================================
