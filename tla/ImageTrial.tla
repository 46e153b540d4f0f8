------------------------------- MODULE ImageTrial -------------------------------
(***************************************************************************)
(* What becomes of a selection once its image is built: what the generated *)
(* context makes of it, and the smoke test that boots the image once.  The *)
(* container is the official postgres image's: its entrypoint creates the  *)
(* cluster, runs a temporary server that listens on the unix socket only   *)
(* for the init scripts, stops it, and starts the server that stays.       *)
(***************************************************************************)
EXTENDS Integers

CONSTANTS
  Selections,     \* what the operator may have submitted
  Contrib,        \* extensions inside the official image
  Apt,            \* extensions that come as packages
  NeedsPreload,   \* extensions that go to shared_preload_libraries
  MaxPolls,       \* READINESS_TIMEOUT_SECONDS / POLL_INTERVAL_SECONDS
  DaemonMayFail   \* whether calls of the Docker client may raise

Majors == {16, 17, 18}

(* As the form submits them: a segment size that is none of the choices is
   possible; minWal is min_wal_size in MB; clamped: the server will report
   a tuned setting other than it was asked for. *)
AllSelections ==
  [major : Majors, checksums : BOOLEAN, segment : Nat, collation : {"default", "C"},
   extensions : SUBSET (Contrib \cup Apt), minWal : Nat, clamped : BOOLEAN]

ASSUME SelectionsAssumption == Selections \subseteq AllSelections
ASSUME RegistryAssumption ==
  Contrib \cap Apt = {} /\ NeedsPreload \subseteq Contrib \cup Apt
ASSUME TrialAssumption == MaxPolls \in Nat \ {0} /\ DaemonMayFail \in BOOLEAN

VARIABLES
  sel,            \* the selection
  pc,             \* where run_smoke_test is
  box,            \* the test container on the daemon
  held,           \* run_smoke_test has a container object
  polls,          \* polls of pg_isready so far
  result,         \* its result
  trouble,        \* history: the steps at which a call of the Docker client raised
  early           \* history: it asked before the final server was there

vars == <<sel, pc, box, held, polls, result, trouble, early>>

-----------------------------------------------------------------------------
(* initdb.py *)

WalSegmentChoices == {16, 32, 64, 128}

ResolveWalSegment(value) == IF value \in WalSegmentChoices THEN value ELSE 16

RenderArgs_LocaleAlone(s) ==
  [checksums |-> IF s.checksums THEN "on" ELSE IF s.major >= 18 THEN "off" ELSE "default",
   segment |-> ResolveWalSegment(s.segment),
   locale |-> s.collation,
   encoding |-> "default"]

(* POSTGRES_INITDB_ARGS: "default" is a flag left out.  16 MB is left out
   too, and is the default. *)
RenderArgs(s) ==
  [checksums |-> IF s.checksums THEN "on" ELSE IF s.major >= 18 THEN "off" ELSE "default",
   segment |-> ResolveWalSegment(s.segment),
   locale |-> s.collation,
   encoding |-> IF s.collation = "C" THEN "UTF8" ELSE "default"]

Expected(s) == [checksums |-> s.checksums, segment |-> ResolveWalSegment(s.segment)]

(* extensions.py *)
AptPackages(s) == s.extensions \cap Apt
PreloadLibraries(s) == s.extensions \cap NeedsPreload
InitSql(s) == s.extensions

(* create_build_context and the conf it is given. *)
Image(s) ==
  [major |-> s.major, args |-> RenderArgs(s), minWal |-> s.minWal, clamped |-> s.clamped,
   installed |-> Contrib \cup AptPackages(s),
   preload |-> PreloadLibraries(s), initSql |-> InitSql(s)]

-----------------------------------------------------------------------------
(* The image, started: PostgreSQL and the entrypoint, as the code relies
   on them *)

(* initdb knows no --no-data-checksums before 18. *)
InitdbRuns(image) == ~(image.args.checksums = "off" /\ image.major < 18)

Cluster(image) ==
  [checksums |-> image.args.checksums = "on"
                   \/ (image.args.checksums = "default" /\ image.major >= 18),
   segment |-> image.args.segment,
   encoding |-> IF image.args.locale = "C" /\ image.args.encoding = "default"
                THEN "SQL_ASCII" ELSE "UTF8"]

(* min_wal_size has to hold two segments, every library has to be there. *)
ServerStarts(image) ==
  image.minWal >= 2 * image.args.segment /\ image.preload \subseteq image.installed

(* CREATE EXTENSION needs its files, and the library if it is preloaded. *)
ScriptsRun(image) ==
  /\ image.initSql \subseteq image.installed
  /\ image.initSql \cap NeedsPreload \subseteq image.preload

Up == {"booting", "temporary", "between", "final"}
Phases == {"none", "created", "exited"} \cup Up

Started ==
  /\ box = "booting"
  /\ box' = IF InitdbRuns(Image(sel)) /\ ServerStarts(Image(sel))
            THEN "temporary" ELSE "exited"

Initialised ==
  \/ box = "temporary" /\ box' = IF ScriptsRun(Image(sel)) THEN "between" ELSE "exited"
  \/ box = "between" /\ box' = "final"

Boot ==
  /\ Started \/ Initialised
  /\ UNCHANGED <<sel, pc, held, polls, result, trouble, early>>

-----------------------------------------------------------------------------
(* run_smoke_test *)

Steps == {"boot", "start", "poll", "isReady", "query", "remove", "done"}
Results == {"none", "passed", "failed", "skipped", "raised"}

End(from, outcome) ==
  /\ pc = from
  /\ pc' = "remove"
  /\ result' = outcome

(* containers.run creates, then starts; without a daemon there is no test. *)
CreateContainer ==
  /\ pc = "boot"
  /\ \/ pc' = "start" /\ box' = "created" /\ UNCHANGED <<result, trouble>>
     \/ DaemonMayFail /\ End("boot", "skipped") /\ trouble' = trouble \cup {pc} /\ UNCHANGED box
  /\ UNCHANGED <<sel, held, polls, early>>

StartContainer ==
  /\ pc = "start"
  /\ pc' = "poll"
  /\ box' = "booting"
  /\ held' = TRUE
  /\ UNCHANGED <<sel, polls, result, trouble, early>>

(* _wait_until_ready: reload, and give up on a container that exited. *)
Reload ==
  /\ pc = "poll"
  /\ IF box = "exited"
     THEN End("poll", "failed")
     ELSE pc' = "isReady" /\ UNCHANGED result
  /\ UNCHANGED <<sel, box, held, polls, trouble, early>>

IsReady_OnePollMore ==
  /\ pc = "isReady"
  /\ box \in Up
  /\ IF box \in {"temporary", "final"}
     THEN pc' = "query" /\ UNCHANGED <<polls, result>>
     ELSE /\ polls' = polls + 1
          /\ IF polls = MaxPolls
             THEN End("isReady", "failed")
             ELSE pc' = "poll" /\ UNCHANGED result
  /\ UNCHANGED <<sel, box, held, trouble, early>>

(* pg_isready over the unix socket: either server answers it. *)
IsReady ==
  /\ pc = "isReady"
  /\ box \in Up
  /\ IF box \in {"temporary", "final"}
     THEN pc' = "query" /\ UNCHANGED <<polls, result>>
     ELSE /\ polls' = polls + 1
          /\ IF polls' = MaxPolls
             THEN End("isReady", "failed")
             ELSE pc' = "poll" /\ UNCHANGED result
  /\ UNCHANGED <<sel, box, held, trouble, early>>

(* exec in a container that has exited is refused, as is psql between two
   servers: the test could not complete. *)
ExecFails ==
  /\ \/ pc = "isReady" /\ box = "exited"
     \/ pc = "query" /\ box \in {"between", "exited"}
  /\ End(pc, "failed")
  /\ early' = (box = "between")
  /\ UNCHANGED <<sel, box, held, polls, trouble>>

Verdict_ListenUnchecked ==
  LET cluster == Cluster(Image(sel)) IN
  IF /\ [checksums |-> cluster.checksums, segment |-> cluster.segment] = Expected(sel)
     /\ ~sel.clamped
  THEN "passed" ELSE "failed"

(* listen_addresses, the initdb settings, the tuned ones.  The temporary
   server has the conf, and an empty listen_addresses over it. *)
Verdict ==
  LET cluster == Cluster(Image(sel)) IN
  IF /\ box = "final"
     /\ [checksums |-> cluster.checksums, segment |-> cluster.segment] = Expected(sel)
     /\ ~sel.clamped
  THEN "passed" ELSE "failed"

QuerySettings ==
  /\ box \in {"temporary", "final"}
  /\ End("query", Verdict)
  /\ early' = (box = "temporary")
  /\ UNCHANGED <<sel, box, held, polls, trouble>>

(* Any call of the client raises: a DockerException is a failed test, any
   other exception leaves run_smoke_test. *)
CallRaises ==
  /\ DaemonMayFail
  /\ pc \in {"boot", "start", "poll", "isReady", "query"}
  /\ \E outcome \in {"failed", "raised"} : End(pc, outcome)
  /\ trouble' = trouble \cup {pc}
  /\ UNCHANGED <<sel, box, held, polls, early>>

Remove_OnlyAfterSuccess ==
  /\ pc = "remove"
  /\ pc' = "done"
  /\ box' = IF held /\ result = "passed" THEN "none" ELSE box
  /\ UNCHANGED <<sel, held, polls, result, trouble, early>>

(* finally: a container it holds is removed, forced, with its volume. *)
Remove ==
  /\ pc = "remove"
  /\ pc' = "done"
  /\ box' = IF held THEN "none" ELSE box
  /\ UNCHANGED <<sel, held, polls, result, trouble, early>>

RemoveFails ==
  /\ DaemonMayFail
  /\ pc = "remove" /\ held
  /\ pc' = "done"
  /\ result' \in {result, "raised"}
  /\ trouble' = trouble \cup {pc}
  /\ UNCHANGED <<sel, box, held, polls, early>>

SmokeTest ==
  \/ CreateContainer \/ StartContainer \/ Reload \/ IsReady \/ ExecFails
  \/ QuerySettings \/ CallRaises \/ Remove \/ RemoveFails

-----------------------------------------------------------------------------

Init ==
  /\ sel \in Selections
  /\ pc = "boot"
  /\ box = "none" /\ held = FALSE /\ polls = 0
  /\ result = "none" /\ trouble = {} /\ early = FALSE

Next == SmokeTest \/ Boot

Spec == Init /\ [][Next]_vars

TypeOK ==
  /\ sel \in Selections
  /\ pc \in Steps
  /\ box \in Phases
  /\ held \in BOOLEAN
  /\ polls \in 0..MaxPolls
  /\ result \in Results
  /\ trouble \subseteq Steps /\ early \in BOOLEAN

-----------------------------------------------------------------------------
(* Properties *)

(* A selection PostgreSQL can serve: its own min_wal_size holds two of its
   own segments, and the server keeps every setting as asked. *)
Sound(s) == s.minWal >= 2 * ResolveWalSegment(s.segment) /\ ~s.clamped

(* The smoke test's verdict is about the image.  It passes only a sound
   selection, asked of the server that stays, on a cluster with the
   checksums, segment size and a validating encoding as selected; and it
   fails a sound one only if a client call raised, the polls ran out, or it
   asked while the entrypoint was still initialising.  So what is generated
   boots for every version, set of extensions and initdb option. *)
VerdictIsRight ==
  /\ result = "passed" =>
       /\ Sound(sel) /\ ~early
       /\ Cluster(Image(sel)) = [checksums |-> sel.checksums, encoding |-> "UTF8",
                                 segment |-> ResolveWalSegment(sel.segment)]
  /\ result = "failed" /\ Sound(sel) => trouble # {} \/ early \/ polls = MaxPolls

(* No container is left on the daemon, whatever failed in between, unless
   the daemon refused to start it, which leaves what was created and the
   test without a handle on it, or to remove it. *)
NothingLeftBehind ==
  pc = "done" /\ box # "none" => trouble \cap {"start", "remove"} # {}

(* "The values you chose are the values the server comes up with": the test
   does not fail an image that is sound, while it has polls left. *)
SoundImagePasses ==
  result = "failed" /\ trouble = {} /\ polls < MaxPolls => ~Sound(sel)
=============================================================================
