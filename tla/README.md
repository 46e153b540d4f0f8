# pg4all in TLA+

pg4all is a small web console (FastAPI, one uvicorn process) that turns a
form into a tuned PostgreSQL Docker image. The operator picks a version, a
workload and a machine, moves sliders, ticks extensions and companion
services, and submits. The console writes a Docker build context, has the
daemon build it on a background thread, stores the generated password
encrypted, generates the companion files, boots the image once to compare its
settings with what was asked for, and keeps a record a page polls meanwhile.

This directory models the parts of it that are hard to test: the life of a
build across concurrent builds, deletes, failures and restarts; what the
operator sees of it, page by page and poll by poll; the trial of the image; the
secrets and sessions; the form and the gate in front of a build; and the
arithmetic from machine to configuration. Everything is translated from the code under `src/app`;
`PROJECT.json` ("map") names the lines of every definition.

## 1. Inventory

| Part | Code | State it keeps | Operations |
|---|---|---|---|
| build lifecycle | `main.py` 492-681, `builder/build_store.py`, `docker_build.py`, `dockerfile_gen.py`, `compose_gen.py`, `monitoring_gen.py` | `build_output/<id>/` with `status.json`, log and generated files; a thread per build | POST /build, `_run_build`, delete, `mark_interrupted_builds` |
| credential store | `builder/credential_store.py` | `credentials/<id>.enc`, the master key | save, load, list, delete |
| Docker daemon (external) | docker-py calls | images, build tags, series tags | build, tag, untag, run |
| smoke test | `builder/smoke_test.py`, `core/applied_settings.py` | one throw-away container | boot, compare, remove |
| license notices | `builder/license_scan.py`, `core/licensing.py` | `THIRD_PARTY_NOTICES` | scan, classify |
| tuner form, ports, services | `main.py` 217-430, `static/tuner.js`, `core/ports.py`, `core/services.py` | the browser's form and panel, nothing on the server | edit, preview, submit, acknowledge |
| tuning arithmetic | `core/conf_generator.py`, `parameters.py`, `sizing.py`, `hardware.py`, `validation.py` | none | recommend, suggest, format, parse, validate |
| build pages | `main.py` 450-489, 709-743, 862-887, `static/build_progress.js` | none on the server; a poll in the browser | show, progress, list, credential, downloads |
| login, sessions | `core/auth.py`, `builder/auth_store.py`, `main.py` 68-136 | password hash, session secret, cookie | log in, check, log out |
| generated image | `core/initdb.py`, `core/extensions.py`, `builder/dockerfile_gen.py` | none | arguments of initdb, packages, preloaded libraries, init scripts |
| generated text | `core/monitoring.py`, `pg_defaults.py`, `pg_versions.py`, templates | none | render |

How they interact. POST /build is an `async` handler: it runs alone on the
event loop between awaits, writes the context, the placeholder credential and
the `running` record, and hands `_run_build` to the thread pool (forty tokens,
shared with every synchronous handler and with `remove_build_image`). The
thread drives the daemon, writes credential, record and files, and moves the
series tag. A delete reads everything about a build, awaits its form, and
then removes directory, credential and tags. Nobody holds a lock: correctness
rests on the order of writes, on `status.json` being replaced whole, on
`is_running` checks, and on tags carrying part of the build id. A page reads record, log,
credential and files one by one beside all this, on a pool thread; the browser
polls for the fragment of a running build and follows wherever it is sent. On
start-up, before the first request, `lifespan` marks every record still `running` as
interrupted.

Hard behaviours, and what makes each part correct:

- *interleavings* of the build thread with deletes of the same or of a
  sibling build: nothing a live task uses is removed; tags of kept builds stay;
- *stale reads* across an await or a pool call: a delete acts on the context
  it read before; the series tag is compared, then removed by name;
- *partial failure*: any write may fail, docker calls may raise past their
  handlers; a record ends exactly once and means what it says;
- *crash and restart* at any step, with a daemon that goes on building;
- *bounded threads*: builds hold them for minutes, deletes need them;
- *form and gate*: what the gate judges must be what the build publishes;
- *reads beside writes*: a page that says a build has ended must show all of it;
- *a watch that ends*, and not before its build does, across lost answers;
- *files made once*: three secrets, each looked for, then created, in place;
- *a container that is not ready yet*, or never started, and must be removed;
- *boundary arithmetic*: sliders, rounding, rules and formulas must agree on
  every machine that is accepted.

The full list, with lines and the properties that cover each, is in
`PROJECT.json` ("hazards").

## 2. Modules

| Module | Models |
|---|---|
| `BuildRecord` | abstract: what the console promises about a build's record |
| `BuildLifecycle` | POST /build, `_run_build`, the daemon, deletes, crash and restart; implements `BuildRecord` |
| `MCBuildLifecycle` | small instance: two builds of one combination |
| `BuildLifecycle_proofs` | inductive invariant, safety theorems, refinement |
| `BuildOutcome_proofs` | records, tags, files, passwords, threads: what a build leaves behind and what it waits for, on top of that invariant |
| `BuildForm` | tuner form, findings panel, gate of POST /build, published ports |
| `ServiceResolve` | `services.resolve` as written (depth first), call by call, composed with the form; against `BuildForm`'s definition |
| `MCBuildForm`, `BuildForm_proofs` | small instance; theorems for every registry, of the form and of the walk |
| `Tuning` | formulas, suggestion, sliders, rounding, rules, the smoke test's comparison |
| `MCTuning`, `Tuning_proofs` | small instance; worker limits and WAL sizes on every machine |
| `TuningValues_proofs` | sliders, rounding, smoke test, presets and suggestions on every machine |
| `BuildPage` | pages, listing, downloads and the polling script, composed with `BuildLifecycle` |
| `MCBuildPage`, `BuildPage_proofs` | small instance: one build and a delete; theorems for any builds and requests |
| `Secrets` | console password, session key and cookie, master key |
| `MCSecrets`, `Secrets_proofs` | small instance; theorems for any number of callers and crashes |
| `ImageTrial` | what a selection generates, the smoke test and its container |
| `MCImageTrial`, `ImageTrial_proofs` | small instance; theorems for every registry and selection |

### BuildLifecycle

| Variable | Code |
|---|---|
| `up`, `crashes` | the process; the bound on its deaths |
| `pc[b]` | where the task of build b is: `PostSteps` in the handler, `WorkerSteps` in `_run_build` |
| `dir`, `files`, `status` | `build_output/<b>/`, its other entries (log, compose file, monitoring, notices), its `status.json` |
| `cred` | `<b>.enc`: absent, torn (truncated), or readable with `build_ok` |
| `key` | `secrets/master.key`: absent, being filled, left empty by a crash or a failed write, or whole |
| `doomed` | history: builds whose removal has begun; no action reads it |
| `job`, `buildTag`, `seriesTag` | the daemon's build and the two tags of `image_tags.py` |
| `del[r]` | an open delete request and the context it has read |

One step is what nobody can cut in two. `status.json` is replaced atomically,
so a `Save` is one step; `save_credential` is `write_bytes`, so it is two, with
a torn file between them. The handler of POST /build is several steps, since a
crash, a failed write or a thread can come between two files, and the event
loop does nothing else until `Respond`. A removal is as many steps as the
directory has entries: `RemoveDirectory` begins it, `RemoveEntry` unlinks the
log, a file or `status.json`, in any order, as the directory lists them,
`RemoveEmptied` removes the directory, `RemoveCredential` the credential. It holds
the event loop, but a thread, a crash or (`RemovalFails`) an error of the disk can
come between any two, and what is left stays. On start-up
`MarkInterrupted` saves the record and appends to the log; `MarkingStops` is a
crash or an error between the two, or before the first, which stops the boot.
`MakeKey`, `ListingMakesKey` and `ListingFillsKey` make the master key for the
first credential; a crash in between leaves it empty, and then `KeyRaises` is what
every POST /build does at `save_credential`. `Raise` is the exception that reaches the outer
handler from any statement of the try block that can raise; `Abort` is that
handler, `AbortFails` its own failure.

Abstracted: file contents, the lines of the log, the ports file, the build
context, the smoke test's outcome (a failed one is a success with a warning), the
password itself. That two callers find no key at once is left to `Secrets`. An id is a
number in minting order, a tag a pair of combination and id prefix, an image a
model value. `ThreadFree` counts builds and tag removals; other synchronous
handlers take a thread briefly (`BuildPage` has their steps). Someone removing an image or
a directory by hand is left out.

### BuildForm and ServiceResolve

`form` is what POST /build reads, `page` the page the browser shows, `timer` and
`flight` the debounce and the requests of `tuner.js`, `panel` the version of the
form whose findings are displayed, `posted` the last submission. Of the
parameters only the verdict is kept (`overcommitted`): `Tuning` has the rules.
Warnings stop nothing and are left out. An answer may be lost or be an error:
then the panel stays.

`ServiceResolve` adds the walk that an accepted build makes of the posted
selection: `keys` are those its loop has still to come to, `calls` the calls of
the inner `add` that are under way (a key, and the requirements that call has
still to come to), `ordered` the dict it fills. `AddKey` is a turn of the outer
loop, `AddRequired` one of the loop in the innermost call, `List` the end of that
call. `Skipped` is what `add` passes over: unknown, listed, and `seen`. The order of
both loops is left open, so that what is shown holds for every order of fields
and of registry entries. The walk is one request: the form moves (`FormStep`)
only when none is under way.

### Tuning

A page is loaded for a workload and a machine; `fields` are the sliders as a
range input submits them (`Sanitised`: the nearest value min, max and step
allow), `shown` is the conf in the panel, `built` what a submission made: the
conf, what the smoke test is held to, and the findings. Memory is in kB, so
all values are integers; `int(round())` to megabytes rounds halves to even. The
server (external) reports in `ServerUnit`, and `Normalized` converts back.
Only parameters a formula or a rule relates are kept. The pooler rule is
modelled without PgBouncer, which is not preselected.

### BuildPage

| Variable | Code |
|---|---|
| everything of `BuildLifecycle` | the console, its disk and the daemon underneath |
| `get` | the GET in progress (page, poll, credential page, listing or a file): its handler's place, what it has read, its answer |
| `tab` | the build page in the browser: the fragment shown, the timer or fetch of `build_progress.js` |
| `drops` | bound on lost answers |

`Next` of `BuildLifecycle` is one disjunct (`Console`); a death of the process
also loses the request it served. `_build_page_context` is a step per file, since
the worker, a delete or a crash may come between any two: `ReadRecord`, `ReadLog`,
`FindCredential` and `Decrypt` (exists, then read), `FindCompose` and
`ReadCompose`. The other flags of `_build_dir_flags` only ask whether a file is
there, and `read_ports` has a default for every error, so they cannot fail and
are left out. The listing is `ListRows` (the Fernet, which raises on an empty key,
then the glob), `ReadRow` per file, `ReadState` per record. The notices stand for
both downloads, which are written alike. `Admit` is `require_login`: whether the
cookie passes is free at every request, as sessions end and begin again
(`Secrets` says when). `TabAfter` is the `then` and `catch` of the script: `fetch` follows the
redirect to `/login`, which answers 200, so the login form lands in the container
and the watch ends; any other answer but 2xx ends it silently; a lost one is
tried again. One request at a time stands for all, as they change nothing on
the server. The log a page shows is whole (`LogWhole`: the file is there
and its task is over) or not: `read_log` replaces a file that is gone by nothing,
and a line cut in a multi-byte character, which would raise, is left out.

### Secrets

`password`, `sessionKey` and `master` are the three files: absent (0), torn (-1,
truncated by `write_bytes` and not filled), or the number of the secret in
them; `minted` numbers them. `up` includes the steps of `ensure_password` and the
moment the event loop fills the session key. `caller[c]` is a call of
`_load_or_create_key`, on the event loop or on a pool thread; `sealed` are the
keys that stored credentials are encrypted with. `printed` is what the operator
has seen, `cut` and `raced` remember a crash between storing and printing, and
two callers that both found no key. A cookie is a key and a time. The operator
removes the files the documentation tells to remove (`RemovePassword`,
`RemoveSessionKey`). Hashing and signing are ideal: a cookie verifies with the
key that signed it and no other.

### ImageTrial

A selection goes through `Image` (what `render_args`, `apt_packages`,
`preload_libraries`, `render_init_sql` and the Dockerfile make of it) and the
smoke test. The container (external: the official postgres image)
boots beside the test: `booting`, the entrypoint's `temporary` server with an
empty `listen_addresses` for the init scripts, `between` the two, `final`, or
`exited`. `Reload` and `IsReady` are one poll; `CreateContainer` and
`StartContainer` are the two calls `containers.run` makes; `CallRaises` is any
client call that raises (`failed` for an exception the test catches, `raised` for
another). `clamped` says that the server reports a tuned setting other than
asked: `Tuning` has that comparison in numbers.

## 3. Runs

| Run | What it shows | Size |
|---|---|---|
| `lifecycle` | all safety and step properties of the lifecycle, disk failures and one crash included | 747 000 states, 2 to 3 min |
| `liveness` | what needs a working disk, files, and liveness | 99 000 states, about 1 min |
| `form` | the gate, the ports, `resolve`, the panel | 41 000 states |
| `tuning` | presets, suggestions and boundary machines against the rules | 22 000 states |
| `pages` | what is shown of a build while it is made and deleted; the watch | 578 000 states, 2 to 3 min |
| `secrets` | lock-outs, readable credentials, sessions | 1 096 000 states |
| `trial` | verdict, container | 97 000 states |

**lifecycle.** Two builds of one combination (same series tag, different build
tags), two delete requests, two threads, one crash, writes and removals that may
fail. The constraint `MCOneRemoval` leaves out the states in which two directories are
under removal at once, or left by a removal that was cut: no removal reads the
other's directory, and the event loop takes them one at a time. The builds select
no service, so that log, notices and record are what a removal finds; the files of
services are looked at in `liveness`. Two builds and two requests are enough for every pairwise race the properties name:
build against build (series tag), delete against its own build, against a
sibling sharing the series, against a second delete of the same build; a third
would repeat a pair, as no step involves more than two. A second crash meets
only states a first can produce: recovery does not read `crashes`. Requests are
interchangeable (`MCSymmetry`); builds are not, they are ordered.
Properties: `WorkerOwnsBuild` (nothing is removed from under a live task),
`DeletesAreUnowned`, `CredentialIsHonest`, `TagNamesOwnImage`, `SeriesTagEarned`,
`KeptBuildKeepsTag`, `TerminalIsFinal`, `RemovalIsFinal` (nothing of a build whose
removal has begun comes back), `ImplementsRecordSafety`, and the
inductive invariant `IInv`.

**liveness.** One thread for two builds and a delete, the tightest pool. The second
build has every companion file, the first none. No
symmetry, as it is unsound for liveness. `DiskMayFail = FALSE`: with failing
writes a record may stay `running` until the next start (`AbortFails`), which
the code accepts; the run does not claim it. `EveryBuildConcludes`, `DeletesEnd`
(although builds occupy the pool), `ImplementsRecord`, `RunningIsWatched` and
`SucceededIsComplete`: until a removal of the build begins a success has every file
its page offers. After that it may not, as the crash may come in the middle of `rmtree`.

`CHECK_DEADLOCK FALSE` in the lifecycle configurations: builds are finite, and
once all have been made and deleted an idle console has no step left. The form
and the tuner always have a step and are checked for deadlock.

**form.** Three services in a chain of requirements plus one baked into the
image; typed ports 0, 65536, one that equals another's default, and blank;
three edits from a fresh form: enough to tick a service, un-tick its
requirement and clash their ports. The run takes `ResolveSpec`, the form with the
walk of each accepted build: `ResolvesInOrder` (the walk ends with the least
closed selection, lists nothing twice and everything after what it requires)
and the inductive invariant `ResolveIInv`, beside the properties of gate, types
and panel.

**tuning.** Presets, machines at 1 vCPU / 1 GB, 256 vCPU, 512 GB and between,
two that are refused, and suggestions at both sides of the RAM and vCPU steps;
one slider at an end of its range. TLC's integers end at 2^31, so 4096 GB in kB
is out of its reach: the theorems of section 4 state each of this run's
properties for the whole range.

**pages.** One build with a compose file, one delete request, one thread, one
crash, one lost answer, a login that may be asked for at any request. One
build is enough, as every read is of one build but the listing's, whose rows are
read independently. `EndedPageIsComplete` (the order of the reads against the
order of the writes), `SpinnerIsOfDeleted`, `ErrorHasCause` (a 500 is about a build
under removal, or a listing with an empty key), and the liveness
property `WatchSettles`. The crash may cut a removal or the making of the key short. The disk works (`DiskMayFail = FALSE`): otherwise a record
may stay `running`, and its page with it. `CHECK_DEADLOCK FALSE` for the reason
given above.

**secrets.** A listing and a submission, which is the pair that can race; two
crashes, so that one can meet what another left; two removals; a clock of three
ticks that goes both ways, with sessions valid for one. Checked for deadlock.

**trial.** Every version, checksums on and off, a segment size that is no choice,
the default and the largest, both collations, extensions of every kind (contrib
and packaged, preloaded and not), `min_wal_size` on both sides of two segments;
three polls, so that the last one is reached while the container still boots.
Whatever the daemon can refuse, it may. The run stops when the trial is over
(`CHECK_DEADLOCK FALSE`).

### Disagreements with the documentation

Each is a run that states what a comment says and finds it violated.

| Run | Statement | What happens |
|---|---|---|
| `series_newest` | a series tag follows the newest build | it follows the last to finish |
| `series_owner` | the series tag is removed if it still points at the deleted image | it may have moved between comparison and removal |
| `credential_kept` | the password can be viewed again any time | a crash while the credential is rewritten leaves it truncated, and recovery does not repair it |
| `port_clash` | a port claimed twice in a stack is an error | the ports of services pulled in as requirements are not judged, but published |
| `smoke_false_alarm` | the values you chose are the values the server comes up with, and the test passes | `pg_isready` over the socket is answered by the entrypoint's temporary server; the settings read from it say `listen_addresses ''`, or `psql` finds no server after it, and a sound image is reported failed |

Others, met while modelling and stated here without a run:

- any exception after the image is built and its credential saved as a success
  (a client error in `tag_image`, a full disk) ends the record as failed
  (`main.py:677`), against the comment at `main.py:668`;
- nothing compares a new build tag with existing ones, against
  `image_tags.py:33`: two ids with the same first eight characters share a tag;
- a data warehouse on a machine `sizing.recommend` suggests (16 vCPU, 32 GB) is an
  error of the memory rule, against `validation.py:32`;
- the first panel of the tuner shows the recommendation, the form submits what
  its sliders can hold, against `_preview.html:14`;
- `classify` tests LGPL and MPL before GPL, so that a compound of both is weak
  copyleft, against its own comment (`licensing.py:65`), and takes a permissive
  token inside any word, against `licensing.py:36` ("never silently
  permissive"); `_parse_syft` drops an artifact without a name and says nothing of
  it (`license_scan.py:82`);
- a console that dies in the middle of `rmtree` (`build_store.py:211`) can leave a
  record that says succeeded without compose file or log, and nothing finishes
  the removal; the page of that build then offers less than it did. The
  operator can delete it again;
- a container that was created and refused to start is not removed, against
  `smoke_test.py:14`: there is no handle on it yet. `NothingLeftBehind` excepts it;
- a session that ends while a build is watched puts the login form where the
  progress was and ends the watch. `SpinnerIsOfDeleted` holds, as nothing spins;
- an empty session key, left by a crash while it is written, is used as a key
  from then on (`auth_store.py:45`);
- an empty master key, left in the same way, makes `Fernet` raise outside the
  handlers of `InvalidToken` (`credential_store.py:48`, `:83`): `/builds` answers 500 and
  POST /build fails after it has made its directory, until the file is removed.

### Fairness

`Spec` of `BuildLifecycle` assumes weak fairness of:

- `PostGoesOn(b)`, `ListingFillsKey`: the event loop runs a handler on to its
  next await, and a started thread its call to the end;
- `Worker(b)`: started threads are scheduled, and the limiter hands its tokens
  out in order of arrival, so a queued build gets one once one is free;
- `Daemon(b)`: the daemon ends what it was asked to build;
- `Delete(r)`: the form of an open delete arrives or the connection goes, and
  its pool call is queued like a build's;
- `Restart`, `MarkInterrupted`, `Serve`: `docker-compose.yml:25` has
  `restart: unless-stopped`, and start-up is a loop over finite directories.

`PageSpec` adds weak fairness of `Handler` and `Deliver` (a request is served once a
thread is free, and answered) and strong fairness of `SendPoll`: the browser's
timer fires, but other requests of the model's single slot may come between.
The answers the network loses are bounded (`MaxDrops`), as nothing settles while
every one is lost. `Secrets` and `ImageTrial` claim safety only: that a trial
ends is `EveryBuildConcludes` of `BuildLifecycle`.

Nothing is assumed of the operator (`CreateContext`, `OpenDelete`), of crashes
or of failures. `BuildForm` and `Tuning` claim safety only.

## 4. Proofs

**BuildLifecycle_proofs**, for any number of builds, requests, threads and
crashes, any ids, and disks that fail or not. Assumed: `BuildsAssumption`,
`SelectionAssumption`, `NoneAssumption`, `BoundsAssumption`, that is, the types
of the constants and that monitored builds have a compose file. Unique tags and
a working disk are not assumed.

The properties are not inductive by themselves. That a live task still has its
directory needs to know that no delete past its check is about it, which needs
that a request whose check will pass looked at a build whose task had ended
(`DeleteOrder`) and that what is under removal stays so (`DoomOrder`), which needs that a record ends only after its task
(`EndedOrder`); honesty of a credential needs the order in which the worker
learns and records the verdict (`WorkOrder`, `PostOrder`) and that what is sealed has a whole
key (`KeyOrder`), and all of it needs
that a dead process has no tasks (`Quiescent`). `IInv` is the conjunction. It is
checked by the `lifecycle` run and proved inductive, an action at a time. From
it: `TypeCorrect`, `WorkIsProtected`, `DeletesAreSafe`, `CredentialsAreHonest`,
`EndedIsFinal`, `RemovedStaysRemoved` (a removal that has begun is never undone,
whatever cuts it short), and `Refinement`: every step maps to a step of `BuildRecord` or to
a stutter, under the mapping `RecordOf` (status, or `removed` once the task is
over and no record is left) and `watched` (builds some task answers for).

**BuildOutcome_proofs**, for the same instances, adds to `IInv` four invariants,
each inductive together with it:

- `RecordIsKept`: a record has its directory and a credential file. On any disk,
  without a hypothesis; the handler writes the record last, and a delete takes
  it before it removes the directory, and that before the credential.
- `TagsAreOwn`: no tag names another build's image, which gives
  `TagNamesOwnImage`, and `SeriesTagEarned` as `MoveSeriesTag` goes through the
  tag of its own build. `CredentialIsGone`: a delete that got to the image has
  taken the credential, which gives `KeptBuildKeepsTag`. The three properties
  assume `UniqueTags`, that no two ids share their first eight characters, as
  `image_tags.py:33` does; without it they are false, which is one of the
  disagreements above.
- `FilesAreDelivered`: log and companion files are as far as the worker is, and a
  record that ended has them until a removal of the build begins (`doomed`). With the
  verdict order of `IInv` it gives `SucceededIsComplete`. Both hold on any disk, with
  removals cut anywhere: a step that takes a file belongs to a delete, and its
  build is doomed. `RunningIsWatched` (inductive with `IInv` as it stands) assumes
  `~DiskMayFail`, the condition under which the run checks it: with writes that
  fail it is false, by `AbortFails`.
- `FailureHasPassword`: a worker on its way to a failure, and a record that says
  failed, have a readable credential. With `EndedOrder` it gives
  `ConcludedBuildsKeepPasswords`: a build that ended on its own, well or badly,
  keeps its password as long as its record. Under `~DiskMayFail` too. With
  `MaxCrashes = 0` as well nothing is ever interrupted (`NothingInterrupted`), and
  `CredentialKept` itself follows (`OnlyCrashesLosePasswords`): the crash that the
  run `credential_kept` uses to violate it is the only way to do so.

Three more theorems are about who runs when, on any disk. `HandlersRunAlone`: at
most one POST /build, or one delete between the first entry of a directory and
the credential, is on the event loop. `TokensAreKept`: no more tasks and tag removals hold a thread than
the pool has tokens. `TasksAndDeletesRunOut` is the part of liveness that needs
no fairness: a task has at most eighteen steps left, an open delete six and one for
each entry of its directory (`EntriesLeft`); each of their own steps lowers that
number, and no step of anybody else raises it. What
is left to TLC of `EveryBuildConcludes` and `DeletesEnd` is that fairness makes
them take those steps.

**BuildPage_proofs**, for any builds, requests, crashes and lost answers. The
pages take no step of their own on the console's state (`PageKeepsConsole`), so
every safety theorem above holds of the composition, and the console's
invariants can be used at each step. What a page shows was read at different
times, so that the invariant has to follow a request through its handler:
`GetShape` and `GetView` (which request is at which step, and what it has read),
`GetFits` (what it has read of an ended build is still what the disk says, or a
removal of the build has begun), `StillThere` (what `exists()` saw is there when it
is opened, or such a removal has begun), `FailuresFit` (an error about one build is
about one under removal); `TabFollows`, `TabFits`, `SpinnerIsOfDeleted` say the same of
the tab once the answer has come. They hold because the worker writes log,
credential and compose file before the final record, and the handler reads the
record first. From them, on any disk: `SpinnerIsOfDeleted`, `PageTypeOK` and, as a
credential needs a whole key to exist, `ErrorHasCause` (`ErrorsHaveCause`): only the
listing can meet an empty key. `EndedPageIsComplete` assumes `~DiskMayFail`: a
failing disk can tear the credential of a failure, nothing else. That a failed build's page has the
password rests on `FailureHasPassword` above. `PagesImplementRecord` carries the
refinement over: with pages open beside it the console implements `BuildRecord`.

**BuildForm_proofs**, for any registry, defaults, ports and number of edits,
from `RegistryAssumption`, `PortAssumption` (defaults are distinct ports),
`EditsAssumption`: an unacknowledged build of a closed selection can start
(`GateHolds`), the gate stops nothing sound (`GateWarranted`), and the panel never
goes back (`PanelMovesForward`), and `TypeOK`, from `FormIInv`: types, one request out at a
time and no older than the panel, and what the gate decided of the page shown.

The walk leaves the form alone (`WalkLeavesTheForm`), so the theorems of the form
hold beside it, and ends with what `BuildForm` says `resolve` returns
(`ResolveIsRight`), for any registry, acyclic or not, and any order of its loops.
`resolve` is recursive, but as a stack of calls it needs no induction over the
registry, only an invariant, `ResolveIInv` (`WalkInvariance`): what is listed,
under way or still to come is what the selection needs and no less (`WalkNeeds`);
each call was made by the one under it, has dealt with what it left behind, and
no key is listed or called twice (`WalkCalls`); without circles, what a call
left behind is listed or above it (`WalkOrder`). The last of these is where an
acyclic registry is needed: `add` also passes over a requirement that is under
way, and if that were one below in the stack, the keys from it to the top would
be a circle (`NoCircle`).

**Tuning_proofs**, for every workload and every machine of 1-256 vCPU and 1-4096
GB: recommended worker limits grant what they promise both as computed and as
the sliders cut them off (`WorkersGranted`), and the WAL sizes are in order and
hold two of the largest segments (`SegmentsAlwaysFit`). The invariant is that
the machine is real and an untouched page is fresh.

**TuningValues_proofs**, for the same machines, any volumes of data and any
number of queries: `TypeOK`, `SmokeTestIsFair`, `PresetsStayQuiet`,
`SuggestionIsRunnable`, and the wider `FloorIsRunnable`, which says the same of every
machine at or above the floor, however it came to be selected. `ValuesInv` is
these with what they need: `ComesFrom`
(a preset machine is one of the presets, a suggested one has at least the floor
of `sizing.py`, 4 GB or 2 for a desktop) and that an undragged page is fresh. The
argument rests on three groups of lemmas. `StopsFit`, `StopsNear`: a slider
stops on a value, no more than half a step above what was computed.
`ConfSurvivesTheServer`: whole megabytes are whole blocks of every unit the
server reports in, so no comparison of the smoke test sees a rounding.
`WorstCaseIsBounded`, `ServerDivides`, `DesktopDivides`: buffers and the shares of
the remaining memory, with all that rounding and sliders add, stay below the
memory (`SuggestionsFit`) and, for the presets, below the rules' thresholds
(`PresetsFit`).

**Secrets_proofs**, for any number of callers, crashes, removals and any clock:
`NoOtherLockout`, `CredentialsOpen`, `SessionsGoOn`, `TypeOK`. The strengthening says that a
password outside the two steps in which a crash cuts it off has been shown
(`ShownUnlessCut`), and that unless two callers raced a single one is making the
master key, while nobody holds one and nothing is sealed (`OneKey`).

**ImageTrial_proofs**, for any registry of extensions, any
selections and number of polls, with a client that raises or not: `VerdictHolds`,
`ContainersAreRemoved`, `TypeOK`. `SoundBoots` and `ClusterAsSelected` are
the facts about what is generated: initdb knows its flags on every version,
every library and script has its package, and the cluster is what was selected.
`BoxTells` carries them along: how far the container came says what the image is.

Model-checked only: liveness (`EveryBuildConcludes`, `DeletesEnd`, `WatchSettles`)
and the fairness half of the refinement (`ImplementsRecord`), as fairness and
ENABLED are beyond the prover. Every invariant and step property of the passing
runs has a theorem; of the disagreements, which are false, `CredentialKept` has
the theorem that says when it is true.

## 5. Not modelled, and the plan

Left out for good: templates, styles, rendered dashboards, version tables and
default values, which decide nothing a model would add to; what Docker and
PostgreSQL do with the files beyond the calls the console makes; the content of
the license manifest, which is assigned from one scan in one place, so that a
model of it could only repeat the assignment (its gaps are listed above); the layout of the Dockerfile, pgBackRest's conf; someone changing
the directories by hand, but for the two files the documentation names.

Planned: ports that are taken on the host and privileged ports, which warn and
stop nothing.
