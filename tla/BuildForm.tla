------------------------------- MODULE BuildForm -------------------------------
(***************************************************************************)
(* The tuner form: what the operator edits, the findings panel tuner.js    *)
(* keeps beside it, the gate POST /build puts before a build, and the host *)
(* ports the stack of an accepted build will publish.                      *)
(*                                                                         *)
(* Of the tuning parameters only the verdict of validation.py is kept.     *)
(* Warnings are left out: they stop nothing.                               *)
(***************************************************************************)
EXTENDS Naturals, FiniteSets

CONSTANTS
  Services,       \* the service registry: its keys ...
  Sidecars,       \* ... those that run in a container of their own
  Requires,       \* ... and Requires[k]: what k cannot work without
  Postgres,       \* the port key of the database itself
  Default,        \* Default[k]: the port the port registry gives k
  Typed,          \* port numbers the operator may type
  Blank,          \* what is no number: left empty, or junk
  MaxPort,        \* the last TCP port
  Preselected,    \* the services a fresh form has ticked
  MaxEdits        \* bound: edits of one visit to the form

PortKeys == {Postgres} \cup Sidecars

ASSUME RegistryAssumption ==
  /\ Sidecars \subseteq Services /\ Preselected \subseteq Services
  /\ Requires \in [Services -> SUBSET Services]
  /\ Postgres \notin Services
ASSUME PortAssumption ==
  /\ MaxPort \in Nat /\ Typed \subseteq Nat /\ Blank \notin Nat
  /\ Default \in [PortKeys -> 1..MaxPort]
  /\ \A j, k \in PortKeys : Default[j] = Default[k] => j = k
ASSUME EditsAssumption == MaxEdits \in Nat

VARIABLES
  page,           \* what the browser shows: "tuner", "confirm" or "build"
  form,           \* the fields of the tuner form
  version,        \* how often they were edited
  timer,          \* a refresh of the panel is scheduled
  flight,         \* versions of the form posted to /preview, unanswered
  panel,          \* the version whose findings the panel shows
  posted          \* the last submission: its fields, acknowledged or not

vars == <<page, form, version, timer, flight, panel, posted>>

-----------------------------------------------------------------------------
(* services.py and ports.py *)

Closed(keys) == \A k \in keys : Requires[k] \subseteq keys

(* services.resolve: unknown keys dropped, requirements pulled in. *)
Resolved(keys) ==
  {k \in Services : \A all \in SUBSET Services :
                      Closed(all) /\ keys \cap Services \subseteq all => k \in all}

(* ports.resolve: the default for anything that does not parse. *)
HostPort(f, key) == IF f.ports[key] = Blank THEN Default[key] ELSE f.ports[key]

(* ports.specs_for: Postgres and the selected sidecars publish a port. *)
SpecsFor(keys) == {Postgres} \cup (keys \cap Sidecars)

OutOfRange_ZeroAllowed(f, keys) == {k \in SpecsFor(keys) : HostPort(f, k) \notin 0..MaxPort}

(* The errors of ports.validate. *)
OutOfRange(f, keys) == {k \in SpecsFor(keys) : HostPort(f, k) \notin 1..MaxPort}
Clashing_Unselected(f, keys) ==
  {k \in SpecsFor(keys) : \E j \in PortKeys \ {k} : HostPort(f, j) = HostPort(f, k)}

Clashing(f, keys) ==
  {k \in SpecsFor(keys) : \E j \in SpecsFor(keys) \ {k} : HostPort(f, j) = HostPort(f, k)}

(* _all_findings gets the services as they were submitted. *)
HasErrors(f) ==
  \/ f.overcommitted
  \/ OutOfRange(f, f.services) # {}
  \/ Clashing(f, f.services) # {}

(* render_compose: the resolved selection publishes. *)
Published(f) == SpecsFor(Resolved(f.services))

(* What Docker needs to start the stack: every port exists, none twice. *)
StackStarts(f) ==
  /\ \A k \in Published(f) : HostPort(f, k) \in 1..MaxPort
  /\ \A j, k \in Published(f) : HostPort(f, j) = HostPort(f, k) => j = k

-----------------------------------------------------------------------------
(* The form *)

Forms ==
  [services : SUBSET Services, ports : [PortKeys -> Typed \cup {Blank}
                                                    \cup {Default[k] : k \in PortKeys}],
   overcommitted : BOOLEAN]

(* GET /: the registries' defaults, and a recommended configuration. *)
FreshForm == [services |-> Preselected, ports |-> Default, overcommitted |-> FALSE]

(* No submission the browser still shows anything of. *)
NotPosted == [fields |-> FreshForm, acknowledged |-> FALSE]

TypeOK ==
  /\ page \in {"tuner", "confirm", "build"}
  /\ form \in Forms
  /\ version \in 0..MaxEdits
  /\ timer \in BOOLEAN
  /\ flight \in SUBSET (0..MaxEdits)
  /\ panel \in 0..MaxEdits
  /\ posted \in [fields : Forms, acknowledged : BOOLEAN]

Init ==
  /\ page = "tuner"
  /\ form = FreshForm
  /\ version = 0
  /\ timer = FALSE
  /\ flight = {}
  /\ panel = 0
  /\ posted = NotPosted

(* Every edit fires an input event, and that restarts the timer. *)
EditTo(f) ==
  /\ page = "tuner"
  /\ version < MaxEdits
  /\ form' = f
  /\ version' = version + 1
  /\ timer' = TRUE
  /\ UNCHANGED <<page, flight, panel, posted>>

TickService == \E k \in Services :
  EditTo([form EXCEPT !.services = IF k \in @ THEN @ \ {k} ELSE @ \cup {k}])
TypePort == \E k \in PortKeys, n \in Typed \cup {Blank} :
  n # form.ports[k] /\ EditTo([form EXCEPT !.ports[k] = n])
Tune == EditTo([form EXCEPT !.overcommitted = ~@])
ResetForm == form # FreshForm /\ EditTo(FreshForm)

RefreshFindings_Unguarded ==
  /\ timer
  /\ timer' = FALSE
  /\ flight' = flight \cup {version}
  /\ UNCHANGED <<page, form, version, panel, posted>>

(* refreshFindings: dropped, not postponed, while a request is in flight. *)
RefreshFindings ==
  /\ timer
  /\ timer' = FALSE
  /\ flight' = IF flight = {} THEN {version} ELSE flight
  /\ UNCHANGED <<page, form, version, panel, posted>>

(* An answer replaces the panel; an error or a lost request does not. *)
PreviewAnswers == \E v \in flight :
  /\ flight' = flight \ {v}
  /\ panel' \in {v, panel}
  /\ UNCHANGED <<page, form, version, timer, posted>>

-----------------------------------------------------------------------------
(* POST /build *)

(* The gate: errors stop a submission that does not acknowledge them. *)
Gate(f, acknowledged) == HasErrors(f) /\ ~acknowledged

Post_OwnPage(f, acknowledged) ==
  /\ page' = IF Gate(f, acknowledged) THEN "findings" ELSE "build"
  /\ posted' = [fields |-> f, acknowledged |-> acknowledged]

Post(f, acknowledged) ==
  /\ page' = IF Gate(f, acknowledged) THEN "confirm" ELSE "build"
  /\ posted' = [fields |-> f, acknowledged |-> acknowledged]

(* The browser leaves the form: its timer and its requests are dropped. *)
Submit ==
  /\ page = "tuner"
  /\ Post(form, FALSE)
  /\ timer' = FALSE
  /\ flight' = {}
  /\ UNCHANGED <<form, version, panel>>

(* "Build anyway" sends the same fields again. *)
BuildAnyway ==
  /\ page = "confirm"
  /\ Post(posted.fields, TRUE)
  /\ UNCHANGED <<form, version, timer, flight, panel>>

(* "Back to the tuner" is a link to /: a fresh form. *)
BackToTuner ==
  /\ page \in {"confirm", "build"}
  /\ page' = "tuner"
  /\ form' = FreshForm
  /\ version' = 0
  /\ panel' = 0
  /\ posted' = NotPosted
  /\ UNCHANGED <<timer, flight>>

Next ==
  \/ TickService \/ TypePort \/ Tune \/ ResetForm
  \/ RefreshFindings \/ PreviewAnswers
  \/ Submit \/ BuildAnyway \/ BackToTuner

Spec == Init /\ [][Next]_vars

-----------------------------------------------------------------------------
(* Properties *)

(* A build accepted without an acknowledgement, whose services were ticked
   together with what they require, gets a stack that can start. *)
AcceptedStackStarts ==
  page = "build" /\ ~posted.acknowledged /\ Closed(posted.fields.services) =>
    StackStarts(posted.fields)

(* The gate stops nothing that would hold: who is asked to acknowledge has
   an overcommitted configuration or a stack that cannot start. *)
ConfirmIsWarranted ==
  page = "confirm" => posted.fields.overcommitted \/ ~StackStarts(posted.fields)

(* The panel never goes back to findings of an older state of the form,
   whatever order answers arrive in, unless the form itself is fresh. *)
PanelNeverOlder == [][page = "tuner" => panel' >= panel]_vars

(* The inductive invariant: an open panel is as old as its answers at most,
   one request is out at a time, and a page shows what the gate decided. *)
PanelOrder ==
  /\ page = "tuner" => panel <= version /\ \A v \in flight : panel <= v /\ v <= version
  /\ page # "tuner" => flight = {} /\ ~timer
  /\ \A u, v \in flight : u = v
GateOrder ==
  /\ page = "confirm" => HasErrors(posted.fields)
  /\ page = "build" /\ ~posted.acknowledged => ~HasErrors(posted.fields)
FormIInv == TypeOK /\ PanelOrder /\ GateOrder

(* "A port that's out of range or claimed twice in the same stack is an
   error": no stack that cannot start is accepted unacknowledged. *)
NoSilentClash ==
  page = "build" /\ ~posted.acknowledged => StackStarts(posted.fields)
=============================================================================
