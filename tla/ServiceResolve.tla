---------------------------- MODULE ServiceResolve ----------------------------
(***************************************************************************)
(* services.resolve as it is written, composed with the form: the build of *)
(* an accepted submission walks the requirements of its services depth     *)
(* first and lists each service once, after what it requires.  BuildForm   *)
(* only needs the set that is returned.                                    *)
(***************************************************************************)
EXTENDS BuildForm, Sequences

VARIABLES
  keys,           \* keys of the submission the loop has still to come to
  calls,          \* the calls of add under way, the outermost first
  ordered         \* the dict, in insertion order

walkVars == <<keys, calls, ordered>>
resolveVars == <<vars, walkVars>>

(* A call has its key, and the requirements it has still to come to. *)
Calls == [key : Services, left : SUBSET Services]

Done == {ordered[i] : i \in DOMAIN ordered}
Seen == {calls[i].key : i \in DOMAIN calls}
Walked == keys = {} /\ calls = <<>>

ResolveInit == Init /\ keys = {} /\ calls = <<>> /\ ordered = <<>>

-----------------------------------------------------------------------------
(* resolve *)

Skipped_SeenOnly(k) == k \notin Services \/ k \in Seen

(* add passes over unknown keys, listed ones, and those it is called for. *)
Skipped(k) == k \notin Services \/ k \in Done \/ k \in Seen

(* A call of add, on top of those under way. *)
AddTo(under, k) ==
  /\ calls' = IF Skipped(k) THEN under ELSE Append(under, [key |-> k, left |-> Requires[k]])
  /\ UNCHANGED <<vars, ordered>>

(* The loop over the submission, in whatever order its fields come. *)
AddKey ==
  /\ calls = <<>>
  /\ \E k \in keys : keys' = keys \ {k} /\ AddTo(calls, k)

Depth == Len(calls)

(* The loop over requirements, in whatever order the registry has them. *)
AddRequired ==
  /\ calls # <<>>
  /\ \E k \in calls[Depth].left : AddTo([calls EXCEPT ![Depth].left = @ \ {k}], k)
  /\ UNCHANGED keys

(* All it requires has been added: the key is listed, and the call returns. *)
List ==
  /\ calls # <<>> /\ calls[Depth].left = {}
  /\ ordered' = Append(ordered, calls[Depth].key)
  /\ calls' = SubSeq(calls, 1, Depth - 1)
  /\ UNCHANGED <<vars, keys>>

(* The form changes between two requests only; a build that is accepted
   resolves what was posted. *)
FormStep ==
  /\ Walked
  /\ Next
  /\ keys' = IF page' = "build" THEN posted'.fields.services ELSE {}
  /\ calls' = <<>> /\ ordered' = <<>>

ResolveNext == FormStep \/ AddKey \/ AddRequired \/ List

ResolveSpec == ResolveInit /\ [][ResolveNext]_resolveVars

-----------------------------------------------------------------------------
(* Properties *)

(* No services that require each other in a circle. *)
Acyclic ==
  \A circle \in (SUBSET Services) \ {{}} : \E k \in circle : Requires[k] \cap circle = {}

(* Whatever order keys and requirements come in, the walk ends with the
   least selection that has all it requires; it lists each service once
   and, unless they require each other, after its requirements. *)
ResolvesInOrder ==
  /\ page = "build" /\ Walked => Done = Resolved(posted.fields.services)
  /\ \A i, j \in DOMAIN ordered : ordered[i] = ordered[j] => i = j
  /\ Acyclic =>
       \A i, j \in DOMAIN ordered : ordered[j] \in Requires[ordered[i]] => j < i

-----------------------------------------------------------------------------
(* The inductive invariant of the walk *)

WalkTypeOK ==
  /\ keys \subseteq Services
  /\ calls \in Seq(Calls)
  /\ ordered \in Seq(Services)
  /\ page # "build" => keys = {} /\ calls = <<>> /\ ordered = <<>>

(* It adds what the selection needs and loses nothing of it. *)
WalkNeeds ==
  page = "build" =>
    /\ keys \cup Done \cup Seen \subseteq Resolved(posted.fields.services)
    /\ posted.fields.services \subseteq keys \cup Done \cup Seen
    /\ \A k \in Done : Requires[k] \subseteq Done \cup Seen

(* A call was made by the one under it, and has dealt with what it left
   behind; no service is listed or called for twice. *)
WalkCalls ==
  /\ \A i \in DOMAIN calls :
       /\ calls[i].left \subseteq Requires[calls[i].key]
       /\ Requires[calls[i].key] \subseteq calls[i].left \cup Done \cup Seen
       /\ calls[i].key \notin Done
       /\ i > 1 => calls[i].key \in Requires[calls[i - 1].key]
  /\ \A i, j \in DOMAIN calls : calls[i].key = calls[j].key => i = j
  /\ \A i, j \in DOMAIN ordered : ordered[i] = ordered[j] => i = j

(* Without circles, what a call left behind is listed or called above it. *)
WalkOrder ==
  Acyclic =>
    /\ \A i \in DOMAIN calls :
         Requires[calls[i].key] \subseteq
           calls[i].left \cup Done \cup {calls[j].key : j \in {m \in DOMAIN calls : m > i}}
    /\ \A i \in DOMAIN ordered :
         Requires[ordered[i]] \subseteq {ordered[j] : j \in {m \in DOMAIN ordered : m < i}}

WalkIInv == WalkTypeOK /\ WalkNeeds /\ WalkCalls /\ WalkOrder

(* Inductive for the form and the walk together. *)
ResolveIInv == FormIInv /\ WalkIInv
=============================================================================
