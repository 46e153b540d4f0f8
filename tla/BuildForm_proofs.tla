--------------------------- MODULE BuildForm_proofs ---------------------------
(* Proofs about BuildForm and ServiceResolve, for every registry of services
   and of ports, and every form. *)
EXTENDS ServiceResolve, SequenceTheorems, TLAPS

(* A selection that has all it requires is resolved to itself. *)
LEMMA ResolvedOfClosed ==
  ASSUME NEW ticked \in SUBSET Services, Closed(ticked)
  PROVE  Resolved(ticked) = ticked
BY DEF Resolved

(* Resolving never loses what was ticked. *)
LEMMA ResolvedHasKeys ==
  ASSUME NEW ticked \in SUBSET Services
  PROVE  ticked \subseteq Resolved(ticked)
BY DEF Resolved

(* The port a form gives is one the checks can compare. *)
LEMMA GateIsSound ==
  ASSUME NEW f \in Forms, Closed(f.services), ~HasErrors(f)
  PROVE  StackStarts(f)
<1>1. f.services \in SUBSET Services
  BY DEF Forms
<1>2. Published(f) = SpecsFor(f.services)
  BY <1>1, ResolvedOfClosed DEF Published
<1>3. \A k \in Published(f) : HostPort(f, k) \in 1..MaxPort
  BY <1>2 DEF HasErrors, OutOfRange
<1>4. \A j, k \in Published(f) : HostPort(f, j) = HostPort(f, k) => j = k
  BY <1>2 DEF HasErrors, Clashing
<1> QED BY <1>3, <1>4 DEF StackStarts

(* What the gate finds in the services as submitted is wrong with the
   stack of the resolved selection as well. *)
LEMMA GateIsWarranted ==
  ASSUME NEW f \in Forms, HasErrors(f)
  PROVE  f.overcommitted \/ ~StackStarts(f)
<1>1. f.services \in SUBSET Services
  BY DEF Forms
<1>2. SpecsFor(f.services) \subseteq Published(f)
  BY <1>1, ResolvedHasKeys DEF Published, SpecsFor
<1>3. CASE OutOfRange(f, f.services) # {}
  BY <1>2, <1>3 DEF OutOfRange, StackStarts
<1>4. CASE Clashing(f, f.services) # {}
  BY <1>2, <1>4 DEF Clashing, StackStarts
<1> QED BY <1>3, <1>4 DEF HasErrors

LEMMA FreshFormType == FreshForm \in Forms
BY RegistryAssumption, PortAssumption DEF FreshForm, Forms

LEMMA InitFormIInv == Init => FormIInv
<1> SUFFICES ASSUME Init PROVE FormIInv
  OBVIOUS
<1>1. posted \in [fields : Forms, acknowledged : BOOLEAN]
  BY FreshFormType DEF Init, NotPosted
<1>2. form \in Forms /\ 0 \in 0..MaxEdits
  BY FreshFormType, EditsAssumption DEF Init
<1>3. TypeOK
  BY <1>1, <1>2 DEF Init, TypeOK
<1>4. PanelOrder /\ GateOrder
  BY DEF Init, PanelOrder, GateOrder
<1> QED BY <1>3, <1>4 DEF FormIInv

(* An edit: the form stays a form and its version grows. *)
LEMMA EditKeepsFormIInv ==
  ASSUME FormIInv, NEW f \in Forms, EditTo(f)
  PROVE  FormIInv' /\ panel' = panel
BY EditsAssumption DEF FormIInv, TypeOK, PanelOrder, GateOrder, EditTo, HasErrors

(* A submission: the page says what the gate decided. *)
LEMMA PostKeepsGateOrder ==
  ASSUME NEW f \in Forms, NEW acknowledged \in BOOLEAN, Post(f, acknowledged)
  PROVE  /\ page' \in {"confirm", "build"} /\ GateOrder'
         /\ posted' \in [fields : Forms, acknowledged : BOOLEAN]
<1>1. posted' = [fields |-> f, acknowledged |-> acknowledged]
  BY DEF Post
<1>2. posted'.fields = f /\ posted'.acknowledged = acknowledged
  BY <1>1
<1>3. page' = IF HasErrors(f) /\ ~acknowledged THEN "confirm" ELSE "build"
  BY DEF Post, Gate
<1>4. GateOrder'
  BY <1>2, <1>3 DEF GateOrder, HasErrors, OutOfRange, Clashing, HostPort, SpecsFor
<1> QED BY <1>1, <1>3, <1>4

LEMMA NextFormIInv ==
  ASSUME FormIInv, [Next]_vars
  PROVE  FormIInv' /\ (page = "tuner" => panel' >= panel)
<1> USE DEF FormIInv
<1>1. CASE UNCHANGED vars
  BY <1>1 DEF vars, TypeOK, PanelOrder, GateOrder, HasErrors, OutOfRange, Clashing, HostPort,
     SpecsFor
<1>2. CASE TickService \/ TypePort \/ Tune \/ ResetForm
  <2>1. PICK f \in Forms : EditTo(f)
    BY <1>2, FreshFormType, RegistryAssumption
       DEF TickService, TypePort, Tune, ResetForm, Forms, TypeOK
  <2> QED BY <2>1, EditKeepsFormIInv DEF TypeOK
<1>3. CASE RefreshFindings
  <2>1. page = "tuner" /\ version \in 0..MaxEdits /\ flight \in SUBSET (0..MaxEdits)
    BY <1>3 DEF RefreshFindings, TypeOK, PanelOrder
  <2>2. TypeOK'
    BY <1>3, <2>1 DEF RefreshFindings, TypeOK
  <2>3. PanelOrder'
    BY <1>3, <2>1 DEF RefreshFindings, TypeOK, PanelOrder
  <2>4. GateOrder'
    BY <1>3, <2>1 DEF RefreshFindings, GateOrder
  <2> QED BY <1>3, <2>2, <2>3, <2>4 DEF RefreshFindings, TypeOK
<1>4. CASE PreviewAnswers
  BY <1>4 DEF PreviewAnswers, TypeOK, PanelOrder, GateOrder
<1>5. CASE Submit
  <2>1. Post(form, FALSE) /\ form \in Forms
    BY <1>5 DEF Submit, TypeOK
  <2>2. /\ page' \in {"confirm", "build"} /\ GateOrder'
        /\ posted' \in [fields : Forms, acknowledged : BOOLEAN]
    BY <2>1, PostKeepsGateOrder
  <2>3. TypeOK'
    BY <1>5, <2>2 DEF Submit, TypeOK
  <2>4. PanelOrder' /\ panel' >= panel
    BY <1>5, <2>2 DEF Submit, TypeOK, PanelOrder
  <2> QED BY <2>2, <2>3, <2>4
<1>6. CASE BuildAnyway
  <2>1. Post(posted.fields, TRUE) /\ posted.fields \in Forms
    BY <1>6 DEF BuildAnyway, TypeOK
  <2>2. /\ page' \in {"confirm", "build"} /\ GateOrder'
        /\ posted' \in [fields : Forms, acknowledged : BOOLEAN]
    BY <2>1, PostKeepsGateOrder
  <2> QED BY <1>6, <2>2 DEF BuildAnyway, TypeOK, PanelOrder
<1>7. CASE BackToTuner
  BY <1>7, FreshFormType, EditsAssumption
     DEF BackToTuner, TypeOK, PanelOrder, GateOrder, NotPosted
<1> QED BY <1>1, <1>2, <1>3, <1>4, <1>5, <1>6, <1>7 DEF Next

(* The inductive invariant of the form, the panel and the gate. *)
THEOREM FormInvariance == Spec => []FormIInv
BY InitFormIInv, NextFormIInv, PTL DEF Spec

(* The form stays a form: what it holds, what was posted and the previews
   on their way keep their types, in whatever order answers come in. *)
THEOREM FormTypeCorrect == Spec => []TypeOK
<1>1. FormIInv => TypeOK
  BY DEF FormIInv
<1> QED BY <1>1, FormInvariance, PTL

(* Nothing that cannot start is accepted in silence, as long as services
   are ticked together with what they require. *)
THEOREM GateHolds == Spec => []AcceptedStackStarts
<1>1. FormIInv => AcceptedStackStarts
  BY GateIsSound DEF FormIInv, TypeOK, GateOrder, AcceptedStackStarts
<1> QED BY <1>1, FormInvariance, PTL

(* Nobody is asked to acknowledge a configuration that would hold. *)
THEOREM GateWarranted == Spec => []ConfirmIsWarranted
<1>1. FormIInv => ConfirmIsWarranted
  BY GateIsWarranted DEF FormIInv, TypeOK, GateOrder, ConfirmIsWarranted
<1> QED BY <1>1, FormInvariance, PTL

(* The panel never falls back to older findings. *)
THEOREM PanelMovesForward == Spec => PanelNeverOlder
<1>1. FormIInv /\ [Next]_vars => [page = "tuner" => panel' >= panel]_vars
  BY NextFormIInv
<1> QED BY <1>1, FormInvariance, PTL DEF Spec, PanelNeverOlder

-----------------------------------------------------------------------------
(* services.resolve, walked a call at a time.  The walk lists what the
   definition of Resolved says: the least selection that is closed. *)

(* What the selection needs is needed of all it needs in turn. *)
LEMMA ResolvedIsClosed ==
  ASSUME NEW selected \in SUBSET Services, NEW k \in Resolved(selected)
  PROVE  Requires[k] \subseteq Resolved(selected)
BY RegistryAssumption DEF Resolved, Closed

(* Nothing smaller will do. *)
LEMMA ResolvedIsLeast ==
  ASSUME NEW selected \in SUBSET Services, NEW all \in SUBSET Services,
         selected \subseteq all, Closed(all)
  PROVE  Resolved(selected) \subseteq all
BY DEF Resolved

(* The call stack as a function: its innermost call may drop a requirement,
   a call may be put on top, and the innermost one may return. *)
LEMMA StackShape ==
  ASSUME calls \in Seq(Calls)
  PROVE  /\ Depth \in Nat /\ DOMAIN calls = 1..Depth
         /\ \A i \in 1..Depth : calls[i] \in Calls
         /\ calls # <<>> => Depth \in 1..Depth
<1>1. Len(calls) \in Nat /\ DOMAIN calls = 1..Len(calls)
  BY LenProperties
<1>2. \A i \in 1..Len(calls) : calls[i] \in Calls
  BY ElementOfSeq
<1>3. calls # <<>> => Len(calls) \in Nat \ {0}
  BY EmptySeq
<1> QED BY <1>1, <1>2, <1>3 DEF Depth

LEMMA LeftShape ==
  ASSUME calls \in Seq(Calls), calls # <<>>, NEW k,
         NEW under, under = [calls EXCEPT ![Depth].left = @ \ {k}]
  PROVE  /\ under \in Seq(Calls) /\ Len(under) = Depth /\ DOMAIN under = 1..Depth
         /\ \A i \in 1..Depth : under[i].key = calls[i].key
         /\ \A i \in 1..Depth :
              under[i].left = IF i = Depth THEN calls[i].left \ {k} ELSE calls[i].left
<1> DEFINE top == [calls[Depth] EXCEPT !.left = @ \ {k}]
<1>1. /\ Depth \in 1..Len(calls) /\ DOMAIN calls = 1..Depth
      /\ \A i \in 1..Depth : calls[i] \in Calls
  BY StackShape DEF Depth
<1>2. top \in Calls /\ top.key = calls[Depth].key /\ top.left = calls[Depth].left \ {k}
  BY <1>1 DEF Calls
<1>3. under = [calls EXCEPT ![Depth] = top]
  OBVIOUS
<1> HIDE DEF top
<1>4. /\ under \in Seq(Calls) /\ Len(under) = Len(calls)
      /\ \A i \in 1..Len(calls) : under[i] = IF i = Depth THEN top ELSE calls[i]
  <2>1. Depth \in 1..Len(calls) /\ top \in Calls /\ calls \in Seq(Calls)
    BY <1>1, <1>2
  <2>2. /\ [calls EXCEPT ![Depth] = top] \in Seq(Calls)
        /\ Len([calls EXCEPT ![Depth] = top]) = Len(calls)
        /\ \A j \in 1..Len(calls) :
             [calls EXCEPT ![Depth] = top][j] = IF j = Depth THEN top ELSE calls[j]
    BY <2>1, ExceptSeq
  <2> QED BY <1>3, <2>2
<1>5. DOMAIN under = 1..Depth
  BY <1>4, LenProperties DEF Depth
<1> QED BY <1>1, <1>2, <1>4, <1>5 DEF Depth

LEMMA AppendShape ==
  ASSUME NEW S, NEW seq \in Seq(S), NEW e \in S
  PROVE  /\ Append(seq, e) \in Seq(S) /\ Len(seq) \in Nat
         /\ DOMAIN seq = 1..Len(seq) /\ DOMAIN Append(seq, e) = 1..(Len(seq) + 1)
         /\ \A i \in 1..Len(seq) : Append(seq, e)[i] = seq[i]
         /\ Append(seq, e)[Len(seq) + 1] = e
<1>1. /\ Append(seq, e) \in Seq(S) /\ Len(Append(seq, e)) = Len(seq) + 1
      /\ \A i \in 1..Len(seq) : Append(seq, e)[i] = seq[i]
      /\ Append(seq, e)[Len(seq) + 1] = e
  BY AppendProperties
<1>2. Len(seq) \in Nat /\ DOMAIN seq = 1..Len(seq)
  BY LenProperties
<1>3. DOMAIN Append(seq, e) = 1..Len(Append(seq, e))
  BY <1>1, LenProperties
<1> QED BY <1>1, <1>2, <1>3

LEMMA ReturnShape ==
  ASSUME calls \in Seq(Calls), calls # <<>>,
         NEW under, under = SubSeq(calls, 1, Depth - 1)
  PROVE  /\ under \in Seq(Calls) /\ DOMAIN under = 1..(Depth - 1)
         /\ \A i \in 1..(Depth - 1) : under[i] = calls[i]
<1>1. /\ Depth \in 1..Depth /\ Depth \in Nat
      /\ \A i \in 1..Depth : calls[i] \in Calls
  BY StackShape
<1>2. 1 \in Int /\ Depth - 1 \in Int /\ \A i \in 1..(Depth - 1) : calls[i] \in Calls
  BY <1>1
<1>3. /\ under \in Seq(Calls)
      /\ Len(under) = IF 1 <= Depth - 1 THEN Depth - 1 - 1 + 1 ELSE 0
      /\ \A i \in 1..(Depth - 1 - 1 + 1) : under[i] = calls[1 + i - 1]
  BY <1>2, SubSeqProperties
<1>4. Len(under) = Depth - 1
  BY <1>1, <1>3
<1>5. DOMAIN under = 1..Len(under)
  BY <1>3, LenProperties
<1> QED BY <1>1, <1>3, <1>4, <1>5

(* Who requires each other in a circle is never called for: without
   circles, what the innermost call still needs is not under way. *)
LEMMA NoCircle ==
  ASSUME WalkTypeOK, WalkCalls, Acyclic, calls # <<>>,
         NEW k \in calls[Depth].left
  PROVE  k \notin Seen
<1>1. /\ Depth \in Nat /\ DOMAIN calls = 1..Depth /\ Depth \in 1..Depth
      /\ \A i \in 1..Depth : calls[i] \in Calls
  BY StackShape DEF WalkTypeOK
<1>2. k \in Requires[calls[Depth].key]
  BY <1>1 DEF WalkCalls
<1> SUFFICES ASSUME NEW i \in 1..Depth, k = calls[i].key
             PROVE  FALSE
  BY <1>1 DEF Seen
<1> DEFINE circle == {calls[m].key : m \in {l \in 1..Depth : l >= i}}
<1>3. circle \in (SUBSET Services) \ {{}}
  <2>1. circle \subseteq Services
    BY <1>1 DEF Calls
  <2>2. k \in circle
    BY <1>1
  <2> QED BY <2>1, <2>2
<1>4. ASSUME NEW c \in circle PROVE Requires[c] \cap circle # {}
  <2>1. PICK m \in 1..Depth : m >= i /\ c = calls[m].key
    BY <1>4
  <2>2. CASE m = Depth
    BY <2>1, <2>2, <1>1, <1>2
  <2>3. CASE m # Depth
    <3>1. m + 1 \in 1..Depth /\ m + 1 > 1 /\ (m + 1) - 1 = m /\ m + 1 >= i
      BY <2>1, <2>3, <1>1
    <3>2. calls[m + 1].key \in Requires[calls[(m + 1) - 1].key]
      BY <3>1, <1>1 DEF WalkCalls
    <3>3. calls[m + 1].key \in circle
      BY <3>1
    <3> QED BY <2>1, <3>1, <3>2, <3>3
  <2> QED BY <2>2, <2>3
<1>5. \E c \in circle : Requires[c] \cap circle = {}
  BY <1>3 DEF Acyclic
<1> QED BY <1>4, <1>5

LEMMA InitWalkIInv == ResolveInit => WalkIInv
<1> SUFFICES ASSUME ResolveInit PROVE WalkIInv
  OBVIOUS
<1>1. calls = <<>> /\ ordered = <<>> /\ keys = {} /\ page # "build"
  BY DEF ResolveInit, Init
<1>2. calls \in Seq(Calls) /\ ordered \in Seq(Services) /\ DOMAIN calls = {} /\ DOMAIN ordered = {}
  BY <1>1, EmptySeq
<1> QED BY <1>1, <1>2 DEF WalkIInv, WalkTypeOK, WalkNeeds, WalkCalls, WalkOrder

(* A request: what it accepts is about to be walked. *)
LEMMA FormStepWalkIInv ==
  ASSUME FormIInv, FormStep
  PROVE  WalkIInv'
<1>1. /\ calls' = <<>> /\ ordered' = <<>>
      /\ keys' = IF page' = "build" THEN posted'.fields.services ELSE {}
  BY DEF FormStep
<1>2. posted'.fields.services \in SUBSET Services
  BY NextFormIInv DEF FormStep, FormIInv, TypeOK, Forms
<1>3. /\ calls' \in Seq(Calls) /\ ordered' \in Seq(Services)
      /\ DOMAIN calls' = {} /\ DOMAIN ordered' = {}
  BY <1>1, EmptySeq
<1>4. WalkTypeOK'
  BY <1>1, <1>2, <1>3 DEF WalkTypeOK, Calls
<1>5. WalkNeeds'
  <2> SUFFICES ASSUME page' = "build"
      PROVE  /\ keys' \cup Done' \cup Seen' \subseteq Resolved(posted'.fields.services)
             /\ posted'.fields.services \subseteq keys' \cup Done' \cup Seen'
             /\ \A k \in Done' : Requires[k] \subseteq Done' \cup Seen'
    BY DEF WalkNeeds, Resolved, Closed
  <2>1. Done' = {} /\ Seen' = {}
    BY <1>3 DEF Done, Seen
  <2>2. posted'.fields.services \subseteq Resolved(posted'.fields.services)
    BY <1>2, ResolvedHasKeys
  <2> QED BY <1>1, <2>1, <2>2
<1>6. WalkCalls' /\ WalkOrder'
  BY <1>3 DEF WalkCalls, WalkOrder, Done, Seen
<1> QED BY <1>4, <1>5, <1>6 DEF WalkIInv

(* The next key of the submission: nothing is under way. *)
LEMMA AddKeyWalkIInv ==
  ASSUME FormIInv, WalkIInv, AddKey
  PROVE  WalkIInv'
<1>1. PICK k \in keys : keys' = keys \ {k} /\ AddTo(calls, k)
  BY DEF AddKey
<1>2. calls = <<>> /\ DOMAIN calls = {} /\ Seen = {}
  <2>1. calls = <<>>
    BY DEF AddKey
  <2> QED BY <2>1, EmptySeq DEF Seen
<1>3. UNCHANGED <<vars, ordered>> /\ Done' = Done /\ k \in Services /\ page = "build"
  BY <1>1 DEF AddTo, Done, WalkIInv, WalkTypeOK
<1>4. page' = page /\ posted' = posted
  BY <1>3 DEF vars
<1>5. posted.fields.services \in SUBSET Services
  BY DEF FormIInv, TypeOK, Forms
<1>6. CASE Skipped(k)
  <2>1. k \in Done /\ calls' = calls /\ Seen' = Seen
    BY <1>1, <1>2, <1>3, <1>6 DEF Skipped, AddTo, Seen
  <2>2. WalkTypeOK'
    BY <1>1, <1>3, <1>4, <2>1 DEF WalkIInv, WalkTypeOK
  <2>3. WalkNeeds'
    BY <1>1, <1>2, <1>3, <1>4, <2>1 DEF WalkIInv, WalkNeeds, Resolved, Closed
  <2>4. WalkCalls'
    BY <1>2, <1>3, <2>1 DEF WalkIInv, WalkCalls
  <2>5. WalkOrder'
    BY <1>2, <1>3, <2>1 DEF WalkIInv, WalkOrder, Acyclic
  <2> QED BY <2>2, <2>3, <2>4, <2>5 DEF WalkIInv
<1>7. CASE ~Skipped(k)
  <2> DEFINE call == [key |-> k, left |-> Requires[k]]
  <2>1. call \in Calls /\ call.key = k /\ call.left = Requires[k]
    BY <1>3, RegistryAssumption DEF Calls
  <2>2. calls' = Append(calls, call)
    BY <1>1, <1>7 DEF AddTo
  <2>3. calls' \in Seq(Calls) /\ DOMAIN calls' = {1} /\ calls'[1] = call
    <3>1. calls \in Seq(Calls) /\ Len(calls) = 0
      BY <1>2, EmptySeq
    <3> HIDE DEF call
    <3>2. /\ Append(calls, call) \in Seq(Calls) /\ DOMAIN Append(calls, call) = 1..(Len(calls) + 1)
          /\ Append(calls, call)[Len(calls) + 1] = call
      BY <3>1, <2>1, AppendShape
    <3> QED BY <3>1, <3>2, <2>2
  <2> HIDE DEF call
  <2>4. Seen' = {k} /\ k \notin Done
    BY <1>7, <2>1, <2>3 DEF Seen, Skipped
  <2>5. WalkTypeOK'
    BY <1>1, <1>3, <1>4, <2>3 DEF WalkIInv, WalkTypeOK
  <2>6. WalkNeeds'
    BY <1>1, <1>2, <1>3, <1>4, <2>4 DEF WalkIInv, WalkNeeds, Resolved, Closed
  <2>7. WalkCalls'
    BY <1>3, <2>1, <2>3, <2>4 DEF WalkIInv, WalkCalls
  <2>8. WalkOrder'
    BY <1>3, <2>1, <2>3 DEF WalkIInv, WalkOrder, Acyclic
  <2> QED BY <2>5, <2>6, <2>7, <2>8 DEF WalkIInv
<1> QED BY <1>6, <1>7

(* A requirement of the innermost call: listed or under way already, or
   called for on top.  Either way the innermost call has dealt with it. *)
LEMMA AddRequiredWalkIInv ==
  ASSUME FormIInv, WalkIInv, AddRequired
  PROVE  WalkIInv'
<1> DEFINE top == calls[Depth].key
<1>1. PICK k \in calls[Depth].left : AddTo([calls EXCEPT ![Depth].left = @ \ {k}], k)
  BY DEF AddRequired
<1> DEFINE under == [calls EXCEPT ![Depth].left = @ \ {k}]
<1>2. calls # <<>> /\ calls \in Seq(Calls) /\ keys' = keys
  BY DEF AddRequired, WalkIInv, WalkTypeOK
<1>3. /\ Depth \in Nat /\ DOMAIN calls = 1..Depth /\ Depth \in 1..Depth
      /\ \A i \in 1..Depth : calls[i] \in Calls
  BY <1>2, StackShape
<1>4. /\ under \in Seq(Calls) /\ Len(under) = Depth /\ DOMAIN under = 1..Depth
      /\ \A i \in 1..Depth : under[i].key = calls[i].key
      /\ \A i \in 1..Depth :
           under[i].left = IF i = Depth THEN calls[i].left \ {k} ELSE calls[i].left
  BY <1>2, LeftShape
<1>5. calls' = IF Skipped(k) THEN under ELSE Append(under, [key |-> k, left |-> Requires[k]])
  BY <1>1 DEF AddTo
<1>6. UNCHANGED <<vars, ordered>> /\ Done' = Done /\ page = "build"
  BY <1>1, <1>2 DEF AddTo, Done, WalkIInv, WalkTypeOK
<1>7. page' = page /\ posted' = posted /\ ordered' = ordered
  BY <1>6 DEF vars
<1>8. top \in Services /\ top \in Seen /\ k \in Requires[top] /\ k \in Services
  BY <1>3, RegistryAssumption DEF Calls, Seen, WalkIInv, WalkCalls
<1>9. k \in Resolved(posted.fields.services)
  <2>1. posted.fields.services \in SUBSET Services
    BY DEF FormIInv, TypeOK, Forms
  <2>2. top \in Resolved(posted.fields.services)
    BY <1>6, <1>8 DEF WalkIInv, WalkNeeds
  <2> HIDE DEF top
  <2> QED BY <2>1, <2>2, <1>8, ResolvedIsClosed
<1> HIDE DEF under
<1>10. CASE Skipped(k)
  <2>1. calls' = under
    BY <1>5, <1>10
  <2>2. Seen' = Seen
    BY <2>1, <1>3, <1>4 DEF Seen
  <2>3. k \in Done \cup Seen
    BY <1>8, <1>10 DEF Skipped
  <2>4. WalkTypeOK'
    BY <1>2, <1>4, <1>6, <1>7, <2>1 DEF WalkIInv, WalkTypeOK
  <2>5. WalkNeeds'
    BY <1>2, <1>6, <1>7, <2>2 DEF WalkIInv, WalkNeeds, Resolved, Closed
  <2>6. WalkCalls'
    <3>1. ASSUME NEW i \in 1..Depth
          PROVE  /\ calls'[i].left \subseteq Requires[calls'[i].key]
                 /\ Requires[calls'[i].key] \subseteq calls'[i].left \cup Done \cup Seen
                 /\ calls'[i].key \notin Done
                 /\ i > 1 => calls'[i].key \in Requires[calls'[i - 1].key]
      <4>1. /\ calls'[i].key = calls[i].key
            /\ calls[i].left \ {k} \subseteq calls'[i].left /\ calls'[i].left \subseteq calls[i].left
        BY <1>4, <2>1
      <4>2. i > 1 => calls'[i - 1].key = calls[i - 1].key
        BY <1>3, <1>4, <2>1
      <4>3. /\ calls[i].left \subseteq Requires[calls[i].key]
            /\ Requires[calls[i].key] \subseteq calls[i].left \cup Done \cup Seen
            /\ calls[i].key \notin Done
            /\ i > 1 => calls[i].key \in Requires[calls[i - 1].key]
        BY <1>3 DEF WalkIInv, WalkCalls
      <4> QED BY <4>1, <4>2, <4>3, <2>3
    <3>2. \A i, j \in 1..Depth : calls'[i].key = calls'[j].key => i = j
      BY <1>3, <1>4, <2>1 DEF WalkIInv, WalkCalls
    <3>3. \A i, j \in DOMAIN ordered' : ordered'[i] = ordered'[j] => i = j
      BY <1>7 DEF WalkIInv, WalkCalls
    <3>4. DOMAIN calls' = 1..Depth
      BY <1>4, <2>1
    <3> QED BY <3>1, <3>2, <3>3, <3>4, <2>2, <1>6 DEF WalkCalls
  <2>7. WalkOrder'
    <3> SUFFICES ASSUME Acyclic PROVE WalkOrder'
      BY DEF WalkOrder, Acyclic
    <3>1. k \in Done
      BY <2>3, <1>2, NoCircle DEF WalkIInv
    <3>2. ASSUME NEW i \in 1..Depth
          PROVE  Requires[calls'[i].key] \subseteq
                   calls'[i].left \cup Done
                     \cup {calls'[j].key : j \in {m \in 1..Depth : m > i}}
      <4>1. /\ calls'[i].key = calls[i].key
            /\ calls[i].left \ {k} \subseteq calls'[i].left
        BY <1>4, <2>1
      <4>2. Requires[calls[i].key] \subseteq
              calls[i].left \cup Done \cup {calls[j].key : j \in {m \in 1..Depth : m > i}}
        BY <1>3 DEF WalkIInv, WalkOrder
      <4>3. \A j \in 1..Depth : calls'[j].key = calls[j].key
        BY <1>4, <2>1
      <4> QED BY <4>1, <4>2, <4>3, <3>1
    <3>3. DOMAIN calls' = 1..Depth
      BY <1>4, <2>1
    <3>4. \A i \in DOMAIN ordered' :
            Requires[ordered'[i]] \subseteq {ordered'[j] : j \in {m \in DOMAIN ordered' : m < i}}
      BY <1>7 DEF WalkIInv, WalkOrder
    <3> QED BY <3>2, <3>3, <3>4, <1>6 DEF WalkOrder, Acyclic
  <2> QED BY <2>4, <2>5, <2>6, <2>7 DEF WalkIInv
<1>11. CASE ~Skipped(k)
  <2> DEFINE call == [key |-> k, left |-> Requires[k]]
  <2>1. call \in Calls /\ call.key = k /\ call.left = Requires[k]
    BY <1>8, RegistryAssumption DEF Calls
  <2>2. calls' = Append(under, call)
    BY <1>5, <1>11
  <2> HIDE DEF call
  <2>3. /\ calls' \in Seq(Calls) /\ DOMAIN calls' = 1..(Depth + 1)
        /\ \A i \in 1..Depth : calls'[i] = under[i]
        /\ calls'[Depth + 1] = call
    BY <1>4, <2>1, <2>2, AppendShape
  <2>4. k \notin Done /\ k \notin Seen
    BY <1>11 DEF Skipped
  <2>5. /\ \A i \in 1..Depth : calls'[i].key = calls[i].key
        /\ \A i \in 1..Depth :
             calls[i].left \ {k} \subseteq calls'[i].left /\ calls'[i].left \subseteq calls[i].left
        /\ calls'[Depth + 1].key = k /\ calls'[Depth + 1].left = Requires[k]
    BY <1>4, <2>1, <2>3
  <2>6. Seen' = Seen \cup {k}
    <3>1. Seen' = {calls'[i].key : i \in 1..(Depth + 1)}
      BY <2>3 DEF Seen
    <3>2. Seen = {calls[i].key : i \in 1..Depth}
      BY <1>3 DEF Seen
    <3>3. 1..(Depth + 1) = 1..Depth \cup {Depth + 1}
      BY <1>3
    <3> QED BY <3>1, <3>2, <3>3, <2>5
  <2>7. WalkTypeOK'
    BY <1>2, <1>6, <1>7, <2>3 DEF WalkIInv, WalkTypeOK
  <2>8. WalkNeeds'
    BY <1>2, <1>6, <1>7, <1>9, <2>6 DEF WalkIInv, WalkNeeds, Resolved, Closed
  <2>9. WalkCalls'
    <3>1. ASSUME NEW i \in 1..(Depth + 1)
          PROVE  /\ calls'[i].left \subseteq Requires[calls'[i].key]
                 /\ Requires[calls'[i].key] \subseteq calls'[i].left \cup Done \cup (Seen \cup {k})
                 /\ calls'[i].key \notin Done
                 /\ i > 1 => calls'[i].key \in Requires[calls'[i - 1].key]
      <4>1. CASE i = Depth + 1
        <5>1. calls'[(Depth + 1) - 1].key = top
          BY <1>3, <2>5
        <5> QED BY <4>1, <5>1, <1>8, <2>4, <2>5
      <4>2. CASE i # Depth + 1
        <5>1. i \in 1..Depth
          BY <1>3, <4>2
        <5>2. /\ calls'[i].key = calls[i].key
              /\ calls[i].left \ {k} \subseteq calls'[i].left
              /\ calls'[i].left \subseteq calls[i].left
          BY <5>1, <2>5
        <5>3. i > 1 => calls'[i - 1].key = calls[i - 1].key
          BY <5>1, <1>3, <2>5
        <5>4. /\ calls[i].left \subseteq Requires[calls[i].key]
              /\ Requires[calls[i].key] \subseteq calls[i].left \cup Done \cup Seen
              /\ calls[i].key \notin Done
              /\ i > 1 => calls[i].key \in Requires[calls[i - 1].key]
          BY <5>1, <1>3 DEF WalkIInv, WalkCalls
        <5> QED BY <5>2, <5>3, <5>4
      <4> QED BY <4>1, <4>2
    <3>2. ASSUME NEW i \in 1..(Depth + 1), NEW j \in 1..(Depth + 1),
                 calls'[i].key = calls'[j].key
          PROVE  i = j
      <4>1. \A m \in 1..Depth : calls[m].key # k
        BY <1>3, <2>4 DEF Seen
      <4>2. \A m, l \in 1..Depth : calls[m].key = calls[l].key => m = l
        BY <1>3 DEF WalkIInv, WalkCalls
      <4>3. i \in 1..Depth \/ i = Depth + 1
        BY <1>3
      <4>4. j \in 1..Depth \/ j = Depth + 1
        BY <1>3
      <4> QED BY <3>2, <4>1, <4>2, <4>3, <4>4, <2>5
    <3>3. \A i, j \in DOMAIN ordered' : ordered'[i] = ordered'[j] => i = j
      BY <1>7 DEF WalkIInv, WalkCalls
    <3> QED BY <3>1, <3>2, <3>3, <2>3, <2>6, <1>6 DEF WalkCalls
  <2>10. WalkOrder'
    <3> SUFFICES ASSUME Acyclic PROVE WalkOrder'
      BY DEF WalkOrder, Acyclic
    <3> DEFINE Above(i) == {calls'[j].key : j \in {m \in 1..(Depth + 1) : m > i}}
    <3>1. ASSUME NEW i \in 1..(Depth + 1)
          PROVE  Requires[calls'[i].key] \subseteq calls'[i].left \cup Done \cup Above(i)
      <4>1. CASE i = Depth + 1
        BY <4>1, <2>5
      <4>2. CASE i # Depth + 1
        <5>1. i \in 1..Depth /\ Depth + 1 \in 1..(Depth + 1) /\ Depth + 1 > i
          BY <1>3, <4>2
        <5>2. Requires[calls[i].key] \subseteq
                calls[i].left \cup Done \cup {calls[j].key : j \in {m \in 1..Depth : m > i}}
          BY <5>1, <1>3 DEF WalkIInv, WalkOrder
        <5>3. {calls[j].key : j \in {m \in 1..Depth : m > i}} \subseteq Above(i)
          BY <1>3, <2>5
        <5>4. k \in Above(i)
          BY <5>1, <2>5
        <5>5. calls'[i].key = calls[i].key /\ calls[i].left \ {k} \subseteq calls'[i].left
          BY <5>1, <2>5
        <5> HIDE DEF Above
        <5> QED BY <5>2, <5>3, <5>4, <5>5
      <4> QED BY <4>1, <4>2
    <3>2. \A i \in DOMAIN ordered' :
            Requires[ordered'[i]] \subseteq {ordered'[j] : j \in {m \in DOMAIN ordered' : m < i}}
      BY <1>7 DEF WalkIInv, WalkOrder
    <3> QED BY <3>1, <3>2, <2>3, <1>6 DEF WalkOrder, Acyclic
  <2> QED BY <2>7, <2>8, <2>9, <2>10 DEF WalkIInv
<1> QED BY <1>10, <1>11

(* The innermost call returns: it moves from the stack to the list. *)
LEMMA ListWalkIInv ==
  ASSUME WalkIInv, List
  PROVE  WalkIInv'
<1> DEFINE top == calls[Depth].key
<1>1. /\ calls # <<>> /\ calls \in Seq(Calls) /\ ordered \in Seq(Services)
      /\ calls[Depth].left = {} /\ ordered' = Append(ordered, top)
      /\ calls' = SubSeq(calls, 1, Depth - 1)
      /\ keys' = keys /\ page' = page /\ posted' = posted /\ page = "build"
  BY DEF List, vars, WalkIInv, WalkTypeOK
<1>2. /\ Depth \in Nat /\ DOMAIN calls = 1..Depth /\ Depth \in 1..Depth
      /\ \A i \in 1..Depth : calls[i] \in Calls
  BY <1>1, StackShape
<1>3. /\ calls' \in Seq(Calls) /\ DOMAIN calls' = 1..(Depth - 1)
      /\ \A i \in 1..(Depth - 1) : calls'[i] = calls[i]
  BY <1>1, ReturnShape
<1>4. top \in Services /\ top \notin Done
  BY <1>2 DEF Calls, WalkIInv, WalkCalls
<1> DEFINE last == Len(ordered) + 1
<1>5. /\ ordered' \in Seq(Services) /\ Len(ordered) \in Nat
      /\ DOMAIN ordered = 1..Len(ordered) /\ DOMAIN ordered' = 1..last
      /\ \A i \in 1..Len(ordered) : ordered'[i] = ordered[i]
      /\ ordered'[last] = top
  <2> HIDE DEF top
  <2> QED BY <1>1, <1>4, AppendShape
<1>6. \A i, j \in 1..Depth : calls[i].key = calls[j].key => i = j
  BY <1>2 DEF WalkIInv, WalkCalls
<1>7. Done' = Done \cup {top}
  <2>1. Done = {ordered[i] : i \in 1..Len(ordered)} /\ Done' = {ordered'[i] : i \in 1..last}
    BY <1>5 DEF Done
  <2>2. 1..last = 1..Len(ordered) \cup {last}
    BY <1>5
  <2> HIDE DEF top, last
  <2> QED BY <2>1, <2>2, <1>5
<1>8. Seen' = Seen \ {top}
  <2>1. Seen = {calls[i].key : i \in 1..Depth} /\ Seen' = {calls'[i].key : i \in 1..(Depth - 1)}
    BY <1>2, <1>3 DEF Seen
  <2>2. 1..Depth = 1..(Depth - 1) \cup {Depth} /\ Depth \notin 1..(Depth - 1)
    BY <1>2
  <2>3. \A i \in 1..(Depth - 1) : calls[i].key # top
    BY <2>2, <1>6
  <2> HIDE DEF top
  <2>4. Seen = Seen' \cup {calls[Depth].key}
    BY <2>1, <2>2, <1>3
  <2>5. top \notin Seen'
    BY <2>1, <2>3, <1>3
  <2> QED BY <2>4, <2>5 DEF top
<1>9. top \in Seen
  BY <1>2 DEF Seen
<1>10. Requires[top] \subseteq Done \cup Seen
  BY <1>1, <1>2 DEF WalkIInv, WalkCalls
<1> HIDE DEF top
<1>11. WalkTypeOK'
  BY <1>1, <1>3, <1>5 DEF WalkIInv, WalkTypeOK
<1>12. WalkNeeds'
  BY <1>1, <1>7, <1>8, <1>9, <1>10 DEF WalkIInv, WalkNeeds, Resolved, Closed
<1>13. WalkCalls'
  <2>1. ASSUME NEW i \in 1..(Depth - 1)
        PROVE  /\ calls'[i].left \subseteq Requires[calls'[i].key]
               /\ Requires[calls'[i].key] \subseteq calls'[i].left \cup Done' \cup Seen'
               /\ calls'[i].key \notin Done'
               /\ i > 1 => calls'[i].key \in Requires[calls'[i - 1].key]
    <3>1. i \in 1..Depth /\ i # Depth /\ (i > 1 => i - 1 \in 1..(Depth - 1))
      BY <1>2
    <3>2. calls[i].key # top
      BY <3>1, <1>2, <1>6 DEF top
    <3>3. /\ calls[i].left \subseteq Requires[calls[i].key]
          /\ Requires[calls[i].key] \subseteq calls[i].left \cup Done \cup Seen
          /\ calls[i].key \notin Done
          /\ i > 1 => calls[i].key \in Requires[calls[i - 1].key]
      BY <3>1, <1>2 DEF WalkIInv, WalkCalls
    <3>4. calls'[i] = calls[i] /\ (i > 1 => calls'[i - 1] = calls[i - 1])
      BY <3>1, <1>3
    <3> QED BY <3>2, <3>3, <3>4, <1>7, <1>8, <1>9
  <2>2. ASSUME NEW i \in 1..(Depth - 1), NEW j \in 1..(Depth - 1),
               calls'[i].key = calls'[j].key
        PROVE  i = j
    BY <2>2, <1>2, <1>3, <1>6
  <2>3. ASSUME NEW i \in 1..last, NEW j \in 1..last, ordered'[i] = ordered'[j]
        PROVE  i = j
    <3>1. \A m \in 1..Len(ordered) : ordered[m] # top
      BY <1>4, <1>5 DEF Done
    <3>2. \A m, l \in 1..Len(ordered) : ordered[m] = ordered[l] => m = l
      BY <1>5 DEF WalkIInv, WalkCalls
    <3>3. i \in 1..Len(ordered) \/ i = last
      BY <1>5
    <3>4. j \in 1..Len(ordered) \/ j = last
      BY <1>5
    <3> HIDE DEF last
    <3> QED BY <2>3, <3>1, <3>2, <3>3, <3>4, <1>5
  <2> QED BY <2>1, <2>2, <2>3, <1>3, <1>5 DEF WalkCalls
<1>14. WalkOrder'
  <2> SUFFICES ASSUME Acyclic PROVE WalkOrder'
    BY DEF WalkOrder, Acyclic
  <2>1. ASSUME NEW i \in 1..(Depth - 1)
        PROVE  Requires[calls'[i].key] \subseteq
                 calls'[i].left \cup Done'
                   \cup {calls'[j].key : j \in {m \in 1..(Depth - 1) : m > i}}
    <3>1. i \in 1..Depth /\ calls'[i] = calls[i]
      BY <1>2, <1>3
    <3>2. Requires[calls[i].key] \subseteq
            calls[i].left \cup Done \cup {calls[j].key : j \in {m \in 1..Depth : m > i}}
      BY <3>1, <1>2 DEF WalkIInv, WalkOrder
    <3>3. {calls[j].key : j \in {m \in 1..Depth : m > i}} \subseteq
            {top} \cup {calls'[j].key : j \in {m \in 1..(Depth - 1) : m > i}}
      BY <1>2, <1>3 DEF top
    <3> QED BY <3>1, <3>2, <3>3, <1>7
  <2>2. ASSUME NEW i \in 1..last
        PROVE  Requires[ordered'[i]] \subseteq {ordered'[j] : j \in {m \in 1..last : m < i}}
    <3>1. CASE i = last
      <4>1. Requires[top] \subseteq Done
        <5>1. Requires[top] \subseteq
                calls[Depth].left \cup Done \cup {calls[j].key : j \in {m \in 1..Depth : m > Depth}}
          BY <1>2 DEF WalkIInv, WalkOrder, top
        <5>2. {m \in 1..Depth : m > Depth} = {}
          BY <1>2
        <5> QED BY <5>1, <5>2, <1>1
      <4>2. Done \subseteq {ordered'[j] : j \in {m \in 1..last : m < last}}
        <5>1. \A m \in 1..Len(ordered) : m \in 1..last /\ m < last
          BY <1>5
        <5> HIDE DEF last
        <5> QED BY <5>1, <1>5 DEF Done
      <4> QED BY <3>1, <4>1, <4>2, <1>5
    <3>2. CASE i # last
      <4>1. i \in 1..Len(ordered) /\ ordered'[i] = ordered[i]
        BY <3>2, <1>5
      <4>2. Requires[ordered[i]] \subseteq {ordered[j] : j \in {m \in 1..Len(ordered) : m < i}}
        BY <4>1, <1>5 DEF WalkIInv, WalkOrder
      <4>3. \A m \in 1..Len(ordered) : m \in 1..last /\ ordered'[m] = ordered[m]
        BY <1>5
      <4> HIDE DEF last
      <4> QED BY <4>1, <4>2, <4>3
    <3> QED BY <3>1, <3>2
  <2> QED BY <2>1, <2>2, <1>3, <1>5 DEF WalkOrder, Acyclic
<1> QED BY <1>11, <1>12, <1>13, <1>14 DEF WalkIInv

(* What the run of the form checks is the form, and the walk beside it. *)
LEMMA ResolveStepIsFormStep == [ResolveNext]_resolveVars => [Next]_vars
BY DEF ResolveNext, FormStep, AddKey, AddRequired, AddTo, List, resolveVars, walkVars, vars

THEOREM WalkLeavesTheForm == ResolveSpec => Spec
<1>1. ResolveInit => Init
  BY DEF ResolveInit
<1> QED BY <1>1, ResolveStepIsFormStep, PTL DEF ResolveSpec, Spec

LEMMA NextWalkIInv == FormIInv /\ WalkIInv /\ [ResolveNext]_resolveVars => WalkIInv'
<1> SUFFICES ASSUME FormIInv, WalkIInv, [ResolveNext]_resolveVars PROVE WalkIInv'
  OBVIOUS
<1>1. CASE UNCHANGED resolveVars
  <2>1. /\ keys' = keys /\ calls' = calls /\ ordered' = ordered
        /\ page' = page /\ posted' = posted /\ Done' = Done /\ Seen' = Seen
    BY <1>1 DEF resolveVars, walkVars, vars, Done, Seen
  <2>2. WalkTypeOK' /\ WalkNeeds'
    BY <2>1 DEF WalkIInv, WalkTypeOK, WalkNeeds, Resolved, Closed
  <2>3. WalkCalls' /\ WalkOrder'
    BY <2>1 DEF WalkIInv, WalkCalls, WalkOrder, Acyclic
  <2> QED BY <2>2, <2>3 DEF WalkIInv
<1>2. CASE FormStep
  BY <1>2, FormStepWalkIInv
<1>3. CASE AddKey
  BY <1>3, AddKeyWalkIInv
<1>4. CASE AddRequired
  BY <1>4, AddRequiredWalkIInv
<1>5. CASE List
  BY <1>5, ListWalkIInv
<1> QED BY <1>1, <1>2, <1>3, <1>4, <1>5 DEF ResolveNext

(* The inductive invariant of form and walk: what a call left behind is
   listed or under way, and the stack is a chain of requirements. *)
THEOREM WalkInvariance == ResolveSpec => []ResolveIInv
<1>1. ResolveSpec => []FormIInv
  BY WalkLeavesTheForm, FormInvariance
<1>2. ResolveSpec => []WalkIInv
  BY <1>1, InitWalkIInv, NextWalkIInv, PTL DEF ResolveSpec
<1> QED BY <1>1, <1>2, PTL DEF ResolveIInv

(* services.resolve returns the least selection that has all it requires,
   each service once, and what a service requires before it; for every
   registry, and whatever order keys and requirements come in. *)
THEOREM ResolveIsRight == ResolveSpec => []ResolvesInOrder
<1>1. ResolveIInv => ResolvesInOrder
  <2> SUFFICES ASSUME FormIInv, WalkIInv PROVE ResolvesInOrder
    BY DEF ResolveIInv
  <2>1. ASSUME page = "build", Walked
        PROVE  Done = Resolved(posted.fields.services)
    <3>1. posted.fields.services \in SUBSET Services
      BY DEF FormIInv, TypeOK, Forms
    <3>2. Seen = {} /\ keys = {}
      BY <2>1, EmptySeq DEF Walked, Seen
    <3>3. /\ Done \subseteq Resolved(posted.fields.services)
          /\ posted.fields.services \subseteq Done /\ Closed(Done)
      BY <2>1, <3>2 DEF WalkIInv, WalkNeeds, Closed
    <3>4. Done \in SUBSET Services
      BY <3>3 DEF Resolved
    <3> QED BY <3>1, <3>3, <3>4, ResolvedIsLeast
  <2>2. \A i, j \in DOMAIN ordered : ordered[i] = ordered[j] => i = j
    BY DEF WalkIInv, WalkCalls
  <2>3. ASSUME Acyclic, NEW i \in DOMAIN ordered, NEW j \in DOMAIN ordered,
               ordered[j] \in Requires[ordered[i]]
        PROVE  j < i
    <3>1. PICK m \in DOMAIN ordered : m < i /\ ordered[j] = ordered[m]
      BY <2>3 DEF WalkIInv, WalkOrder
    <3> QED BY <3>1, <2>2
  <2> QED BY <2>1, <2>2, <2>3 DEF ResolvesInOrder
<1> QED BY <1>1, WalkInvariance, PTL
=============================================================================
