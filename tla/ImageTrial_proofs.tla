--------------------------- MODULE ImageTrial_proofs ---------------------------
(***************************************************************************)
(* The verdict of the smoke test and the removal of its container, for     *)
(* every registry of extensions, every set of selections and any number of *)
(* polls.                                                                  *)
(***************************************************************************)
EXTENDS ImageTrial, TLAPS

Boots(s) ==
  InitdbRuns(Image(s)) /\ ServerStarts(Image(s)) /\ ScriptsRun(Image(s))

(* How far the container came says what the image is. *)
BoxTells ==
  /\ box \in {"temporary", "between", "final"} =>
       InitdbRuns(Image(sel)) /\ ServerStarts(Image(sel))
  /\ box \in {"between", "final"} => ScriptsRun(Image(sel))
  /\ box = "exited" => ~Boots(sel)

(* The test has no result before it removes the container, and goes on
   polling only while it has polls left. *)
ResultOrder ==
  /\ pc \notin {"remove", "done"} => result = "none" /\ ~early
  /\ pc \in {"boot", "start", "poll", "isReady"} => polls < MaxPolls

(* A container without a handle is one that is being started, or was
   refused. *)
HandleOrder ==
  /\ box = "none" \/ held \/ pc = "start" \/ "start" \in trouble
  /\ pc = "done" => box = "none" \/ trouble \cap {"start", "remove"} # {}

IInv ==
  TypeOK /\ BoxTells /\ ResultOrder /\ HandleOrder /\ VerdictIsRight

-----------------------------------------------------------------------------
(* The generated context *)

(* What is generated never keeps a sound selection from booting: initdb
   knows its flags, every preloaded library and every extension created is
   installed. *)
LEMMA SoundBoots ==
  ASSUME NEW s \in AllSelections, Sound(s)
  PROVE  Boots(s)
<1>1. InitdbRuns(Image(s))
  BY DEF InitdbRuns, Image, RenderArgs, AllSelections, Majors
<1>2. ServerStarts(Image(s))
  <2>1. Image(s).minWal >= 2 * Image(s).args.segment
    BY DEF Sound, Image, RenderArgs
  <2>2. Image(s).preload \subseteq Image(s).installed
    BY DEF Image, PreloadLibraries, AptPackages, AllSelections
  <2> QED BY <2>1, <2>2 DEF ServerStarts
<1>3. ScriptsRun(Image(s))
  BY DEF ScriptsRun, Image, InitSql, PreloadLibraries, AptPackages, AllSelections
<1> QED BY <1>1, <1>2, <1>3 DEF Boots

(* A server that starts has room for two of its segments. *)
LEMMA StartedHasRoom ==
  ASSUME NEW s \in AllSelections, ServerStarts(Image(s))
  PROVE  s.minWal >= 2 * ResolveWalSegment(s.segment)
BY DEF ServerStarts, Image, RenderArgs

(* The arguments give the cluster what was selected, on either side of the
   version that changed the default, and an encoding that validates. *)
LEMMA ClusterAsSelected ==
  ASSUME NEW s \in AllSelections
  PROVE  Cluster(Image(s)) = [checksums |-> s.checksums, encoding |-> "UTF8",
                              segment |-> ResolveWalSegment(s.segment)]
<1>1. s.major \in {16, 17, 18} /\ s.checksums \in BOOLEAN /\ s.collation \in {"default", "C"}
  BY DEF AllSelections, Majors
<1>2. (RenderArgs(s).checksums = "on"
         \/ (RenderArgs(s).checksums = "default" /\ s.major >= 18)) = s.checksums
  <2>1. CASE s.checksums BY <2>1, <1>1 DEF RenderArgs
  <2>2. CASE ~s.checksums /\ s.major >= 18
    <3>1. RenderArgs(s).checksums = "off" BY <2>2 DEF RenderArgs
    <3> QED BY <3>1, <2>2, <1>1
  <2>3. CASE ~s.checksums /\ ~(s.major >= 18)
    <3>1. RenderArgs(s).checksums = "default" BY <2>3 DEF RenderArgs
    <3> QED BY <3>1, <2>3, <1>1
  <2> QED BY <2>1, <2>2, <2>3, <1>1
<1>3. (IF RenderArgs(s).locale = "C" /\ RenderArgs(s).encoding = "default"
       THEN "SQL_ASCII" ELSE "UTF8") = "UTF8"
  BY <1>1 DEF RenderArgs
<1>4. RenderArgs(s).segment = ResolveWalSegment(s.segment)
  BY DEF RenderArgs
<1>5. Image(s).args = RenderArgs(s) /\ Image(s).major = s.major
  BY DEF Image
<1> QED BY <1>2, <1>3, <1>4, <1>5 DEF Cluster

(* The comparison passes exactly where the last server is asked and has
   kept what it was given. *)
LEMMA VerdictMeans ==
  ASSUME sel \in AllSelections
  PROVE  /\ Verdict \in {"passed", "failed"}
         /\ Verdict = "passed" <=> box = "final" /\ ~sel.clamped
<1>1. [checksums |-> Cluster(Image(sel)).checksums, segment |-> Cluster(Image(sel)).segment]
        = Expected(sel)
  BY ClusterAsSelected DEF Expected
<1> QED BY <1>1 DEF Verdict

-----------------------------------------------------------------------------
(* The invariant *)

LEMMA InitIInv == Init => IInv
<1> SUFFICES ASSUME Init PROVE IInv
  OBVIOUS
<1>1. TypeOK
  <2>1. polls \in 0..MaxPolls BY TrialAssumption DEF Init
  <2> QED BY <2>1 DEF Init, TypeOK, Steps, Phases, Results
<1>2. BoxTells BY DEF Init, BoxTells
<1>3. ResultOrder BY TrialAssumption DEF Init, ResultOrder
<1>4. HandleOrder BY DEF Init, HandleOrder
<1>5. VerdictIsRight BY DEF Init, VerdictIsRight
<1> QED BY <1>1, <1>2, <1>3, <1>4, <1>5 DEF IInv

(* The container boots beside the test. *)
LEMMA BootStep ==
  ASSUME IInv, Boot
  PROVE  IInv'
<1> USE DEF IInv
<1>1. UNCHANGED <<sel, pc, held, polls, result, trouble, early>>
  BY DEF Boot
<1>2. box # "none" /\ box' \in {"temporary", "between", "final", "exited"}
  BY DEF Boot, Started, Initialised
<1>3. TypeOK' BY <1>1, <1>2 DEF TypeOK, Phases, Up
<1>4. BoxTells'
  BY <1>1 DEF Boot, Started, Initialised, BoxTells, Boots
<1>5. ResultOrder' BY <1>1 DEF ResultOrder
<1>6. HandleOrder' BY <1>1, <1>2 DEF HandleOrder
<1>7. VerdictIsRight' BY <1>1 DEF VerdictIsRight
<1> QED BY <1>3, <1>4, <1>5, <1>6, <1>7

(* Nothing of the test touches the selection. *)
LEMMA SmokeTestKeeps ==
  ASSUME SmokeTest
  PROVE  sel' = sel
BY DEF SmokeTest, CreateContainer, StartContainer, Reload, IsReady, ExecFails, QuerySettings,
       CallRaises, Remove, RemoveFails

(* A step that ends the test, seen from the verdict. *)
LEMMA SmokeTestStep ==
  ASSUME IInv, SmokeTest
  PROVE  IInv'
<1> USE DEF IInv
<1>1. sel' = sel BY SmokeTestKeeps
<1>2. sel \in AllSelections BY SelectionsAssumption DEF TypeOK
<1>4. Sound(sel) => Boots(sel) BY <1>2, SoundBoots
<1>5. polls \in Nat /\ MaxPolls \in Nat /\ polls <= MaxPolls
  BY TrialAssumption DEF TypeOK
<1>6. CASE CreateContainer
  <2>1. TypeOK' BY <1>1, <1>6 DEF TypeOK, CreateContainer, End, Steps, Phases, Results
  <2>2. BoxTells' BY <1>1, <1>6 DEF BoxTells, CreateContainer
  <2>3. ResultOrder' BY <1>6 DEF ResultOrder, CreateContainer, End
  <2>4. HandleOrder' BY <1>6 DEF HandleOrder, CreateContainer, End
  <2>5. VerdictIsRight' BY <1>1, <1>6 DEF VerdictIsRight, CreateContainer, End, ResultOrder
  <2> QED BY <2>1, <2>2, <2>3, <2>4, <2>5
<1>7. CASE StartContainer
  <2>1. TypeOK' BY <1>1, <1>7 DEF TypeOK, StartContainer, Steps, Phases, Up
  <2>2. BoxTells' BY <1>7 DEF BoxTells, StartContainer
  <2>3. ResultOrder' BY <1>7 DEF ResultOrder, StartContainer
  <2>4. HandleOrder' BY <1>7 DEF HandleOrder, StartContainer
  <2>5. VerdictIsRight' BY <1>7 DEF VerdictIsRight, StartContainer, ResultOrder
  <2> QED BY <2>1, <2>2, <2>3, <2>4, <2>5
<1>8. CASE Reload
  <2>1. TypeOK' BY <1>1, <1>8 DEF TypeOK, Reload, End, Steps, Results
  <2>2. BoxTells' BY <1>1, <1>8 DEF BoxTells, Reload
  <2>3. ResultOrder' BY <1>8 DEF ResultOrder, Reload, End
  <2>4. HandleOrder' BY <1>8 DEF HandleOrder, Reload, End
  <2>5. VerdictIsRight' BY <1>1, <1>4, <1>8 DEF VerdictIsRight, Reload, End, ResultOrder, BoxTells
  <2> QED BY <2>1, <2>2, <2>3, <2>4, <2>5
<1>9. CASE IsReady
  <2>1. polls < MaxPolls BY <1>9 DEF IsReady, ResultOrder
  <2>2. TypeOK' BY <1>1, <1>5, <1>9, <2>1 DEF TypeOK, IsReady, End, Steps, Results
  <2>3. BoxTells' BY <1>1, <1>9 DEF BoxTells, IsReady
  <2>4. ResultOrder' BY <1>5, <1>9, <2>1 DEF ResultOrder, IsReady, End
  <2>5. HandleOrder' BY <1>9 DEF HandleOrder, IsReady, End
  <2>6. VerdictIsRight' BY <1>1, <1>9 DEF VerdictIsRight, IsReady, End, ResultOrder
  <2> QED BY <2>2, <2>3, <2>4, <2>5, <2>6
<1>10. CASE ExecFails
  <2>1. TypeOK' BY <1>1, <1>10 DEF TypeOK, ExecFails, End, Steps, Results
  <2>2. BoxTells' BY <1>1, <1>10 DEF BoxTells, ExecFails
  <2>3. ResultOrder' BY <1>10 DEF ResultOrder, ExecFails, End
  <2>4. HandleOrder' BY <1>10 DEF HandleOrder, ExecFails, End
  <2>5. VerdictIsRight' BY <1>1, <1>4, <1>10 DEF VerdictIsRight, ExecFails, End, BoxTells
  <2> QED BY <2>1, <2>2, <2>3, <2>4, <2>5
<1>11. CASE QuerySettings
  <2> USE <1>2, VerdictMeans
  <2>1. TypeOK' BY <1>1, <1>11 DEF TypeOK, QuerySettings, End, Steps, Results
  <2>2. BoxTells' BY <1>1, <1>11 DEF BoxTells, QuerySettings
  <2>3. ResultOrder' BY <1>11 DEF ResultOrder, QuerySettings, End
  <2>4. HandleOrder' BY <1>11 DEF HandleOrder, QuerySettings, End
  <2>5. VerdictIsRight'
    <3>1. result' = Verdict /\ sel' = sel /\ early' = (box = "temporary")
      BY <1>11 DEF QuerySettings, End
    <3>2. CASE box = "final"
      <4>1. sel.minWal >= 2 * ResolveWalSegment(sel.segment)
        BY <3>2, StartedHasRoom DEF BoxTells
      <4>2. Verdict = "passed" <=> Sound(sel) BY <3>2, <4>1 DEF Sound
      <4> QED BY <3>1, <3>2, <4>2, ClusterAsSelected DEF VerdictIsRight
    <3>3. CASE box = "temporary"
      BY <3>1, <3>3 DEF VerdictIsRight
    <3> QED BY <1>11, <3>2, <3>3 DEF QuerySettings
  <2> QED BY <2>1, <2>2, <2>3, <2>4, <2>5
<1>12. CASE CallRaises
  <2>1. TypeOK' BY <1>1, <1>12 DEF TypeOK, CallRaises, End, Steps, Results
  <2>2. BoxTells' BY <1>1, <1>12 DEF BoxTells, CallRaises
  <2>3. ResultOrder' BY <1>12 DEF ResultOrder, CallRaises, End
  <2>4. HandleOrder' BY <1>12 DEF HandleOrder, CallRaises, End
  <2>5. VerdictIsRight' BY <1>1, <1>12 DEF VerdictIsRight, CallRaises, End
  <2> QED BY <2>1, <2>2, <2>3, <2>4, <2>5
<1>13. CASE Remove
  <2>1. TypeOK' BY <1>1, <1>13 DEF TypeOK, Remove, Steps, Phases
  <2>2. BoxTells' BY <1>1, <1>13 DEF BoxTells, Remove
  <2>3. ResultOrder' BY <1>13 DEF ResultOrder, Remove
  <2>4. HandleOrder' BY <1>13 DEF HandleOrder, Remove
  <2>5. VerdictIsRight' BY <1>1, <1>13 DEF VerdictIsRight, Remove
  <2> QED BY <2>1, <2>2, <2>3, <2>4, <2>5
<1>14. CASE RemoveFails
  <2>1. TypeOK' BY <1>1, <1>14 DEF TypeOK, RemoveFails, Steps, Results
  <2>2. BoxTells' BY <1>1, <1>14 DEF BoxTells, RemoveFails
  <2>3. ResultOrder' BY <1>14 DEF ResultOrder, RemoveFails
  <2>4. HandleOrder' BY <1>14 DEF HandleOrder, RemoveFails
  <2>5. VerdictIsRight' BY <1>1, <1>14 DEF VerdictIsRight, RemoveFails
  <2> QED BY <2>1, <2>2, <2>3, <2>4, <2>5
<1> QED BY <1>6, <1>7, <1>8, <1>9, <1>10, <1>11, <1>12, <1>13, <1>14 DEF SmokeTest

(* Types, the verdict and what they rest on hold in every
   state of every trial. *)
THEOREM TrialInvariance == Spec => []IInv
<1>1. Init => IInv BY InitIInv
<1>2. IInv /\ [Next]_vars => IInv'
  <2> SUFFICES ASSUME IInv, [Next]_vars PROVE IInv'
    OBVIOUS
  <2>1. CASE Next BY <2>1, SmokeTestStep, BootStep DEF Next
  <2>2. CASE UNCHANGED vars
    BY <2>2 DEF vars, IInv, TypeOK, BoxTells, ResultOrder, HandleOrder, VerdictIsRight
  <2> QED BY <2>1, <2>2
<1> QED BY <1>1, <1>2, PTL DEF Spec

(* Every variable keeps its type. *)
THEOREM TrialTypeCorrect == Spec => []TypeOK
<1>1. IInv => TypeOK BY DEF IInv
<1> QED BY <1>1, TrialInvariance, PTL

(* The smoke test passes only a sound selection, asked of the server that
   stays on a cluster as selected, and blames a sound one only for a client
   that raised, polls that ran out or a question asked too early. *)
THEOREM VerdictHolds == Spec => []VerdictIsRight
<1>1. IInv => VerdictIsRight BY DEF IInv
<1> QED BY <1>1, TrialInvariance, PTL

(* Only a refused start or a refused removal leaves a container behind. *)
THEOREM ContainersAreRemoved == Spec => []NothingLeftBehind
<1>1. IInv => NothingLeftBehind BY DEF IInv, HandleOrder, NothingLeftBehind
<1> QED BY <1>1, TrialInvariance, PTL
===============================================================================
