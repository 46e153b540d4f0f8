------------------------------ MODULE Tuning_proofs ------------------------------
(***************************************************************************)
(* What holds of the recommendation for every machine hardware.py accepts: *)
(* the worker limits grant what they promise, and WAL segments fit.        *)
(***************************************************************************)
EXTENDS Tuning, TLAPS, WellFoundedInduction

WorkerKeys ==
  {"max_worker_processes", "max_parallel_workers", "max_parallel_workers_per_gather",
   "max_parallel_maintenance_workers"}

LEMMA KeysOfInterest ==
  /\ WorkerKeys \cup {"min_wal_size", "max_wal_size"} \subseteq Keys
  /\ {"min_wal_size", "max_wal_size"} \subseteq MemoryKeys
BY DEF WorkerKeys, Keys, Slider, MemoryKeys

(* Sliders in steps of one only cut off. *)
LEMMA UnitStep ==
  ASSUME NEW lo \in Nat, NEW hi \in Nat, lo <= hi, NEW x \in Nat
  PROVE  NearestStop(lo, hi, 1, x) = Most(lo, Least(hi, x))
BY DEF NearestStop, Most, Least

LEMMA WorkerSliders ==
  ASSUME NEW x \in Nat
  PROVE  /\ Sanitised("max_worker_processes", x) = Most(4, Least(64, x))
         /\ Sanitised("max_parallel_workers", x) = Most(0, Least(64, x))
         /\ Sanitised("max_parallel_workers_per_gather", x) = Most(0, Least(16, x))
         /\ Sanitised("max_parallel_maintenance_workers", x) = Most(0, Least(16, x))
<1>1. /\ Sanitised("max_worker_processes", x) = NearestStop(4, 64, 1, x)
      /\ Sanitised("max_parallel_workers", x) = NearestStop(0, 64, 1, x)
      /\ Sanitised("max_parallel_workers_per_gather", x) = NearestStop(0, 16, 1, x)
      /\ Sanitised("max_parallel_maintenance_workers", x) = NearestStop(0, 16, 1, x)
  BY DEF Sanitised, Slider, Range3
<1> QED BY <1>1, UnitStep

(* WAL sizes of whole quarters of a gigabyte are left as they are. *)
LEMMA WalSliders ==
  ASSUME NEW g \in 1..16
  PROVE  /\ Sanitised("max_wal_size", g * GB) = g * GB
         /\ Sanitised("min_wal_size", g * (256 * MB)) = g * (256 * MB)
<1>1. /\ Sanitised("max_wal_size", g * GB)
           = NearestStop(256 * MB, 16384 * MB, 256 * MB, g * GB)
      /\ Sanitised("min_wal_size", g * (256 * MB))
           = NearestStop(32 * MB, 8192 * MB, 32 * MB, g * (256 * MB))
  BY DEF Sanitised, Slider, Range3
<1>2. NearestStop(262144, 16777216, 262144, g * 1048576) = g * 1048576
  BY DEF NearestStop, Most, Least
<1>3. NearestStop(32768, 8388608, 32768, g * 262144) = g * 262144
  BY DEF NearestStop, Most, Least
<1>4. /\ GB = 1048576 /\ 256 * MB = 262144 /\ 16384 * MB = 16777216
      /\ 32 * MB = 32768 /\ 8192 * MB = 8388608
  BY DEF GB, MB
<1> QED BY <1>1, <1>2, <1>3, <1>4

LEMMA WholeWal ==
  ASSUME NEW g \in 1..16
  PROVE  WholeMB(g * GB) = g * GB /\ WholeMB(g * (256 * MB)) = g * (256 * MB)
BY DEF WholeMB, GB, MB

LEMMA RecommendedWorkers ==
  ASSUME NEW w, NEW m, m.vcpu \in 1..256
  PROVE  /\ Recommended(w, m)["max_worker_processes"] = m.vcpu
         /\ Recommended(w, m)["max_parallel_workers"] = m.vcpu
         /\ Recommended(w, m)["max_parallel_workers_per_gather"] = Most(m.vcpu \div 2, 1)
         /\ Recommended(w, m)["max_parallel_maintenance_workers"]
              = Least(Most(m.vcpu \div 2, 1), 4)
BY DEF Recommended, ParallelWorkers

LEMMA RecommendedWal ==
  ASSUME NEW w, NEW m, m.ram \in 1..4096
  PROVE  \E g \in 1..16 : /\ Recommended(w, m)["max_wal_size"] = g * GB
                          /\ Recommended(w, m)["min_wal_size"] = g * (256 * MB)
<1>0. PICK r \in 1..4096 : r = m.ram
  OBVIOUS
<1>1. PICK g \in 1..16 : g = Most(1, Least(16, r \div 4))
  BY DEF Most, Least
<1>2. MaxWal(m.ram) = g * GB
  BY <1>0, <1>1 DEF MaxWal
<1>3. Most(256 * MB, (g * GB) \div 4) = g * (256 * MB)
  BY DEF Most, GB, MB
<1>4. /\ Recommended(w, m)["max_wal_size"] = MaxWal(m.ram)
      /\ Recommended(w, m)["min_wal_size"] = Most(256 * MB, MaxWal(m.ram) \div 4)
  BY DEF Recommended
<1> QED BY <1>2, <1>3, <1>4

-----------------------------------------------------------------------------
(* Suggested machines are machines *)

LEMMA LeastExists ==
  ASSUME NEW S \in SUBSET Nat, S # {}
  PROVE  Min(S) \in S
<1>1. PICK x \in S : \A y \in S : <<y, x>> \notin OpToRel(<, Nat)
  BY NatLessThanWellFounded, WFMin
<1>2. \A y \in S : ~(y < x)
  <2> SUFFICES ASSUME NEW y \in S, y < x  PROVE FALSE
    OBVIOUS
  <2>1. <<y, x>> \in Nat \X Nat /\ <<y, x>>[1] = y /\ <<y, x>>[2] = x
    OBVIOUS
  <2>2. <<y, x>> \in OpToRel(<, Nat)
    BY <2>1, Zenon DEF OpToRel
  <2> QED BY <1>1, <2>2
<1>3. \A y \in S : x <= y
  <2>1. x \in Nat /\ \A y \in S : y \in Nat
    OBVIOUS
  <2> QED BY <1>2, <2>1
<1> QED BY <1>3 DEF Min

LEMMA LargestStep == Max(VcpuSteps) = 128 /\ Max(RamSteps) = 1024
<1>1. 128 \in VcpuSteps /\ \A s \in VcpuSteps : s \in Nat /\ s <= 128
  BY DEF VcpuSteps
<1>2. 1024 \in RamSteps /\ \A s \in RamSteps : s \in Nat /\ s <= 1024
  BY DEF RamSteps
<1> QED BY <1>1, <1>2 DEF Max

LEMMA SuggestedIsReal ==
  ASSUME NEW w, NEW d, NEW q
  PROVE  Suggested(w, d, q).vcpu \in 1..256 /\ Suggested(w, d, q).ram \in 1..4096
<1>1. /\ \A S \in SUBSET VcpuSteps : LeastOf(S, VcpuSteps) \in VcpuSteps
      /\ \A S \in SUBSET RamSteps : LeastOf(S, RamSteps) \in RamSteps
  <2>1. VcpuSteps \subseteq Nat /\ RamSteps \subseteq Nat
    BY DEF VcpuSteps, RamSteps
  <2>2. Max(VcpuSteps) \in VcpuSteps /\ Max(RamSteps) \in RamSteps
    BY LargestStep DEF VcpuSteps, RamSteps
  <2> QED BY <2>1, <2>2, LeastExists DEF LeastOf
<1>2. Suggested(w, d, q).vcpu \in VcpuSteps /\ Suggested(w, d, q).ram \in RamSteps
  BY <1>1 DEF Suggested
<1> QED BY <1>2 DEF VcpuSteps, RamSteps

-----------------------------------------------------------------------------
(* An untouched form *)

WorkerRules == {"per_gather", "parallel_total", "maintenance"}

LEMMA OnlyWorkerFindings ==
  ASSUME NEW v, NEW m
  PROVE  Findings(v, m) \cap WorkerRules = WorkerFindings(v)
BY DEF Findings, WorkerRules, MemoryFindings, WorkerFindings, PoolerFindings, Raised

(* The chain of limits and the room for segments, of a set of values. *)
Chained(v) ==
  /\ ~(v["max_parallel_workers_per_gather"] > v["max_parallel_workers"])
  /\ ~(v["max_parallel_workers"] > v["max_worker_processes"])
  /\ ~(v["max_parallel_maintenance_workers"] > v["max_parallel_workers"])
Roomy(v) ==
  /\ WholeMB(v["min_wal_size"]) >= 2 * 128 * MB
  /\ WholeMB(v["min_wal_size"]) <= WholeMB(v["max_wal_size"])

LEMMA ChainRaisesNothing ==
  ASSUME NEW v, Chained(v)
  PROVE  WorkerFindings(v) = {}
<1> DEFINE flags ==
      [per_gather |-> v.max_parallel_workers_per_gather > v.max_parallel_workers,
       parallel_total |-> v.max_parallel_workers > v.max_worker_processes,
       maintenance |-> v.max_parallel_maintenance_workers > v.max_parallel_workers]
<1>1. DOMAIN flags = WorkerRules
  BY DEF WorkerRules
<1>2. ~flags["per_gather"] /\ ~flags["parallel_total"] /\ ~flags["maintenance"]
  BY Zenon DEF Chained
<1>3. WorkerFindings(v) = {f \in DOMAIN flags : flags[f]}
  BY DEF WorkerFindings, Raised
<1> HIDE DEF flags
<1> QED BY <1>1, <1>2, <1>3 DEF WorkerRules

LEMMA RecommendationIsSound ==
  ASSUME NEW w, NEW m, m.vcpu \in 1..256, m.ram \in 1..4096
  PROVE  /\ Chained([k \in Keys |-> Recommended(w, m)[k]])
         /\ Chained(FreshFields(w, m))
         /\ Roomy([k \in Keys |-> Recommended(w, m)[k]])
         /\ Roomy(FreshFields(w, m))
<1> DEFINE R == Recommended(w, m)
           V == [k \in Keys |-> R[k]]
           F == FreshFields(w, m)
<1>1. /\ \A k \in WorkerKeys \cup {"min_wal_size", "max_wal_size"} :
            V[k] = R[k] /\ F[k] = Sanitised(k, R[k])
  BY KeysOfInterest DEF FreshFields
<1>2. PICK c \in 1..256 : c = m.vcpu
  OBVIOUS
<1>3. PICK half \in 1..128 : half = Most(c \div 2, 1) /\ half <= c
  BY DEF Most
<1>4. /\ R["max_worker_processes"] = c
      /\ R["max_parallel_workers"] = c
      /\ R["max_parallel_workers_per_gather"] = half
      /\ R["max_parallel_maintenance_workers"] = Least(half, 4)
  BY <1>2, <1>3, RecommendedWorkers
<1>5. Least(half, 4) \in 1..4 /\ Least(half, 4) <= c
  BY <1>3 DEF Least
<1>6. Chained(V)
  BY <1>1, <1>3, <1>4, <1>5 DEF Chained, WorkerKeys
<1>7. /\ F["max_worker_processes"] = Most(4, Least(64, c))
      /\ F["max_parallel_workers"] = Most(0, Least(64, c))
      /\ F["max_parallel_workers_per_gather"] = Most(0, Least(16, half))
      /\ F["max_parallel_maintenance_workers"] = Most(0, Least(16, Least(half, 4)))
  <2>1. c \in Nat /\ half \in Nat /\ Least(half, 4) \in Nat
    BY <1>5
  <2> QED BY <1>1, <1>4, <2>1, WorkerSliders DEF WorkerKeys
<1>8. Chained(F)
  BY <1>3, <1>5, <1>7 DEF Chained, Most, Least
<1>9. PICK g \in 1..16 : R["max_wal_size"] = g * GB /\ R["min_wal_size"] = g * (256 * MB)
  BY RecommendedWal
<1>10. /\ V["max_wal_size"] = g * GB /\ V["min_wal_size"] = g * (256 * MB)
       /\ F["max_wal_size"] = g * GB /\ F["min_wal_size"] = g * (256 * MB)
  BY <1>1, <1>9, WalSliders
<1>11. g * (256 * MB) >= 2 * 128 * MB /\ g * (256 * MB) <= g * GB
  BY DEF GB, MB
<1> HIDE DEF V, F
<1>12. Roomy(V) /\ Roomy(F)
  BY <1>10, <1>11, WholeWal DEF Roomy
<1> QED BY <1>6, <1>8, <1>12 DEF V, F

-----------------------------------------------------------------------------
(* The page: its machine is real, and what nobody touched is fresh. *)

PageIInv ==
  /\ workload \in Workloads
  /\ machine.vcpu \in 1..256 /\ machine.ram \in 1..4096
  /\ drags \in Nat
  /\ drags = 0 => fields = FreshFields(workload, machine)
  /\ WorkersAreGranted
  /\ SegmentsFit

LEMMA PresetsAreReal ==
  \A t \in DOMAIN Preset : Preset[t].vcpu \in 1..256 /\ Preset[t].ram \in 1..4096
BY SMTT(20) DEF Preset

LEMMA FromKeepsShape ==
  ASSUME NEW o, NEW m
  PROVE  From(o, m).vcpu = m.vcpu /\ From(o, m).ram = m.ram
BY DEF From

LEMMA ResolvedIsReal ==
  ASSUME NEW w \in Workloads, NEW m
  PROVE  Resolved(w, m).vcpu \in 1..256 /\ Resolved(w, m).ram \in 1..4096
<1>1. RecommendedTier[w] \in DOMAIN Preset
  BY DEF Workloads, Connections, RecommendedTier, Preset
<1>2. CASE Real(m)
  <2>1. Resolved(w, m) = From("custom", m)
    BY <1>2 DEF Resolved
  <2> QED BY <1>2, <2>1, FromKeepsShape DEF Real
<1>3. CASE ~Real(m)
  <2>0. PICK t \in DOMAIN Preset : t = RecommendedTier[w]
    BY <1>1
  <2>1. PICK p : p = Preset[t]
    OBVIOUS
  <2>2. p.vcpu \in 1..256 /\ p.ram \in 1..4096
    BY <2>1, PresetsAreReal, SMTT(20)
  <2>3. Resolved(w, m) = From("preset", p)
    BY <1>3, <2>0, <2>1 DEF Resolved
  <2> QED BY <2>2, <2>3, FromKeepsShape, SMTT(20)
<1> QED BY <1>2, <1>3

LEMMA NothingBuilt ==
  /\ built = NoBuild => WorkersAreGranted /\ SegmentsFit
  /\ built' = NoBuild => WorkersAreGranted' /\ SegmentsFit'
BY DEF WorkersAreGranted, SegmentsFit, Untouched

LEMMA InitPageIInv == Init => PageIInv
<1> SUFFICES ASSUME Init PROVE PageIInv
  OBVIOUS
<1>1. workload \in Workloads
  BY DEF Init, Workloads, Connections
<1>2. machine.vcpu \in 1..256 /\ machine.ram \in 1..4096
  <2>1. machine = From("preset", [vcpu |-> 4, ram |-> 16])
    BY DEF Init, Preset
  <2> QED BY <2>1 DEF From
<1>3. /\ drags \in Nat /\ built = NoBuild
      /\ drags = 0 => fields = FreshFields(workload, machine)
  BY DEF Init
<1>4. WorkersAreGranted /\ SegmentsFit
  BY <1>3, NothingBuilt, Zenon
<1> QED BY <1>1, <1>2, <1>3, <1>4, SMTT(20) DEF PageIInv

(* A page loaded for a real machine starts anew. *)
LEMMA LoadKeepsPageIInv ==
  ASSUME NEW w \in Workloads, NEW m, m.vcpu \in 1..256, m.ram \in 1..4096, Load(w, m)
  PROVE  PageIInv'
BY NothingBuilt, SMTT(20) DEF Load, PageIInv

(* What an untouched form submits, whichever fields it carries. *)
LEMMA UntouchedValues ==
  ASSUME NEW missing \in {{}, Keys}, missing = Keys \/ fields = FreshFields(workload, machine)
  PROVE  LET v == Submitted(workload, machine, fields, missing)
         IN \/ v = [k \in Keys |-> Recommended(workload, machine)[k]]
            \/ v = FreshFields(workload, machine)
BY DEF Submitted, FreshFields

LEMMA BuildKeepsPageIInv == PageIInv /\ Build => PageIInv'
<1> SUFFICES ASSUME PageIInv, Build PROVE PageIInv'
  OBVIOUS
<1>1. PICK missing \in {{}, Keys} :
        LET values == Submitted(workload, machine, fields, missing)
        IN built' = [made |-> TRUE, conf |-> Conf(values), held |-> HeldTo(values),
                     findings |-> Findings(values, machine),
                     untouched |-> drags = 0 \/ missing = Keys]
  BY DEF Build
<1>2. PICK v : v = Submitted(workload, machine, fields, missing)
  OBVIOUS
<1>3. /\ built'.conf = Conf(v) /\ built'.findings = Findings(v, machine)
      /\ built'.untouched = (drags = 0 \/ missing = Keys)
  BY <1>1, <1>2
<1>4. /\ UNCHANGED <<workload, machine, fields, drags>>
  BY DEF Build
<1>5. ASSUME built'.untouched PROVE Chained(v) /\ Roomy(v)
  <2>1. missing = Keys \/ fields = FreshFields(workload, machine)
    <3>1. drags = 0 \/ missing = Keys
      BY <1>3, <1>5, Zenon
    <3>2. drags = 0 => fields = FreshFields(workload, machine)
      BY DEF PageIInv
    <3> QED BY <3>1, <3>2
  <2>2. PICK w, m : w = workload /\ m = machine
    OBVIOUS
  <2>3. v = [k \in Keys |-> Recommended(w, m)[k]] \/ v = FreshFields(w, m)
    BY <1>2, <2>1, <2>2, UntouchedValues
  <2>4. m.vcpu \in 1..256 /\ m.ram \in 1..4096
    BY <2>2, SMTT(20) DEF PageIInv
  <2>5. /\ Chained([k \in Keys |-> Recommended(w, m)[k]])
        /\ Roomy([k \in Keys |-> Recommended(w, m)[k]])
        /\ Chained(FreshFields(w, m)) /\ Roomy(FreshFields(w, m))
    BY <2>4, RecommendationIsSound
  <2> QED BY <2>3, <2>5, Zenon
<1>6. WorkersAreGranted'
  BY <1>3, <1>5, ChainRaisesNothing, OnlyWorkerFindings
     DEF WorkersAreGranted, Untouched, WorkerRules
<1>7. /\ Conf(v)["min_wal_size"] = WholeMB(v["min_wal_size"])
      /\ Conf(v)["max_wal_size"] = WholeMB(v["max_wal_size"])
  BY KeysOfInterest DEF Conf
<1>8. SegmentsFit'
  BY <1>3, <1>5, <1>7 DEF SegmentsFit, Untouched, Roomy
<1> QED BY <1>4, <1>6, <1>8 DEF PageIInv

LEMMA NextPageIInv == PageIInv /\ [Next]_vars => PageIInv'
<1> SUFFICES ASSUME PageIInv, [Next]_vars PROVE PageIInv'
  OBVIOUS
<1>0. PICK here : here = workload /\ here \in Workloads
  BY DEF PageIInv
<1>1. CASE PickWorkload
  <2>1. PICK w \in Workloads, o \in {machine.origin, "custom"} :
          Load(w, [machine EXCEPT !.origin = o])
    BY <1>1 DEF PickWorkload
  <2>2. PICK m : m = [machine EXCEPT !.origin = o]
    OBVIOUS
  <2>3. m.vcpu \in 1..256 /\ m.ram \in 1..4096
    BY <2>2, SMTT(20) DEF PageIInv
  <2>4. Load(w, m)
    BY <2>1, <2>2
  <2> QED BY <2>3, <2>4, LoadKeepsPageIInv
<1>2. CASE PickPreset
  <2>1. PICK t \in DOMAIN Preset : Load(workload, From("preset", Preset[t]))
    BY <1>2 DEF PickPreset
  <2>2. PICK m : m = From("preset", Preset[t])
    OBVIOUS
  <2>3. m.vcpu \in 1..256 /\ m.ram \in 1..4096
    BY <2>2, PresetsAreReal, FromKeepsShape, SMTT(20)
  <2> QED BY <1>0, <2>1, <2>2, <2>3, LoadKeepsPageIInv, SMTT(20)
<1>3. CASE EnterMachine
  <2>1. PICK e \in Machines : Load(workload, Resolved(workload, e))
    BY <1>3 DEF EnterMachine
  <2>2. PICK m : m = Resolved(here, e)
    OBVIOUS
  <2>3. m.vcpu \in 1..256 /\ m.ram \in 1..4096
    BY <1>0, <2>2, ResolvedIsReal, SMTT(20)
  <2> QED BY <1>0, <2>1, <2>2, <2>3, LoadKeepsPageIInv, SMTT(20)
<1>4. CASE SizeMachine
  <2>1. PICK d \in Volumes, q \in Concurrency :
          Load(workload, From("suggested", Suggested(workload, d, q)))
    BY <1>4 DEF SizeMachine
  <2>2. PICK m : m = From("suggested", Suggested(here, d, q))
    OBVIOUS
  <2>3. m.vcpu \in 1..256 /\ m.ram \in 1..4096
    BY <2>2, SuggestedIsReal, FromKeepsShape, SMTT(20)
  <2> QED BY <1>0, <2>1, <2>2, <2>3, LoadKeepsPageIInv, SMTT(20)
<1>5. CASE Drag
  BY <1>5, NothingBuilt, SMTT(20) DEF Drag, PageIInv
<1>6. CASE Preview
  BY <1>6, NothingBuilt DEF Preview, PageIInv
<1>7. CASE Build
  BY <1>7, BuildKeepsPageIInv
<1>8. CASE UNCHANGED vars
  BY <1>8 DEF vars, PageIInv, WorkersAreGranted, SegmentsFit, Untouched
<1> QED BY <1>1, <1>2, <1>3, <1>4, <1>5, <1>6, <1>7, <1>8 DEF Next

(* On any machine, the recommended limits of parallel workers grant what
   they promise: what an untouched form submits breaks no worker rule. *)
THEOREM WorkersGranted == Spec => []WorkersAreGranted
<1>1. PageIInv => WorkersAreGranted
  BY DEF PageIInv
<1> QED BY <1>1, InitPageIInv, NextPageIInv, PTL DEF Spec

(* On any machine, the recommended WAL sizes hold two segments of the
   largest size, and in order. *)
THEOREM SegmentsAlwaysFit == Spec => []SegmentsFit
<1>1. PageIInv => SegmentsFit
  BY DEF PageIInv
<1> QED BY <1>1, InitPageIInv, NextPageIInv, PTL DEF Spec
=============================================================================
