--------------------------------- MODULE Tuning ---------------------------------
(***************************************************************************)
(* From a workload and a machine to a configuration: the sizing formulas,  *)
(* the sliders that start from them, the findings over the whole set, the  *)
(* conf the panel shows, the conf a build bakes and what the smoke test    *)
(* holds the server to.                                                    *)
(*                                                                         *)
(* Memory is in kB, so that every value is an integer.  Parameters no      *)
(* formula and no rule relates (costs, logging, autovacuum thresholds),    *)
(* the storage type, extensions and services are left out.                 *)
(***************************************************************************)
EXTENDS Integers, FiniteSetsExt

CONSTANTS
  Machines,       \* what the operator types as vCPU and GB of RAM
  Volumes,        \* GB of data, and ...
  Concurrency,    \* ... concurrent queries to size a machine for
  MaxDrags        \* bound: sliders moved on one page

ASSUME TuningAssumption ==
  /\ Machines \subseteq [vcpu : Nat, ram : Nat]
  /\ Volumes \subseteq Nat /\ Concurrency \subseteq Nat
  /\ MaxDrags \in Nat

VARIABLES
  workload, machine,  \* the selection the page was rendered for
  fields,             \* the sliders, as the browser would submit them
  shown,              \* the conf in the live panel
  drags,              \* sliders moved since the page was loaded
  built               \* what the last submission made, NoBuild before it

vars == <<workload, machine, fields, shown, drags, built>>

-----------------------------------------------------------------------------
(* Constants of the tuning rules *)

MB == 1024
GB == 1024 * MB
Least(a, b) == IF a <= b THEN a ELSE b
Most(a, b) == IF a >= b THEN a ELSE b

Connections == [web |-> 200, oltp |-> 300, dw |-> 40, mixed |-> 100, desktop |-> 20]
Workloads == DOMAIN Connections
WorkMemParts == [web |-> 4, oltp |-> 4, dw |-> 2, mixed |-> 4, desktop |-> 16]

Preset ==
  [small |-> [vcpu |-> 2, ram |-> 4],
   medium |-> [vcpu |-> 4, ram |-> 16],
   large |-> [vcpu |-> 8, ram |-> 32]]
RecommendedTier ==
  [web |-> "medium", oltp |-> "medium", dw |-> "large", mixed |-> "medium",
   desktop |-> "small"]

(* The machines hardware.custom accepts. *)
Real(m) == m.vcpu \in 1..256 /\ m.ram \in 1..4096

MemoryKeys ==
  {"shared_buffers", "effective_cache_size", "work_mem", "maintenance_work_mem",
   "wal_buffers", "max_wal_size", "min_wal_size"}

(* PARAMETER_SPECS: the first and the last value of a slider, and its step. *)
Range3(lo, hi, by) == [min |-> lo, max |-> hi, step |-> by]
Slider ==
  [shared_buffers |-> Range3(32 * MB, 16384 * MB, 32 * MB),
   effective_cache_size |-> Range3(1024 * MB, 32768 * MB, 256 * MB),
   work_mem |-> Range3(1 * MB, 1024 * MB, 1 * MB),
   maintenance_work_mem |-> Range3(16 * MB, 4096 * MB, 16 * MB),
   wal_buffers |-> Range3(1 * MB, 256 * MB, 1 * MB),
   max_wal_size |-> Range3(256 * MB, 16384 * MB, 256 * MB),
   min_wal_size |-> Range3(32 * MB, 8192 * MB, 32 * MB),
   max_connections |-> Range3(20, 500, 10),
   max_worker_processes |-> Range3(4, 64, 1),
   max_parallel_workers |-> Range3(0, 64, 1),
   max_parallel_workers_per_gather |-> Range3(0, 16, 1),
   max_parallel_maintenance_workers |-> Range3(0, 16, 1),
   autovacuum_max_workers |-> Range3(1, 16, 1)]
Keys == DOMAIN Slider

-----------------------------------------------------------------------------
(* generate_conf *)

MaxWal_NoFloor(ram) == Least(16, ram \div 4) * GB
MaxWal(ram) == Most(1, Least(16, ram \div 4)) * GB

AutovacuumWorkers_Uncapped(vcpu) == Most(vcpu \div 2, 3)
AutovacuumWorkers(vcpu) == Least(Most(vcpu \div 2, 3), 8)

(* The stock ceiling of 8, which the comments remember as never noticed. *)
ParallelWorkers_Stock(vcpu) == Least(vcpu, 8)
ParallelWorkers(vcpu) == vcpu

MaintenanceMem_Eighth(kb) == Least(kb \div 8, 2 * GB)
MaintenanceMem(kb) == Least(kb \div 16, 2 * GB)

Recommended(w, m) ==
  LET ram == m.ram * GB
      desktop == w = "desktop"
      buffers == ram \div (IF desktop THEN 16 ELSE 4)
  IN [shared_buffers |-> buffers,
      effective_cache_size |-> (ram \div 4) * (IF desktop THEN 1 ELSE 3),
      work_mem |-> Most((ram - buffers) \div (WorkMemParts[w] * Connections[w]), 64),
      maintenance_work_mem |-> MaintenanceMem(ram),
      wal_buffers |-> Least(Most((buffers * 3) \div 100, 1 * MB), 16 * MB),
      max_wal_size |-> MaxWal(m.ram),
      min_wal_size |-> Most(256 * MB, MaxWal(m.ram) \div 4),
      max_connections |-> Connections[w],
      max_worker_processes |-> m.vcpu,
      max_parallel_workers |-> ParallelWorkers(m.vcpu),
      max_parallel_workers_per_gather |-> Most(m.vcpu \div 2, 1),
      max_parallel_maintenance_workers |-> Least(Most(m.vcpu \div 2, 1), 4),
      autovacuum_max_workers |-> AutovacuumWorkers(m.vcpu)]

(* sizing.recommend: the least real size that holds the hot set, or the
   largest there is, with a core for each query. *)
RamSteps == {2, 4, 8, 16, 32, 64, 128, 192, 256, 384, 512, 768, 1024}
VcpuSteps == {2, 4, 8, 16, 32, 64, 96, 128}
HotPercent == [web |-> 10, oltp |-> 20, mixed |-> 15, dw |-> 10, desktop |-> 25]
LeastOf(enough, steps) == IF enough = {} THEN Max(steps) ELSE Min(enough)
Suggested(w, data, queries) ==
  LET hot == Least(data, 1000000) * HotPercent[w]
      floor == IF w = "desktop" THEN 2 ELSE 4
  IN [vcpu |-> LeastOf({s \in VcpuSteps : s >= Least(queries, 10000)}, VcpuSteps),
      ram |-> LeastOf({s \in RamSteps : 100 * s >= hot /\ s >= floor}, RamSteps)]

-----------------------------------------------------------------------------
(* The way of a value through form, conf and server *)

(* A range input takes the nearest value its attributes allow, the upper
   of two. *)
NearestStop(lo, hi, by, v) ==
  LET nearest == (Most(lo, Least(hi, v)) - lo + by \div 2) \div by
  IN lo + Least(nearest, (hi - lo) \div by) * by
Sanitised(k, v) == NearestStop(Slider[k].min, Slider[k].max, Slider[k].step, v)

(* _submitted_values: what the form does not carry is the recommendation. *)
Submitted(w, m, f, missing) ==
  [k \in Keys |-> IF k \in missing THEN Recommended(w, m)[k] ELSE f[k]]

(* int(round(x)) of megabytes: to the nearest, halves to the even one. *)
WholeMB(kb) ==
  LET q == kb \div MB
      r == kb % MB
  IN (q + IF 2 * r > MB \/ (2 * r = MB /\ q % 2 = 1) THEN 1 ELSE 0) * MB
Conf(values) == [k \in Keys |-> IF k \in MemoryKeys THEN WholeMB(values[k]) ELSE values[k]]

(* conf_values: the written conf, parsed back. *)
HeldTo_Unrounded(values) == values
HeldTo(values) == Conf(values)

(* The server keeps whole blocks and reports them in a unit of its own
   (here in kB); normalize turns the report back into the tuner's unit. *)
ServerUnit ==
  [shared_buffers |-> 8, effective_cache_size |-> 8, wal_buffers |-> 8, work_mem |-> 1,
   maintenance_work_mem |-> 1, max_wal_size |-> MB, min_wal_size |-> MB]
Reported(k, asked) == IF k \in MemoryKeys THEN asked \div ServerUnit[k] ELSE asked
Normalized(k, setting) == IF k \in MemoryKeys THEN setting * ServerUnit[k] ELSE setting

(* math.isclose with a relative tolerance of one percent. *)
Matches(requested, applied) ==
  LET larger == Most(requested, applied)
      smaller == Least(requested, applied)
  IN 100 * (larger - smaller) <= larger

-----------------------------------------------------------------------------
(* validation.validate, with no pooler selected *)

WorstCase(v) ==
  v.shared_buffers + v.wal_buffers + v.max_connections * v.work_mem
    + v.autovacuum_max_workers * v.maintenance_work_mem

Raised(flags) == {f \in DOMAIN flags : flags[f]}

MemoryFindings(v, m) ==
  LET ram == m.ram * GB
      nearlyAll == ram - (ram + 19) \div 20
  IN Raised([memory_error |-> WorstCase(v) > ram,
             memory_warning |-> WorstCase(v) \in (nearlyAll + 1)..ram,
             buffers_share |-> 5 * v.shared_buffers > 2 * ram,
             cache_below_buffers |-> v.effective_cache_size < v.shared_buffers,
             cache_above_ram |-> v.effective_cache_size > ram])

WorkerFindings(v) ==
  Raised([per_gather |-> v.max_parallel_workers_per_gather > v.max_parallel_workers,
          parallel_total |-> v.max_parallel_workers > v.max_worker_processes,
          maintenance |-> v.max_parallel_maintenance_workers > v.max_parallel_workers])

PoolerFindings(v) == Raised([pooler |-> v.max_connections > 200])

Findings(v, m) == MemoryFindings(v, m) \cup WorkerFindings(v) \cup PoolerFindings(v)

-----------------------------------------------------------------------------
(* The page *)

NoBuild == [made |-> FALSE]

(* Where the selected machine came from: known to the model only. *)
Origins == {"preset", "custom", "suggested"}
From(origin, m) == [vcpu |-> m.vcpu, ram |-> m.ram, origin |-> origin]

FreshFields(w, m) == [k \in Keys |-> Sanitised(k, Recommended(w, m)[k])]

TypeOK ==
  /\ workload \in Workloads
  /\ machine \in [vcpu : 1..256, ram : 1..4096, origin : Origins]
  /\ fields \in [Keys -> Int]
  /\ \A k \in Keys : /\ fields[k] \in Slider[k].min..Slider[k].max
                     /\ (fields[k] - Slider[k].min) % Slider[k].step = 0
  /\ shown \in [Keys -> Int] /\ \A k \in MemoryKeys : shown[k] % MB = 0
  /\ drags \in 0..MaxDrags
  /\ built # NoBuild => {built.conf, built.held} \subseteq [Keys -> Int]

Init ==
  /\ workload = "mixed"
  /\ machine = From("preset", Preset["medium"])
  /\ fields = FreshFields(workload, machine)
  /\ shown = Conf(Recommended(workload, machine))
  /\ drags = 0
  /\ built = NoBuild

(* GET /: every selection loads a fresh page for the resolved machine. *)
Load(w, m) ==
  /\ workload' = w
  /\ machine' = m
  /\ fields' = FreshFields(w, m)
  /\ shown' = Conf(Recommended(w, m))
  /\ drags' = 0
  /\ built' = NoBuild

(* The workload's link carries the machine along. *)
PickWorkload == \E w \in Workloads \ {workload} :
  Load(w, [machine EXCEPT !.origin = IF @ = "suggested" THEN "custom" ELSE @])
PickPreset == \E t \in DOMAIN Preset : Load(workload, From("preset", Preset[t]))

(* Nonsense falls back on the workload's recommended tier. *)
Resolved_Unchecked(w, m) == From("custom", m)
Resolved(w, m) ==
  IF Real(m) THEN From("custom", m) ELSE From("preset", Preset[RecommendedTier[w]])
EnterMachine == \E m \in Machines : Load(workload, Resolved(workload, m))
SizeMachine == \E d \in Volumes, q \in Concurrency :
  Load(workload, From("suggested", Suggested(workload, d, q)))

(* Of a slider's values, its ends are tried. *)
Drag == \E k \in Keys : \E v \in {Slider[k].min, Slider[k].max} \ {fields[k]} :
  /\ built = NoBuild
  /\ drags < MaxDrags
  /\ fields' = [fields EXCEPT ![k] = v]
  /\ drags' = drags + 1
  /\ UNCHANGED <<workload, machine, shown, built>>

(* POST /preview *)
Preview ==
  /\ built = NoBuild
  /\ shown' = Conf(Submitted(workload, machine, fields, {}))
  /\ UNCHANGED <<workload, machine, fields, drags, built>>

(* POST /build, from the page or by hand with no parameter in it. *)
Build == \E missing \in {{}, Keys} :
  LET values == Submitted(workload, machine, fields, missing)
  IN /\ built = NoBuild
     /\ built' = [made |-> TRUE, conf |-> Conf(values), held |-> HeldTo(values),
                  findings |-> Findings(values, machine),
                  untouched |-> drags = 0 \/ missing = Keys]
     /\ UNCHANGED <<workload, machine, fields, shown, drags>>

Next ==
  \/ PickWorkload \/ PickPreset \/ EnterMachine \/ SizeMachine
  \/ Drag \/ Preview \/ Build

Spec == Init /\ [][Next]_vars

-----------------------------------------------------------------------------
(* Properties *)

Untouched == built # NoBuild /\ built.untouched

(* "No preset the product recommends may describe an unrunnable server",
   nor warn of anything but a missing pooler, neither as generate_conf
   computes it nor as the sliders submit it. *)
PresetsStayQuiet ==
  Untouched /\ machine.origin = "preset" => built.findings \subseteq {"pooler"}

(* A machine sized for the data and the queries can run what is then
   recommended for it, for every workload but the data warehouse. *)
SuggestionIsRunnable ==
  Untouched /\ machine.origin = "suggested" /\ workload # "dw" =>
    "memory_error" \notin built.findings

(* The chain of worker limits grants what it promises, on any machine. *)
WorkersAreGranted ==
  Untouched => built.findings \cap {"per_gather", "parallel_total", "maintenance"} = {}

(* PostgreSQL wants two WAL segments in min_wal_size, and initdb offers
   segments of up to 128 MB: any machine's recommendation has the room. *)
SegmentsFit ==
  Untouched => /\ built.conf.min_wal_size >= 2 * 128 * MB
               /\ built.conf.min_wal_size <= built.conf.max_wal_size

(* A server that applies its conf, in whole blocks, passes the comparison:
   the smoke test blames nobody for the console's own roundings. *)
SmokeTestIsFair ==
  built # NoBuild => \A k \in Keys :
    Matches(built.held[k], Normalized(k, Reported(k, built.conf[k])))
===============================================================================
