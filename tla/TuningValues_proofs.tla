--------------------------- MODULE TuningValues_proofs ---------------------------
(***************************************************************************)
(* The values themselves: what sliders, panel and conf hold on any machine *)
(* the page can be rendered for, that the smoke test holds the server to   *)
(* what the conf says, and that the presets and the suggested machines run *)
(* what is recommended for them.                                           *)
(***************************************************************************)
EXTENDS Tuning_proofs

-----------------------------------------------------------------------------
(* The sliders *)

SliderSteps == {1, 10, 1024, 16384, 32768, 262144}

(* A range input stops on one of its values ... *)
LEMMA StopsFit ==
  ASSUME NEW lo \in Nat, NEW hi \in Nat, lo <= hi, NEW by \in SliderSteps, NEW x \in Int
  PROVE  /\ NearestStop(lo, hi, by, x) \in lo..hi
         /\ (NearestStop(lo, hi, by, x) - lo) % by = 0
<1>1. CASE by = 1
  BY <1>1 DEF NearestStop, Most, Least
<1>2. CASE by = 10
  BY <1>2 DEF NearestStop, Most, Least
<1>3. CASE by = 1024
  BY <1>3 DEF NearestStop, Most, Least
<1>4. CASE by = 16384
  BY <1>4 DEF NearestStop, Most, Least
<1>5. CASE by = 32768
  BY <1>5 DEF NearestStop, Most, Least
<1>6. CASE by = 262144
  BY <1>6 DEF NearestStop, Most, Least
<1> QED BY <1>1, <1>2, <1>3, <1>4, <1>5, <1>6 DEF SliderSteps

(* ... and no further up than half a step, unless it starts higher. *)
LEMMA StopsNear ==
  ASSUME NEW lo \in Nat, NEW hi \in Nat, lo <= hi, NEW by \in SliderSteps, NEW x \in Nat
  PROVE  NearestStop(lo, hi, by, x) <= Most(lo, x + by \div 2)
<1>1. CASE by = 1
  BY <1>1 DEF NearestStop, Most, Least
<1>2. CASE by = 10
  BY <1>2 DEF NearestStop, Most, Least
<1>3. CASE by = 1024
  BY <1>3 DEF NearestStop, Most, Least
<1>4. CASE by = 16384
  BY <1>4 DEF NearestStop, Most, Least
<1>5. CASE by = 32768
  BY <1>5 DEF NearestStop, Most, Least
<1>6. CASE by = 262144
  BY <1>6 DEF NearestStop, Most, Least
<1> QED BY <1>1, <1>2, <1>3, <1>4, <1>5, <1>6 DEF SliderSteps

LEMMA SliderShapes ==
  \A k \in Keys : /\ Slider[k].min \in Nat /\ Slider[k].max \in Nat
                  /\ Slider[k].min <= Slider[k].max
                  /\ Slider[k].step \in SliderSteps
                  /\ (Slider[k].max - Slider[k].min) % Slider[k].step = 0
BY DEF Keys, Slider, Range3, MB, SliderSteps

(* A slider's value, wherever it came from. *)
OnSlider(k, x) ==
  /\ x \in Slider[k].min..Slider[k].max
  /\ (x - Slider[k].min) % Slider[k].step = 0

LEMMA SanitisedFits ==
  ASSUME NEW k \in Keys, NEW x \in Int
  PROVE  OnSlider(k, Sanitised(k, x))
BY SliderShapes, StopsFit DEF Sanitised, OnSlider

LEMMA SanitisedNear ==
  ASSUME NEW k \in Keys, NEW x \in Nat
  PROVE  /\ Sanitised(k, x) \in Nat
         /\ Sanitised(k, x) <= Most(Slider[k].min, x + Slider[k].step \div 2)
<1>1. PICK lo \in Nat, hi \in Nat, by \in SliderSteps :
        lo = Slider[k].min /\ hi = Slider[k].max /\ by = Slider[k].step /\ lo <= hi
  BY SliderShapes
<1>2. NearestStop(lo, hi, by, x) \in lo..hi
  <2>1. x \in Int
    OBVIOUS
  <2> QED BY <1>1, <2>1, StopsFit
<1>3. NearestStop(lo, hi, by, x) <= Most(lo, x + by \div 2)
  BY <1>1, StopsNear
<1> QED BY <1>1, <1>2, <1>3 DEF Sanitised

LEMMA StepsAreUp ==
  ASSUME NEW k \in Keys, NEW x \in Nat
  PROVE  x <= Most(Slider[k].min, x + Slider[k].step \div 2)
<1>1. PICK lo \in Nat, by \in SliderSteps : lo = Slider[k].min /\ by = Slider[k].step
  BY SliderShapes
<1>2. x <= Most(lo, x + by \div 2)
  BY DEF SliderSteps, Most
<1> QED BY <1>1, <1>2

LEMMA EndsFit ==
  ASSUME NEW k \in Keys
  PROVE  OnSlider(k, Slider[k].min) /\ OnSlider(k, Slider[k].max)
<1>1. PICK lo, hi, by : lo = Slider[k].min /\ hi = Slider[k].max /\ by = Slider[k].step
  OBVIOUS
<1>2. lo \in Nat /\ hi \in Nat /\ lo <= hi /\ by \in Nat \ {0} /\ (hi - lo) % by = 0
  BY <1>1, SliderShapes DEF SliderSteps
<1>3. (lo - lo) % by = 0
  BY <1>2
<1> QED BY <1>1, <1>2, <1>3 DEF OnSlider

LEMMA OnSliderIsNat ==
  ASSUME NEW k \in Keys, NEW x, OnSlider(k, x)
  PROVE  x \in Nat
BY SliderShapes DEF OnSlider

-----------------------------------------------------------------------------
(* The recommendation *)

LEMMA Shares ==
  ASSUME NEW w \in Workloads
  PROVE  /\ WorkMemParts[w] * Connections[w] \in Nat \ {0}
         /\ Connections[w] \in Nat
BY DEF Workloads, Connections, WorkMemParts

LEMMA RecommendedIsNat ==
  ASSUME NEW w \in Workloads, NEW m, m.vcpu \in 1..256, m.ram \in 1..4096
  PROVE  \A k \in Keys : Recommended(w, m)[k] \in Nat
<1> DEFINE R == Recommended(w, m)
<1>0. PICK c \in 1..256 : c = m.vcpu
  OBVIOUS
<1>1. PICK r \in 1..4096 : r = m.ram
  OBVIOUS
<1>2. PICK parts \in Nat \ {0}, queries \in Nat :
        parts = WorkMemParts[w] * Connections[w] /\ queries = Connections[w]
  BY Shares
<1>3. PICK buffers \in Nat :
        /\ buffers = (r * GB) \div (IF w = "desktop" THEN 16 ELSE 4)
        /\ buffers <= r * GB
  <2>1. (r * GB) \div 16 \in 0..(r * GB) /\ (r * GB) \div 4 \in 0..(r * GB)
    BY SMTT(20) DEF GB, MB
  <2> QED BY <2>1 DEF GB, MB
<1>4. /\ R["shared_buffers"] = buffers
      /\ R["effective_cache_size"] = ((r * GB) \div 4) * (IF w = "desktop" THEN 1 ELSE 3)
      /\ R["work_mem"] = Most((r * GB - buffers) \div parts, 64)
      /\ R["maintenance_work_mem"] = MaintenanceMem(r * GB)
      /\ R["wal_buffers"] = Least(Most((buffers * 3) \div 100, 1 * MB), 16 * MB)
      /\ R["max_wal_size"] = MaxWal(r)
      /\ R["min_wal_size"] = Most(256 * MB, MaxWal(r) \div 4)
      /\ R["max_connections"] = queries
      /\ R["max_worker_processes"] = c
      /\ R["max_parallel_workers"] = ParallelWorkers(c)
      /\ R["max_parallel_workers_per_gather"] = Most(c \div 2, 1)
      /\ R["max_parallel_maintenance_workers"] = Least(Most(c \div 2, 1), 4)
      /\ R["autovacuum_max_workers"] = AutovacuumWorkers(c)
  BY <1>0, <1>1, <1>2, <1>3 DEF Recommended
<1> HIDE DEF R
<1>5. R["shared_buffers"] \in Nat /\ R["effective_cache_size"] \in Nat
  <2>1. PICK quarter \in Nat : quarter = (r * GB) \div 4
    BY DEF GB, MB
  <2>2. PICK times \in {1, 3} : times = IF w = "desktop" THEN 1 ELSE 3
    OBVIOUS
  <2> QED BY <1>4, <2>1, <2>2
<1>6. R["work_mem"] \in Nat
  <2>1. (r * GB - buffers) \div parts \in Int
    BY <1>3 DEF GB, MB
  <2> QED BY <1>4, <2>1 DEF Most
<1>7. R["maintenance_work_mem"] \in Nat
  BY <1>4 DEF MaintenanceMem, Least, GB, MB
<1>8. R["wal_buffers"] \in Nat
  BY <1>4 DEF Most, Least, MB
<1>9. R["max_wal_size"] \in Nat /\ R["min_wal_size"] \in Nat
  BY <1>4 DEF MaxWal, Most, Least, GB, MB
<1>10. /\ R["max_connections"] \in Nat
       /\ R["max_worker_processes"] \in Nat
       /\ R["max_parallel_workers"] \in Nat
       /\ R["max_parallel_workers_per_gather"] \in Nat
       /\ R["max_parallel_maintenance_workers"] \in Nat
       /\ R["autovacuum_max_workers"] \in Nat
  BY <1>4 DEF ParallelWorkers, AutovacuumWorkers, Most, Least
<1> QED BY <1>5, <1>6, <1>7, <1>8, <1>9, <1>10 DEF R, Keys, Slider

-----------------------------------------------------------------------------
(* From the form to the conf, to the server and back *)

(* Rounding to megabytes gives whole megabytes; they are whole blocks of
   every unit the server reports in. *)
LEMMA WholeMegabytes ==
  ASSUME NEW x \in Nat
  PROVE  /\ WholeMB(x) \in Nat /\ WholeMB(x) % MB = 0
         /\ WholeMB(x) <= x + 512
BY DEF WholeMB, MB

LEMMA UnitsDivide ==
  ASSUME NEW k \in MemoryKeys, NEW x \in Nat, x % MB = 0
  PROVE  Normalized(k, Reported(k, x)) = x
<1>1. ServerUnit[k] \in {1, 8, 1024}
  BY DEF MemoryKeys, ServerUnit, MB
<1>2. PICK unit \in {1, 8, 1024} : unit = ServerUnit[k]
  BY <1>1
<1>3. (x \div unit) * unit = x
  BY DEF MB
<1> QED BY <1>2, <1>3 DEF Normalized, Reported

LEMMA ConfType ==
  ASSUME NEW v, \A k \in Keys : v[k] \in Nat
  PROVE  /\ Conf(v) \in [Keys -> Nat]
         /\ \A k \in MemoryKeys : k \in Keys /\ Conf(v)[k] % MB = 0
<1>1. MemoryKeys \subseteq Keys
  BY DEF MemoryKeys, Keys, Slider
<1> QED BY <1>1, WholeMegabytes DEF Conf

LEMMA EveryValueMatchesItself ==
  ASSUME NEW x \in Nat
  PROVE  Matches(x, x)
BY DEF Matches, Most, Least

LEMMA ConfSurvivesTheServer ==
  ASSUME NEW v, \A k \in Keys : v[k] \in Nat
  PROVE  \A k \in Keys : Matches(HeldTo(v)[k], Normalized(k, Reported(k, Conf(v)[k])))
<1> SUFFICES ASSUME NEW k \in Keys
             PROVE  Matches(HeldTo(v)[k], Normalized(k, Reported(k, Conf(v)[k])))
  OBVIOUS
<1>1. PICK x \in Nat : x = Conf(v)[k] /\ x = HeldTo(v)[k]
  BY ConfType DEF HeldTo
<1>2. CASE k \in MemoryKeys
  <2>1. x % MB = 0
    BY <1>1, <1>2, ConfType
  <2>2. Normalized(k, Reported(k, x)) = x
    BY <1>2, <2>1, UnitsDivide
  <2> QED BY <1>1, <2>2, EveryValueMatchesItself
<1>3. CASE k \notin MemoryKeys
  <2>1. Normalized(k, Reported(k, x)) = x
    BY <1>3 DEF Normalized, Reported
  <2> QED BY <1>1, <2>1, EveryValueMatchesItself
<1> QED BY <1>2, <1>3

-----------------------------------------------------------------------------
(* What an untuned form can add up to *)

(* The two forms nobody has touched: an empty one, and the page's. *)
Untuned(w, m) == {[k \in Keys |-> Recommended(w, m)[k]], FreshFields(w, m)}

(* A fresh slider adds half a step to the recommendation, at the most. *)
LEMMA UntunedBound ==
  ASSUME NEW w \in Workloads, NEW m, m.vcpu \in 1..256, m.ram \in 1..4096,
         NEW v \in Untuned(w, m), NEW k \in Keys
  PROVE  /\ v[k] \in Nat
         /\ v[k] <= Most(Slider[k].min, Recommended(w, m)[k] + Slider[k].step \div 2)
         /\ v[k] = Recommended(w, m)[k] \/ v[k] = Sanitised(k, Recommended(w, m)[k])
<1>1. PICK x \in Nat : x = Recommended(w, m)[k]
  BY RecommendedIsNat
<1>2. v[k] = x \/ v[k] = Sanitised(k, x)
  BY <1>1 DEF Untuned, FreshFields
<1>3. x <= Most(Slider[k].min, x + Slider[k].step \div 2)
  BY StepsAreUp
<1>4. CASE v[k] = x
  BY <1>1, <1>3, <1>4
<1>5. CASE v[k] = Sanitised(k, x)
  BY <1>1, <1>5, SanitisedNear
<1> QED BY <1>2, <1>4, <1>5

(* The memory one set of values may claim, bounded by its recommendation:
   two sliders that round up, WAL buffers of 16 MB, and the per-connection
   and per-worker shares, each of them rounded up as well. *)
Demand(buffers, queries, share, workers, part) ==
  buffers + 16384 + 16896 + queries * (share + 512) + workers * (part + 8192)

LEMMA TimesIsMonotone ==
  ASSUME NEW a \in 0..8, NEW x \in Nat, NEW y \in Nat, x <= y
  PROVE  a * x <= a * y /\ a * x \in Nat
<1>1. CASE a \in {0, 1, 2}  BY <1>1
<1>2. CASE a \in {3, 4, 5}  BY <1>2
<1>3. CASE a \in {6, 7, 8}  BY <1>3
<1> QED BY <1>1, <1>2, <1>3

LEMMA ConnectionsFit ==
  ASSUME NEW w \in Workloads, NEW m, m.vcpu \in 1..256, m.ram \in 1..4096,
         NEW v \in Untuned(w, m)
  PROVE  v["max_connections"] = Connections[w]
<1>1. Recommended(w, m)["max_connections"] = Connections[w]
  BY DEF Recommended
<1>2. Connections[w] \in {200, 300, 40, 100, 20}
  BY DEF Workloads, Connections
<1>3. PICK n \in {200, 300, 40, 100, 20} : n = Connections[w]
  BY <1>2
<1>4. "max_connections" \in Keys
  BY DEF Keys, Slider
<1>5. Sanitised("max_connections", n) = NearestStop(20, 500, 10, n)
  BY DEF Sanitised, Slider, Range3
<1>6. NearestStop(20, 500, 10, n) = n
  BY DEF NearestStop, Most, Least
<1> QED BY <1>1, <1>3, <1>4, <1>5, <1>6, UntunedBound

LEMMA AutovacuumFits ==
  ASSUME NEW w \in Workloads, NEW m, m.vcpu \in 1..256, m.ram \in 1..4096,
         NEW v \in Untuned(w, m)
  PROVE  /\ v["autovacuum_max_workers"] = AutovacuumWorkers(m.vcpu)
         /\ AutovacuumWorkers(m.vcpu) \in 3..8
         /\ m.vcpu <= 8 => AutovacuumWorkers(m.vcpu) <= 4
<1>1. Recommended(w, m)["autovacuum_max_workers"] = AutovacuumWorkers(m.vcpu)
  BY DEF Recommended
<1>2. /\ AutovacuumWorkers(m.vcpu) \in 3..8
      /\ m.vcpu <= 8 => AutovacuumWorkers(m.vcpu) <= 4
  BY DEF AutovacuumWorkers, Most, Least
<1>3. PICK n \in 3..8 : n = AutovacuumWorkers(m.vcpu)
  BY <1>2
<1>4. "autovacuum_max_workers" \in Keys
  BY DEF Keys, Slider
<1>5. Sanitised("autovacuum_max_workers", n) = NearestStop(1, 16, 1, n)
  BY DEF Sanitised, Slider, Range3
<1>6. NearestStop(1, 16, 1, n) = n
  BY DEF NearestStop, Most, Least
<1> QED BY <1>1, <1>2, <1>3, <1>4, <1>5, <1>6, UntunedBound

LEMMA SixteenMegabytes ==
  ASSUME NEW x \in Int
  PROVE  LET wal == Least(Most(x, 1024), 16384)
         IN wal \in Nat /\ wal >= 1024 /\ wal + 512 <= 16896
BY DEF Most, Least

LEMMA WalBuffersFit ==
  ASSUME NEW w \in Workloads, NEW m, NEW v \in Untuned(w, m),
         m.vcpu \in 1..256, m.ram \in 1..4096, NEW buffers \in Nat,
         buffers = Recommended(w, m)["shared_buffers"]
  PROVE  v["wal_buffers"] \in Nat /\ v["wal_buffers"] <= 16896
<1>1. PICK percent \in Int : percent = (buffers * 3) \div 100
  OBVIOUS
<1>2. PICK wal \in Nat : /\ wal = Least(Most(percent, 1024), 16384)
                         /\ wal >= 1024 /\ wal + 512 <= 16896
  BY SixteenMegabytes
<1>3. Recommended(w, m)["wal_buffers"] = wal
  BY <1>1, <1>2 DEF Recommended, MB
<1>4. /\ "wal_buffers" \in Keys
      /\ Slider["wal_buffers"].min = 1024 /\ Slider["wal_buffers"].step = 1024
  BY DEF Keys, Slider, Range3, MB
<1>5. /\ v["wal_buffers"] \in Nat
      /\ v["wal_buffers"] <= Most(1024, wal + 1024 \div 2)
  BY <1>3, <1>4, UntunedBound
<1>6. Most(1024, wal + 1024 \div 2) = wal + 512
  BY <1>2 DEF Most
<1>7. PICK given \in Nat : given = v["wal_buffers"] /\ given <= wal + 512
  BY <1>5, <1>6
<1>8. given <= 16896
  BY <1>2, <1>7
<1> QED BY <1>7, <1>8

LEMMA WorstCaseIsBounded ==
  ASSUME NEW w \in Workloads, NEW m, m.vcpu \in 1..256, m.ram \in 1..4096,
         NEW v \in Untuned(w, m), NEW buffers \in Nat, NEW share \in Nat, NEW part \in Nat,
         buffers = Recommended(w, m)["shared_buffers"], buffers >= 16384,
         share = Recommended(w, m)["work_mem"], share >= 512,
         part = Recommended(w, m)["maintenance_work_mem"], part >= 8192
  PROVE  /\ v["shared_buffers"] \in 0..(buffers + 16384)
         /\ WorstCase(v) \in Nat
         /\ WorstCase(v)
              <= Demand(buffers, Connections[w], share, AutovacuumWorkers(m.vcpu), part)
<1>1. {"shared_buffers", "work_mem", "maintenance_work_mem"} \subseteq Keys
  BY DEF Keys, Slider
<1>2. /\ Slider["shared_buffers"].min = 32768 /\ Slider["shared_buffers"].step = 32768
      /\ Slider["work_mem"].min = 1024 /\ Slider["work_mem"].step = 1024
      /\ Slider["maintenance_work_mem"].min = 16384
      /\ Slider["maintenance_work_mem"].step = 16384
  BY DEF Slider, Range3, MB
<1>3. v["shared_buffers"] \in Nat /\ v["shared_buffers"] <= buffers + 16384
  BY <1>1, <1>2, UntunedBound DEF Most
<1>4. v["work_mem"] \in Nat /\ v["work_mem"] <= share + 512
  BY <1>1, <1>2, UntunedBound DEF Most
<1>5. v["maintenance_work_mem"] \in Nat /\ v["maintenance_work_mem"] <= part + 8192
  BY <1>1, <1>2, UntunedBound DEF Most
<1>6. v["wal_buffers"] \in Nat /\ v["wal_buffers"] <= 16896
  BY WalBuffersFit, SMTT(20)
<1>7. PICK n \in {200, 300, 40, 100, 20} : n = Connections[w] /\ v["max_connections"] = n
  BY ConnectionsFit DEF Workloads, Connections
<1>8. n * v["work_mem"] \in Nat /\ n * v["work_mem"] <= n * (share + 512)
  BY <1>4, <1>7
<1>9. PICK a \in 3..8 : a = AutovacuumWorkers(m.vcpu) /\ v["autovacuum_max_workers"] = a
  BY AutovacuumFits
<1>10. /\ a * v["maintenance_work_mem"] \in Nat
       /\ a * v["maintenance_work_mem"] <= a * (part + 8192)
  BY <1>5, TimesIsMonotone
<1>11. WorstCase(v) = v["shared_buffers"] + v["wal_buffers"] + n * v["work_mem"]
                        + a * v["maintenance_work_mem"]
  BY <1>7, <1>9 DEF WorstCase
<1>12. PICK claim \in Nat, most \in Nat :
         /\ claim = n * v["work_mem"] /\ most = n * (share + 512) /\ claim <= most
  BY <1>8
<1>13. PICK kept \in Nat, full \in Nat :
         /\ kept = a * v["maintenance_work_mem"] /\ full = a * (part + 8192) /\ kept <= full
  BY <1>10
<1>14. Demand(buffers, n, share, a, part) = buffers + 16384 + 16896 + most + full
  BY <1>12, <1>13 DEF Demand
<1> QED BY <1>3, <1>6, <1>7, <1>9, <1>11, <1>12, <1>13, <1>14

-----------------------------------------------------------------------------
(* What is recommended fits in the memory it is recommended for *)

(* Machines hardware.py accepts, and those with the floor of a server. *)
Accepted(m) == m.vcpu \in 1..256 /\ m.ram \in 1..4096
ServerSized(m) == m.ram \in 4..4096
IsDesktop(w) == w = "desktop"

(* How a recommendation divides the memory, in kB: the shared buffers, what
   the connections may take (a share each, rounded up) and the part of a
   maintenance worker. *)
Divides(w, m, buffers, share, work, part) ==
  /\ buffers = Recommended(w, m)["shared_buffers"] /\ buffers >= 16384
  /\ share = Recommended(w, m)["work_mem"] /\ share >= 512
  /\ Connections[w] * (share + 512) <= work
  /\ part = Recommended(w, m)["maintenance_work_mem"] /\ part >= 8192

(* What an untuned form claims of it, on a small machine and on any. *)
Claims(v, buffers, work, part, vcpu) ==
  /\ v["shared_buffers"] \in 0..(buffers + 16384)
  /\ WorstCase(v) \in Nat
  /\ WorstCase(v) <= buffers + 33280 + work + 8 * (part + 8192)
  /\ vcpu <= 8 => WorstCase(v) <= buffers + 33280 + work + 4 * (part + 8192)

(* The division of r GB for a server, and for a desktop. *)
OfServer(w, r, buffers, work, part) ==
  /\ buffers = r * 262144 /\ part <= r * 65536
  /\ IF w = "dw" THEN work <= r * 393216 + 20480 ELSE work <= r * 196608 + 153600
OfDesktop(r, buffers, work, part) ==
  buffers = r * 65536 /\ part <= r * 65536 /\ work = r * 61440 + 10240

LEMMA UntunedClaims ==
  ASSUME NEW w \in Workloads, NEW m, Accepted(m),
         NEW v \in Untuned(w, m), NEW buffers \in Nat, NEW share \in Nat,
         NEW work \in Nat, NEW part \in Nat, Divides(w, m, buffers, share, work, part)
  PROVE  Claims(v, buffers, work, part, m.vcpu)
<1> USE DEF Accepted
<1>0. /\ buffers = Recommended(w, m)["shared_buffers"] /\ buffers >= 16384
      /\ share = Recommended(w, m)["work_mem"] /\ share >= 512
      /\ part = Recommended(w, m)["maintenance_work_mem"] /\ part >= 8192
  BY SMTT(20) DEF Divides
<1>1. /\ v["shared_buffers"] \in 0..(buffers + 16384)
      /\ WorstCase(v) \in Nat
      /\ WorstCase(v)
           <= Demand(buffers, Connections[w], share, AutovacuumWorkers(m.vcpu), part)
  BY <1>0, WorstCaseIsBounded, SMT
<1>2. PICK n \in {200, 300, 40, 100, 20} : n = Connections[w]
  BY SMT DEF Workloads, Connections
<1>3. PICK a \in 3..8 : a = AutovacuumWorkers(m.vcpu) /\ (m.vcpu <= 8 => a <= 4)
  BY AutovacuumFits, SMT
<1>4. n * (share + 512) <= work
  BY <1>2, SMT DEF Divides
<1>5. PICK y \in Nat : /\ y = a * (part + 8192) /\ y <= 8 * (part + 8192)
                       /\ a <= 4 => y <= 4 * (part + 8192)
  <2>1. CASE a \in {3, 4}  BY <2>1, SMT
  <2>2. CASE a \in {5, 6}  BY <2>2, SMT
  <2>3. CASE a \in {7, 8}  BY <2>3, SMT
  <2> QED BY <2>1, <2>2, <2>3, SMT
<1>6. PICK x \in Nat : x = n * (share + 512) /\ x <= work
  BY <1>4, SMT
<1>7. PICK total \in Nat : total = WorstCase(v)
  BY <1>1
<1>8. total <= buffers + 16384 + 16896 + x + y
  BY <1>1, <1>2, <1>3, <1>5, <1>6, <1>7, SMT DEF Demand
<1> QED BY <1>1, <1>3, <1>5, <1>6, <1>7, <1>8, SMT DEF Claims

LEMMA ServerDivides ==
  ASSUME NEW w \in Workloads, ~IsDesktop(w), NEW m, ServerSized(m)
  PROVE  \E buffers \in Nat, share \in Nat, work \in Nat, part \in Nat :
           /\ Divides(w, m, buffers, share, work, part)
           /\ OfServer(w, m.ram, buffers, work, part)
<1>0. PICK r \in 4..4096 : r = m.ram
  BY DEF ServerSized
<1> USE DEF IsDesktop
<1>1. /\ Recommended(w, m)["shared_buffers"] = r * 262144
      /\ Recommended(w, m)["work_mem"]
           = Most((r * 786432) \div (WorkMemParts[w] * Connections[w]), 64)
      /\ Recommended(w, m)["maintenance_work_mem"] = Least(r * 65536, 2097152)
  <2>1. /\ (r * 1048576) \div 4 = r * 262144
        /\ r * 1048576 - r * 262144 = r * 786432
        /\ (r * 1048576) \div 16 = r * 65536
    BY SMT
  <2>3. m.ram * GB = r * 1048576 /\ 2 * GB = 2097152
    BY <1>0, SMT DEF GB, MB
  <2> QED BY <2>1, <2>3, SMT DEF Recommended, MaintenanceMem
<1>2. PICK part \in Nat, buffers \in Nat :
        /\ part = Recommended(w, m)["maintenance_work_mem"]
        /\ part >= 8192 /\ part <= r * 65536
        /\ buffers = Recommended(w, m)["shared_buffers"]
        /\ buffers = r * 262144 /\ buffers >= 16384
  <2>1. PICK part \in Nat : part = Least(r * 65536, 2097152)
                              /\ part >= 8192 /\ part <= r * 65536
    BY SMT DEF Least
  <2>2. PICK buffers \in Nat : buffers = r * 262144 /\ buffers >= 16384
    BY SMT
  <2> QED BY <1>1, <2>1, <2>2, SMT
<1>3. CASE w = "web"
  <2>1. WorkMemParts[w] * Connections[w] = 800 /\ Connections[w] = 200
    BY <1>3, SMT DEF WorkMemParts, Connections
  <2>2. PICK share \in Nat :
          share = (r * 786432) \div 800 /\ 800 * share <= r * 786432 /\ share >= 512
    BY SMT
  <2>3. Most(share, 64) = share
    BY <2>2, SMT DEF Most
  <2>4. share = Recommended(w, m)["work_mem"]
    BY <1>1, <2>1, <2>2, <2>3, SMT
  <2>5. PICK work \in Nat : work = 200 * (share + 512)
    BY SMT
  <2>6. Divides(w, m, buffers, share, work, part)
    BY <1>1, <1>2, <2>1, <2>2, <2>4, <2>5, SMT DEF Divides
  <2>7. OfServer(w, m.ram, buffers, work, part)
    BY <1>0, <1>3, <1>2, <2>2, <2>5, SMT DEF OfServer
  <2> QED BY <2>6, <2>7
<1>4. CASE w = "oltp"
  <2>1. WorkMemParts[w] * Connections[w] = 1200 /\ Connections[w] = 300
    BY <1>4, SMT DEF WorkMemParts, Connections
  <2>2. PICK share \in Nat :
          share = (r * 786432) \div 1200 /\ 1200 * share <= r * 786432 /\ share >= 512
    BY SMT
  <2>3. Most(share, 64) = share
    BY <2>2, SMT DEF Most
  <2>4. share = Recommended(w, m)["work_mem"]
    BY <1>1, <2>1, <2>2, <2>3, SMT
  <2>5. PICK work \in Nat : work = 300 * (share + 512)
    BY SMT
  <2>6. Divides(w, m, buffers, share, work, part)
    BY <1>1, <1>2, <2>1, <2>2, <2>4, <2>5, SMT DEF Divides
  <2>7. OfServer(w, m.ram, buffers, work, part)
    BY <1>0, <1>4, <1>2, <2>2, <2>5, SMT DEF OfServer
  <2> QED BY <2>6, <2>7
<1>5. CASE w = "mixed"
  <2>1. WorkMemParts[w] * Connections[w] = 400 /\ Connections[w] = 100
    BY <1>5, SMT DEF WorkMemParts, Connections
  <2>2. PICK share \in Nat :
          share = (r * 786432) \div 400 /\ 400 * share <= r * 786432 /\ share >= 512
    BY SMT
  <2>3. Most(share, 64) = share
    BY <2>2, SMT DEF Most
  <2>4. share = Recommended(w, m)["work_mem"]
    BY <1>1, <2>1, <2>2, <2>3, SMT
  <2>5. PICK work \in Nat : work = 100 * (share + 512)
    BY SMT
  <2>6. Divides(w, m, buffers, share, work, part)
    BY <1>1, <1>2, <2>1, <2>2, <2>4, <2>5, SMT DEF Divides
  <2>7. OfServer(w, m.ram, buffers, work, part)
    BY <1>0, <1>5, <1>2, <2>2, <2>5, SMT DEF OfServer
  <2> QED BY <2>6, <2>7
<1>6. CASE w = "dw"
  <2>1. WorkMemParts[w] * Connections[w] = 80 /\ Connections[w] = 40
    BY <1>6, SMT DEF WorkMemParts, Connections
  <2>2. PICK share \in Nat :
          share = (r * 786432) \div 80 /\ 80 * share <= r * 786432 /\ share >= 512
    BY SMT
  <2>3. Most(share, 64) = share
    BY <2>2, SMT DEF Most
  <2>4. share = Recommended(w, m)["work_mem"]
    BY <1>1, <2>1, <2>2, <2>3, SMT
  <2>5. PICK work \in Nat : work = 40 * (share + 512)
    BY SMT
  <2>6. Divides(w, m, buffers, share, work, part)
    BY <1>1, <1>2, <2>1, <2>2, <2>4, <2>5, SMT DEF Divides
  <2>7. OfServer(w, m.ram, buffers, work, part)
    BY <1>0, <1>6, <1>2, <2>2, <2>5, SMT DEF OfServer
  <2> QED BY <2>6, <2>7
<1> QED BY <1>3, <1>4, <1>5, <1>6 DEF Workloads, Connections

LEMMA DesktopDivides ==
  ASSUME NEW w, IsDesktop(w), NEW m, Accepted(m)
  PROVE  \E buffers \in Nat, share \in Nat, work \in Nat, part \in Nat :
           /\ Divides(w, m, buffers, share, work, part)
           /\ OfDesktop(m.ram, buffers, work, part)
<1>0. PICK r \in 1..4096 : r = m.ram
  BY DEF Accepted
<1> USE DEF IsDesktop
<1>1. /\ Recommended(w, m)["shared_buffers"] = r * 65536
      /\ Recommended(w, m)["work_mem"] = r * 3072
      /\ Recommended(w, m)["maintenance_work_mem"] = Least(r * 65536, 2097152)
  <2>1. /\ r * 1048576 - r * 65536 = r * 983040
        /\ (r * 983040) \div 320 = r * 3072
        /\ (r * 1048576) \div 16 = r * 65536
    BY SMT
  <2>2. m.ram * GB = r * 1048576 /\ 2 * GB = 2097152
    BY <1>0, SMT DEF GB, MB
  <2>3. Most(r * 3072, 64) = r * 3072
    BY SMT DEF Most
  <2>4. WorkMemParts["desktop"] * Connections["desktop"] = 320
    BY SMT DEF WorkMemParts, Connections
  <2> QED BY <2>1, <2>2, <2>3, <2>4, SMT DEF Recommended, MaintenanceMem
<1>2. PICK part \in Nat :
        part = Least(r * 65536, 2097152) /\ part >= 8192 /\ part <= r * 65536
  BY SMT DEF Least
<1>3. PICK buffers \in Nat, share \in Nat, work \in Nat :
        /\ buffers = r * 65536 /\ buffers >= 16384
        /\ share = r * 3072 /\ share >= 512
        /\ work = r * 61440 + 10240
  BY SMT
<1>4. Divides(w, m, buffers, share, work, part)
  BY <1>1, <1>2, <1>3, SMT DEF Divides, Connections
<1>5. OfDesktop(m.ram, buffers, work, part)
  BY <1>0, <1>2, <1>3, SMT DEF OfDesktop
<1> QED BY <1>4, <1>5

(* sizing.py's floor of 4 GB, of 2 for a desktop. *)
BelowFloor(w, m) == m.ram < (IF w = "desktop" THEN 2 ELSE 4)

(* A machine of the floor or more has the memory its workload may claim. *)
LEMMA SuggestionsFit ==
  ASSUME NEW w \in Workloads, w # "dw", NEW m, Accepted(m), ~BelowFloor(w, m),
         NEW v \in Untuned(w, m)
  PROVE  ~(WorstCase(v) > m.ram * GB)
<1>1. ~IsDesktop(w) => ServerSized(m)
  BY SMTT(20) DEF BelowFloor, Accepted, IsDesktop, ServerSized
<1>2. PICK buffers \in Nat, work \in Nat, part \in Nat :
        /\ Claims(v, buffers, work, part, m.vcpu)
        /\ IF IsDesktop(w) THEN OfDesktop(m.ram, buffers, work, part)
                           ELSE OfServer(w, m.ram, buffers, work, part)
  <2>1. CASE IsDesktop(w)
    BY <2>1, DesktopDivides, UntunedClaims, Zenon
  <2>2. CASE ~IsDesktop(w)
    BY <1>1, <2>2, ServerDivides, UntunedClaims, Zenon
  <2> QED BY <2>1, <2>2
<1>3. PICK r \in 1..4096 : r = m.ram
  BY DEF Accepted
<1>4. m.ram * GB = r * 1048576
  BY <1>3, SMT DEF GB, MB
<1>5. PICK total \in Nat :
        /\ total = WorstCase(v)
        /\ total <= buffers + 33280 + work + 8 * (part + 8192)
  BY <1>2, SMT DEF Claims
<1>6. CASE IsDesktop(w)
  <2>1. r >= 2
    BY <1>3, <1>6, SMT DEF BelowFloor, IsDesktop
  <2>2. buffers = r * 65536 /\ part <= r * 65536 /\ work = r * 61440 + 10240
    BY <1>2, <1>3, <1>6, SMT DEF OfDesktop
  <2>3. total <= r * 1048576
    BY <1>5, <2>1, <2>2, SMT
  <2> QED BY <1>4, <1>5, <2>3, SMT
<1>7. CASE ~IsDesktop(w)
  <2>1. r >= 4
    BY <1>3, <1>7, SMT DEF BelowFloor, IsDesktop
  <2>2. buffers = r * 262144 /\ part <= r * 65536 /\ work <= r * 196608 + 153600
    BY <1>2, <1>3, <1>7, SMT DEF OfServer
  <2>3. total <= r * 1048576
    BY <1>5, <2>1, <2>2, SMT
  <2> QED BY <1>4, <1>5, <2>3, SMT
<1> QED BY <1>6, <1>7

(* The presets recommend a cache the slider can show as it is. *)
LEMMA PresetCache ==
  ASSUME NEW w \in Workloads, NEW m, m.vcpu \in 1..256, m.ram \in 1..4096,
         NEW r \in {4, 16, 32}, m.ram = r, NEW v \in Untuned(w, m)
  PROVE  v["effective_cache_size"] = r * (IF w = "desktop" THEN 262144 ELSE 786432)
<1>1. PICK g \in {4, 12, 16, 32, 48, 96} : g = r * (IF w = "desktop" THEN 1 ELSE 3)
  BY SMT
<1>2. Recommended(w, m)["effective_cache_size"] = g * 262144
  <2>1. (r * 1048576) \div 4 = r * 262144
    BY SMT
  <2>2. m.ram * GB = r * 1048576
    BY SMT DEF GB, MB
  <2>3. (r * 262144) * (IF w = "desktop" THEN 1 ELSE 3) = g * 262144
    BY <1>1, SMT
  <2> QED BY <2>1, <2>2, <2>3, SMT DEF Recommended
<1>3. Sanitised("effective_cache_size", g * 262144)
        = NearestStop(1048576, 33554432, 262144, g * 262144)
  BY SMT DEF Sanitised, Slider, Range3, MB
<1>4. NearestStop(1048576, 33554432, 262144, g * 262144) = g * 262144
  BY SMT DEF NearestStop, Most, Least
<1>5. "effective_cache_size" \in Keys
  BY SMT DEF Keys, Slider
<1>6. v["effective_cache_size"] = g * 262144
  BY <1>2, <1>3, <1>4, <1>5, UntunedBound, SMT
<1>7. g * 262144 = r * (IF w = "desktop" THEN 262144 ELSE 786432)
  BY <1>1, SMT
<1> QED BY <1>6, <1>7, SMT

(* Nothing to say of the memory an untuned form claims of a preset. *)
Calm(v, ram) ==
  /\ ~(WorstCase(v) > ram)
  /\ ~(WorstCase(v) \in (ram - (ram + 19) \div 20 + 1)..ram)
  /\ ~(5 * v["shared_buffers"] > 2 * ram)
  /\ ~(v["effective_cache_size"] < v["shared_buffers"])
  /\ ~(v["effective_cache_size"] > ram)

PresetSized(m) == m.vcpu \in 1..8 /\ m.ram \in {4, 16, 32}

LEMMA PresetsFit ==
  ASSUME NEW w \in Workloads, NEW m, PresetSized(m),
         NEW v \in Untuned(w, m)
  PROVE  Calm(v, m.ram * GB)
<1>1. PICK r \in {4, 16, 32} : r = m.ram
  BY DEF PresetSized
<1>0. /\ m.vcpu \in 1..256 /\ m.vcpu <= 8 /\ m.ram \in 1..4096
  BY <1>1, SMTT(20) DEF PresetSized
<1>2. Accepted(m) /\ ServerSized(m)
  BY <1>0, <1>1, SMT DEF Accepted, ServerSized
<1>3. m.ram * GB = r * 1048576
  BY <1>1, SMT DEF GB, MB
<1>4. PICK cache \in Nat : /\ cache = v["effective_cache_size"]
                           /\ cache = r * (IF w = "desktop" THEN 262144 ELSE 786432)
  BY <1>0, <1>1, PresetCache, SMT
<1>5. PICK buffers \in Nat, work \in Nat, part \in Nat :
        /\ Claims(v, buffers, work, part, m.vcpu)
        /\ IF IsDesktop(w) THEN OfDesktop(m.ram, buffers, work, part)
                           ELSE OfServer(w, m.ram, buffers, work, part)
  <2>1. CASE IsDesktop(w)
    BY <1>2, <2>1, DesktopDivides, UntunedClaims, Zenon
  <2>2. CASE ~IsDesktop(w)
    BY <1>2, <2>2, ServerDivides, UntunedClaims, Zenon
  <2> QED BY <2>1, <2>2
<1>6. PICK total \in Nat, shared \in Nat :
        /\ total = WorstCase(v) /\ shared = v["shared_buffers"]
        /\ shared <= buffers + 16384
        /\ total <= buffers + 33280 + work + 4 * (part + 8192)
  BY <1>0, <1>5, SMT DEF Claims
<1>7. /\ total <= r * 1048576 - (r * 1048576 + 19) \div 20
      /\ total <= r * 1048576
      /\ 5 * shared <= 2 * (r * 1048576)
      /\ shared <= cache /\ cache <= r * 1048576
  <2>1. CASE IsDesktop(w)
    BY <1>1, <1>4, <1>5, <1>6, <2>1, SMT DEF OfDesktop, IsDesktop
  <2>2. CASE ~IsDesktop(w)
    BY <1>1, <1>4, <1>5, <1>6, <2>2, SMT DEF OfServer, IsDesktop
  <2> QED BY <2>1, <2>2
<1> QED BY <1>3, <1>4, <1>6, <1>7, SMT DEF Calm

(* What the rules raise, of memory that is there and of memory that is not. *)
LEMMA CalmFindings ==
  ASSUME NEW v, NEW m, Calm(v, m.ram * GB), Chained(v)
  PROVE  Findings(v, m) \subseteq {"pooler"}
<1> DEFINE ram == m.ram * GB
           nearlyAll == ram - (ram + 19) \div 20
           flags == [memory_error |-> WorstCase(v) > ram,
                     memory_warning |-> WorstCase(v) \in (nearlyAll + 1)..ram,
                     buffers_share |-> 5 * v.shared_buffers > 2 * ram,
                     cache_below_buffers |-> v.effective_cache_size < v.shared_buffers,
                     cache_above_ram |-> v.effective_cache_size > ram]
<1>1. DOMAIN flags = {"memory_error", "memory_warning", "buffers_share",
                      "cache_below_buffers", "cache_above_ram"}
  OBVIOUS
<1>2. /\ ~flags["memory_error"] /\ ~flags["memory_warning"] /\ ~flags["buffers_share"]
      /\ ~flags["cache_below_buffers"] /\ ~flags["cache_above_ram"]
  BY Zenon DEF Calm
<1>3. MemoryFindings(v, m) = {f \in DOMAIN flags : flags[f]}
  BY Zenon DEF MemoryFindings, Raised
<1> HIDE DEF flags
<1>4. MemoryFindings(v, m) = {}
  BY <1>1, <1>2, <1>3
<1>5. WorkerFindings(v) = {}
  BY ChainRaisesNothing
<1>6. PoolerFindings(v) \subseteq {"pooler"}
  BY DEF PoolerFindings, Raised
<1> QED BY <1>4, <1>5, <1>6 DEF Findings

LEMMA FittingFindings ==
  ASSUME NEW v, NEW m, ~(WorstCase(v) > m.ram * GB)
  PROVE  "memory_error" \notin Findings(v, m)
<1>1. "memory_error" \notin MemoryFindings(v, m)
  BY Zenon DEF MemoryFindings, Raised
<1>2. "memory_error" \notin WorkerFindings(v) \cup PoolerFindings(v)
  BY DEF WorkerFindings, PoolerFindings, Raised
<1> QED BY <1>1, <1>2 DEF Findings

-----------------------------------------------------------------------------
(* The page *)

MachineRecords == [vcpu : 1..256, ram : 1..4096, origin : Origins]

(* What is known of a machine from where it came. *)
ComesFrom(w, m) ==
  /\ m.origin = "preset" =>
       \E t \in DOMAIN Preset : m.vcpu = Preset[t].vcpu /\ m.ram = Preset[t].ram
  /\ m.origin = "suggested" => m.ram >= (IF w = "desktop" THEN 2 ELSE 4)

(* TypeOK, a variable at a time. *)
FieldsFit(f) == f \in [Keys -> Int] /\ \A k \in Keys : OnSlider(k, f[k])
ShownFits(conf) ==
  conf \in [Keys -> Int] /\ \A k \in MemoryKeys : conf[k] % MB = 0
BuiltFits(b) == b # NoBuild => {b.conf, b.held} \subseteq [Keys -> Int]

LEMMA TypeOKParts ==
  /\ TypeOK <=> /\ workload \in Workloads /\ machine \in MachineRecords
                /\ FieldsFit(fields) /\ ShownFits(shown)
                /\ drags \in 0..MaxDrags /\ BuiltFits(built)
  /\ TypeOK' <=> /\ workload' \in Workloads /\ machine' \in MachineRecords
                 /\ FieldsFit(fields') /\ ShownFits(shown')
                 /\ drags' \in 0..MaxDrags /\ BuiltFits(built')
BY DEF TypeOK, MachineRecords, FieldsFit, OnSlider, ShownFits, BuiltFits

(* Not only a suggested machine: any at or above the floor holds the worst
   case of what is recommended for it. *)
FloorIsRunnable ==
  Untouched /\ ~BelowFloor(workload, machine) /\ workload # "dw" =>
    "memory_error" \notin built.findings

ValuesInv ==
  /\ TypeOK
  /\ ComesFrom(workload, machine)
  /\ drags = 0 => fields = FreshFields(workload, machine)
  /\ SmokeTestIsFair
  /\ PresetsStayQuiet
  /\ FloorIsRunnable

LEMMA UntunedIsNat ==
  ASSUME NEW w \in Workloads, NEW m \in MachineRecords
  PROVE  /\ \A k \in Keys : Recommended(w, m)[k] \in Nat
         /\ FreshFields(w, m) \in [Keys -> Int]
         /\ \A k \in Keys : OnSlider(k, FreshFields(w, m)[k])
<1>1. \A k \in Keys : Recommended(w, m)[k] \in Nat
  BY RecommendedIsNat, SMTT(20) DEF MachineRecords
<1>2. \A k \in Keys : OnSlider(k, Sanitised(k, Recommended(w, m)[k]))
  BY <1>1, SanitisedFits
<1>3. \A k \in Keys : Sanitised(k, Recommended(w, m)[k]) \in Int
  BY <1>2, OnSliderIsNat
<1> QED BY <1>1, <1>2, <1>3 DEF FreshFields

LEMMA FromIsARecord ==
  ASSUME NEW o \in Origins, NEW m, m.vcpu \in 1..256, m.ram \in 1..4096
  PROVE  /\ From(o, m) \in MachineRecords
         /\ From(o, m).vcpu = m.vcpu /\ From(o, m).ram = m.ram /\ From(o, m).origin = o
BY SMTT(20) DEF From, MachineRecords

LEMMA PresetComesFrom ==
  ASSUME NEW w \in Workloads, NEW t \in DOMAIN Preset
  PROVE  /\ From("preset", Preset[t]) \in MachineRecords
         /\ ComesFrom(w, From("preset", Preset[t]))
<1>1. PICK p : p = Preset[t]
  OBVIOUS
<1>2. p.vcpu \in 1..256 /\ p.ram \in 1..4096
  BY <1>1, PresetsAreReal, SMTT(20)
<1>3. PICK m : m = From("preset", p)
  OBVIOUS
<1>4. /\ m \in MachineRecords /\ m.origin = "preset"
      /\ m.vcpu = p.vcpu /\ m.ram = p.ram
  BY <1>2, <1>3, FromIsARecord DEF Origins
<1>5. ComesFrom(w, m)
  BY <1>1, <1>4 DEF ComesFrom
<1> QED BY <1>1, <1>3, <1>4, <1>5

LEMMA SuggestedHasFloor ==
  ASSUME NEW w, NEW d, NEW q
  PROVE  Suggested(w, d, q).ram >= (IF w = "desktop" THEN 2 ELSE 4)
<1> DEFINE floor == IF w = "desktop" THEN 2 ELSE 4
           hot == Least(d, 1000000) * HotPercent[w]
           enough == {s \in RamSteps : 100 * s >= hot /\ s >= floor}
<1>1. Suggested(w, d, q).ram = LeastOf(enough, RamSteps)
  BY DEF Suggested
<1>2. enough \in SUBSET Nat /\ \A s \in enough : s >= floor
  BY DEF RamSteps
<1> HIDE DEF enough
<1>3. CASE enough = {}
  BY <1>1, <1>3, LargestStep DEF LeastOf
<1>4. CASE enough # {}
  BY <1>1, <1>2, <1>4, LeastExists DEF LeastOf
<1> QED BY <1>3, <1>4

(* Whatever is selected, the page loads for a machine in range. *)
LEMMA EveryLoad ==
  ASSUME ValuesInv, PickWorkload \/ PickPreset \/ EnterMachine \/ SizeMachine
  PROVE  \E w \in Workloads, m \in MachineRecords : Load(w, m) /\ ComesFrom(w, m)
<1>0. PICK here \in Workloads : here = workload
  BY DEF ValuesInv, TypeOK
<1>1. CASE PickWorkload
  <2>1. PICK w \in Workloads :
          Load(w, [machine EXCEPT !.origin = IF @ = "suggested" THEN "custom" ELSE @])
    BY <1>1, SMTT(20) DEF PickWorkload
  <2>2. PICK now \in MachineRecords : now = machine
    BY DEF ValuesInv, TypeOK, MachineRecords
  <2>3. PICK m : m = [now EXCEPT !.origin = IF @ = "suggested" THEN "custom" ELSE @]
    OBVIOUS
  <2>4. /\ m \in MachineRecords /\ m.origin # "suggested"
        /\ m.origin = "preset" => now.origin = "preset"
        /\ m.vcpu = now.vcpu /\ m.ram = now.ram
    BY <2>3 DEF MachineRecords, Origins
  <2>5. ComesFrom(w, m)
    BY <2>2, <2>4 DEF ValuesInv, ComesFrom
  <2>6. Load(w, m)
    BY <2>1, <2>2, <2>3
  <2> QED BY <2>4, <2>5, <2>6
<1>2. CASE PickPreset
  <2>1. PICK t \in DOMAIN Preset : Load(workload, From("preset", Preset[t]))
    BY <1>2 DEF PickPreset
  <2> QED BY <1>0, <2>1, PresetComesFrom
<1>3. CASE EnterMachine
  <2>1. PICK e \in Machines : Load(here, Resolved(here, e))
    BY <1>0, <1>3 DEF EnterMachine
  <2>2. CASE Real(e)
    <3>1. PICK m : m = From("custom", e)
      BY SMTT(20)
    <3>2. m \in MachineRecords /\ m.origin = "custom"
      BY <2>2, <3>1, FromIsARecord DEF Real, Origins
    <3>3. Load(here, m) /\ ComesFrom(here, m)
      BY <2>1, <2>2, <3>1, <3>2 DEF Resolved, ComesFrom
    <3> QED BY <3>2, <3>3
  <2>3. CASE ~Real(e)
    <3>1. RecommendedTier[here] \in DOMAIN Preset
      BY DEF Workloads, Connections, RecommendedTier, Preset
    <3>2. Load(here, From("preset", Preset[RecommendedTier[here]]))
      BY <2>1, <2>3 DEF Resolved
    <3> QED BY <3>1, <3>2, PresetComesFrom
  <2> QED BY <2>2, <2>3
<1>4. CASE SizeMachine
  <2>1. PICK d \in Volumes, q \in Concurrency :
          Load(here, From("suggested", Suggested(here, d, q)))
    BY <1>0, <1>4 DEF SizeMachine
  <2>2. PICK size : size = Suggested(here, d, q)
    BY SMTT(20)
  <2>3. size.vcpu \in 1..256 /\ size.ram \in 1..4096
    BY <2>2, SuggestedIsReal, SMTT(20)
  <2>4. PICK m : m = From("suggested", size)
    OBVIOUS
  <2>5. m \in MachineRecords /\ m.origin = "suggested" /\ m.ram = size.ram
    BY <2>3, <2>4, FromIsARecord DEF Origins
  <2>6. ComesFrom(here, m)
    BY <2>2, <2>5, SuggestedHasFloor DEF ComesFrom
  <2> QED BY <2>1, <2>2, <2>4, <2>5, <2>6
<1> QED BY <1>1, <1>2, <1>3, <1>4

(* What a page holds when it is loaded. *)
LEMMA FreshPageFits ==
  ASSUME NEW w \in Workloads, NEW m \in MachineRecords
  PROVE  FieldsFit(FreshFields(w, m)) /\ ShownFits(Conf(Recommended(w, m)))
<1>1. PICK R : R = Recommended(w, m)
  OBVIOUS
<1>2. \A k \in Keys : R[k] \in Nat
  BY <1>1, UntunedIsNat
<1>3. ShownFits(Conf(R))
  BY <1>2, ConfType DEF ShownFits
<1> QED BY <1>1, <1>3, UntunedIsNat DEF FieldsFit

LEMMA LoadKeepsValuesInv ==
  ASSUME NEW w \in Workloads, NEW m \in MachineRecords, Load(w, m), ComesFrom(w, m)
  PROVE  ValuesInv'
<1>1. /\ workload' = w /\ machine' = m /\ drags' = 0 /\ built' = NoBuild
      /\ fields' = FreshFields(w, m) /\ shown' = Conf(Recommended(w, m))
  BY DEF Load
<1>2. drags' \in 0..MaxDrags
  BY <1>1, TuningAssumption
<1>3. TypeOK'
  BY <1>1, <1>2, FreshPageFits, TypeOKParts DEF BuiltFits
<1> QED BY <1>1, <1>3
        DEF ValuesInv, SmokeTestIsFair, PresetsStayQuiet, FloorIsRunnable, Untouched

LEMMA InitValuesInv == Init => ValuesInv
<1> SUFFICES ASSUME Init PROVE ValuesInv
  OBVIOUS
<1>1. PICK w \in Workloads, t \in DOMAIN Preset : w = "mixed" /\ t = "medium"
  BY DEF Workloads, Connections, Preset
<1>2. PICK m : m = From("preset", Preset[t])
  OBVIOUS
<1>3. m \in MachineRecords /\ ComesFrom(w, m)
  BY <1>2, PresetComesFrom
<1>4. /\ workload = w /\ machine = m /\ drags = 0 /\ built = NoBuild
      /\ fields = FreshFields(w, m) /\ shown = Conf(Recommended(w, m))
  BY <1>1, <1>2 DEF Init
<1>5. drags \in 0..MaxDrags
  BY <1>4, TuningAssumption
<1>6. TypeOK
  BY <1>3, <1>4, <1>5, FreshPageFits, TypeOKParts DEF BuiltFits
<1> QED BY <1>3, <1>4, <1>6
        DEF ValuesInv, SmokeTestIsFair, PresetsStayQuiet, FloorIsRunnable, Untouched

LEMMA DragKeepsValuesInv == ValuesInv /\ Drag => ValuesInv'
<1> SUFFICES ASSUME ValuesInv, Drag PROVE ValuesInv'
  OBVIOUS
<1>0. PICK k \in Keys : \E x \in {Slider[k].min, Slider[k].max} :
        /\ drags < MaxDrags /\ drags' = drags + 1
        /\ fields' = [fields EXCEPT ![k] = x]
  BY DEF Drag
<1>1. PICK x \in {Slider[k].min, Slider[k].max} :
        /\ drags < MaxDrags /\ drags' = drags + 1
        /\ fields' = [fields EXCEPT ![k] = x]
  BY <1>0
<1>2. /\ built' = NoBuild /\ workload' = workload /\ machine' = machine /\ shown' = shown
  BY DEF Drag
<1>3. OnSlider(k, x) /\ x \in Int
  BY EndsFit, OnSliderIsNat
<1>4. FieldsFit(fields')
  BY <1>1, <1>3, TypeOKParts DEF ValuesInv, FieldsFit
<1>5. drags' \in 0..MaxDrags /\ drags' # 0
  BY <1>1, TuningAssumption, TypeOKParts DEF ValuesInv
<1>6. TypeOK'
  BY <1>2, <1>4, <1>5, TypeOKParts DEF ValuesInv, BuiltFits
<1> QED BY <1>2, <1>5, <1>6
        DEF ValuesInv, SmokeTestIsFair, PresetsStayQuiet, FloorIsRunnable, Untouched

LEMMA PreviewKeepsValuesInv == ValuesInv /\ Preview => ValuesInv'
<1> SUFFICES ASSUME ValuesInv, Preview PROVE ValuesInv'
  OBVIOUS
<1>1. PICK v : v = Submitted(workload, machine, fields, {}) /\ shown' = Conf(v)
  BY DEF Preview
<1>2. /\ built = NoBuild /\ built' = built /\ workload' = workload /\ machine' = machine
      /\ fields' = fields /\ drags' = drags
  BY DEF Preview
<1>3. \A k \in Keys : v[k] \in Nat
  BY <1>1, OnSliderIsNat, TypeOKParts DEF ValuesInv, Submitted, FieldsFit
<1>4. ShownFits(shown')
  BY <1>1, <1>3, ConfType DEF ShownFits
<1>5. TypeOK'
  BY <1>2, <1>4, TypeOKParts DEF ValuesInv
<1> QED BY <1>2, <1>5
        DEF ValuesInv, SmokeTestIsFair, PresetsStayQuiet, FloorIsRunnable, Untouched

LEMMA BuildKeepsValuesInv == ValuesInv /\ Build => ValuesInv'
<1> SUFFICES ASSUME ValuesInv, Build PROVE ValuesInv'
  OBVIOUS
<1>1. PICK missing \in {{}, Keys} :
        LET values == Submitted(workload, machine, fields, missing)
        IN built' = [made |-> TRUE, conf |-> Conf(values), held |-> HeldTo(values),
                     findings |-> Findings(values, machine),
                     untouched |-> drags = 0 \/ missing = Keys]
  BY DEF Build
<1>2. PICK v : v = Submitted(workload, machine, fields, missing)
  OBVIOUS
<1>3. /\ built'.conf = Conf(v) /\ built'.held = HeldTo(v)
      /\ built'.findings = Findings(v, machine)
      /\ built'.untouched = (drags = 0 \/ missing = Keys)
  BY <1>1, <1>2
<1>4. /\ workload' = workload /\ machine' = machine /\ fields' = fields
      /\ shown' = shown /\ drags' = drags
  BY DEF Build
<1>5. PICK w \in Workloads, m \in MachineRecords : w = workload /\ m = machine
  BY TypeOKParts DEF ValuesInv
<1>6. \A k \in Keys : v[k] \in Nat
  <2>1. \A k \in Keys : Recommended(w, m)[k] \in Nat
    BY UntunedIsNat
  <2>2. \A k \in Keys : fields[k] \in Nat
    BY OnSliderIsNat, TypeOKParts DEF ValuesInv, FieldsFit
  <2> QED BY <1>2, <1>5, <2>1, <2>2 DEF Submitted
<1>7. TypeOK'
  <2>1. Conf(v) \in [Keys -> Nat] /\ HeldTo(v) = Conf(v)
    BY <1>6, ConfType DEF HeldTo
  <2>2. Conf(v) \in [Keys -> Int]
    BY <2>1
  <2>3. BuiltFits(built')
    BY <1>3, <2>1, <2>2 DEF BuiltFits
  <2> QED BY <1>4, <2>3, TypeOKParts DEF ValuesInv
<1>8. SmokeTestIsFair'
  BY <1>3, <1>6, ConfSurvivesTheServer DEF SmokeTestIsFair
<1>9. built'.untouched => v \in Untuned(w, m)
  <2>1. drags = 0 => fields = FreshFields(w, m)
    BY <1>5 DEF ValuesInv
  <2>2. built'.untouched => drags = 0 \/ missing = Keys
    BY <1>3, Zenon
  <2>3. missing = Keys => v = [k \in Keys |-> Recommended(w, m)[k]]
    BY <1>2, <1>5 DEF Submitted
  <2>4. missing = {} /\ fields = FreshFields(w, m) => v = FreshFields(w, m)
    BY <1>2, <1>5 DEF Submitted, FreshFields
  <2> QED BY <2>1, <2>2, <2>3, <2>4 DEF Untuned
<1>10. m.vcpu \in 1..256 /\ m.ram \in 1..4096 /\ Accepted(m)
  BY DEF MachineRecords, Accepted
<1>11. PresetsStayQuiet'
  <2>1. ASSUME built'.untouched, m.origin = "preset"
        PROVE  Findings(v, m) \subseteq {"pooler"}
    <3>1. PICK t \in DOMAIN Preset : m.vcpu = Preset[t].vcpu /\ m.ram = Preset[t].ram
      BY <1>5, <2>1 DEF ValuesInv, ComesFrom
    <3>2. PresetSized(m)
      BY <3>1 DEF Preset, PresetSized
    <3>3. v \in Untuned(w, m)
      BY <1>9, <2>1, Zenon
    <3>4. Calm(v, m.ram * GB)
      BY <3>2, <3>3, PresetsFit
    <3>5. Chained(v)
      <4>1. /\ Chained([k \in Keys |-> Recommended(w, m)[k]])
            /\ Chained(FreshFields(w, m))
        BY <1>10, RecommendationIsSound, SMTT(20)
      <4> QED BY <3>3, <4>1, Zenon DEF Untuned
    <3> QED BY <3>4, <3>5, CalmFindings
  <2>2. built'.untouched /\ machine'.origin = "preset" =>
          built'.findings \subseteq {"pooler"}
    BY <1>3, <1>4, <1>5, <2>1
  <2> QED BY <2>2, Zenon DEF PresetsStayQuiet, Untouched
<1>12. FloorIsRunnable'
  <2>1. ASSUME built'.untouched, ~BelowFloor(w, m), w # "dw"
        PROVE  "memory_error" \notin Findings(v, m)
    <3>1. v \in Untuned(w, m)
      BY <1>9, <2>1, Zenon
    <3>2. ~(WorstCase(v) > m.ram * GB)
      BY <1>10, <2>1, <3>1, SuggestionsFit
    <3> QED BY <3>2, FittingFindings
  <2>2. built'.untouched /\ ~BelowFloor(w, m) /\ w # "dw" => "memory_error" \notin built'.findings
    BY <1>3, <1>5, <2>1
  <2> QED BY <1>4, <1>5, <2>2, Zenon DEF FloorIsRunnable, Untouched
<1>13. /\ ComesFrom(workload', machine')
       /\ drags' = 0 => fields' = FreshFields(workload', machine')
  BY <1>4 DEF ValuesInv
<1> QED BY <1>7, <1>8, <1>11, <1>12, <1>13, Zenon DEF ValuesInv

LEMMA NextValuesInv == ValuesInv /\ [Next]_vars => ValuesInv'
<1> SUFFICES ASSUME ValuesInv, [Next]_vars PROVE ValuesInv'
  OBVIOUS
<1>1. CASE PickWorkload \/ PickPreset \/ EnterMachine \/ SizeMachine
  BY <1>1, EveryLoad, LoadKeepsValuesInv
<1>2. CASE Drag
  BY <1>2, DragKeepsValuesInv
<1>3. CASE Preview
  BY <1>3, PreviewKeepsValuesInv
<1>4. CASE Build
  BY <1>4, BuildKeepsValuesInv
<1>5. CASE UNCHANGED vars
  <2>1. /\ workload' = workload /\ machine' = machine /\ fields' = fields
        /\ shown' = shown /\ drags' = drags /\ built' = built
    BY <1>5 DEF vars
  <2> QED BY <2>1, TypeOKParts
          DEF ValuesInv, SmokeTestIsFair, PresetsStayQuiet, FloorIsRunnable, Untouched
<1> QED BY <1>1, <1>2, <1>3, <1>4, <1>5 DEF Next

THEOREM ValuesInvariance == Spec => []ValuesInv
BY InitValuesInv, NextValuesInv, PTL DEF Spec

(* On any machine hardware.custom lets through, every slider of the page is
   on one of its stops and every memory value of the conf is a whole MB. *)
THEOREM TuningTypeCorrect == Spec => []TypeOK
<1>1. ValuesInv => TypeOK
  BY DEF ValuesInv
<1> QED BY <1>1, ValuesInvariance, PTL

(* Whatever the sliders say, and on any machine: a server that applies the
   conf in its own blocks reports what the smoke test expects of it. *)
THEOREM SmokeTestStaysFair == Spec => []SmokeTestIsFair
<1>1. ValuesInv => SmokeTestIsFair
  BY DEF ValuesInv
<1> QED BY <1>1, ValuesInvariance, PTL

(* No preset's recommendation is found fault with, for any workload, but
   for connections that want a pooler. *)
THEOREM PresetsAlwaysQuiet == Spec => []PresetsStayQuiet
<1>1. ValuesInv => PresetsStayQuiet
  BY DEF ValuesInv
<1> QED BY <1>1, ValuesInvariance, PTL

(* On any machine of 4 GB or more, of 2 for a desktop, however it came to
   be selected: it has the memory its workload is recommended to claim. *)
THEOREM RecommendationsRun == Spec => []FloorIsRunnable
<1>1. ValuesInv => FloorIsRunnable
  BY DEF ValuesInv
<1> QED BY <1>1, ValuesInvariance, PTL

(* For any volume of data and any number of queries: the suggested machine
   has the memory that is then recommended for it. *)
THEOREM SuggestionsRun == Spec => []SuggestionIsRunnable
<1>1. ASSUME ValuesInv PROVE SuggestionIsRunnable
  <2>1. PICK w \in Workloads, m \in MachineRecords : w = workload /\ m = machine
    BY <1>1, TypeOKParts DEF ValuesInv
  <2>2. ASSUME m.origin = "suggested" PROVE ~BelowFloor(w, m)
    <3>1. m.ram >= (IF w = "desktop" THEN 2 ELSE 4)
      BY <1>1, <2>1, <2>2 DEF ValuesInv, ComesFrom
    <3>2. m.ram \in 1..4096
      BY DEF MachineRecords
    <3>3. PICK r \in 1..4096 : r = m.ram
      BY <3>2
    <3> QED BY <3>1, <3>3 DEF BelowFloor
  <2> QED BY <1>1, <2>1, <2>2 DEF ValuesInv, FloorIsRunnable, SuggestionIsRunnable
<1> QED BY <1>1, ValuesInvariance, PTL
=============================================================================
