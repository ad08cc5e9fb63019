-------------------------- MODULE DashboardProofs --------------------------
(***************************************************************************)
(* What the Overview page shows, whatever the files of the machine and     *)
(* nvidia-smi say or leave out, whatever becomes of the daemon between two *)
(* requests, and whichever answers are lost.                               *)
(***************************************************************************)
EXTENDS Dashboard, WellFoundedInduction, TLAPS

-----------------------------------------------------------------------------
(* Operators *)

\* The first of some places.
LEMMA First ==
  ASSUME NEW S, S \subseteq Nat, S # {}
  PROVE  Min(S) \in S
<1>1. PICK x \in S : \A y \in S : <<y, x>> \notin OpToRel(<, Nat)
  BY WFMin, NatLessThanWellFounded, Zenon
<1>2. \A y \in S : ~(y < x)
  BY <1>1, Zenon DEF OpToRel
<1>3. \A y \in S : x <= y
  BY <1>2
<1> QED BY <1>3 DEF Min

LEMMA PowerFacts ==
  ASSUME NEW entries
  PROVE  LET on == ac_from_supplies(entries)
             E  == {i \in DOMAIN entries : entries[i].kind # "Battery"}
         IN  /\ power(on) \in {"ac", "battery", "unknown"}
             /\ power(on) = "ac" <=> \E i \in E : entries[i].online = {"1"}
             /\ power(on) = "battery" => \E i \in E : entries[i].online # {}
<1> DEFINE on == ac_from_supplies(entries)
           E  == {i \in DOMAIN entries : entries[i].kind # "Battery"}
           readable == {i \in DOMAIN entries :
                          entries[i].kind # "Battery" /\ entries[i].online # {}}
<1>1. CASE readable = {}
  <2>1. on = {}
    BY <1>1 DEF ac_from_supplies
  <2>2. power(on) = "unknown"
    BY <2>1 DEF power
  <2>3. \A i \in E : entries[i].online = {}
    BY <1>1
  <2> QED BY <2>2, <2>3
<1>2. CASE readable # {} /\ \E i \in readable : entries[i].online = {"1"}
  <2>1. on = {TRUE}
    BY <1>2, Zenon DEF ac_from_supplies
  <2>2. power(on) = "ac"
    BY <2>1 DEF power
  <2> QED BY <1>2, <2>2
<1>3. CASE readable # {} /\ ~ \E i \in readable : entries[i].online = {"1"}
  <2>1. on = {FALSE}
    BY <1>3, Zenon DEF ac_from_supplies
  <2>2. power(on) = "battery"
    BY <2>1 DEF power
  <2>3. \A i \in E : entries[i].online # {"1"}
    BY <1>3
  <2>4. \E i \in E : entries[i].online # {}
    BY <1>3
  <2> QED BY <2>2, <2>3, <2>4
<1> QED BY <1>1, <1>2, <1>3

\* The only discrete GPU is the first one.
LEMMA ActiveFacts ==
  ASSUME NEW m \in Machines
  PROVE  nvidia_is_active(m.pci) <=> Awake(m)
<1> DEFINE nvidia == {i \in DOMAIN m.pci : m.pci[i].vendor = "nvidia" /\ m.pci[i].display}
<1>1. nvidia \subseteq Nat /\ \A i, j \in nvidia : i = j
  BY MachineAssumption DEF IsMachine, Discrete
<1>2. nvidia # {} => Min(nvidia) \in nvidia
  BY <1>1, First
<1>3. Awake(m) <=> \E i \in nvidia : m.pci[i].runtime_status = "active"
  BY DEF Awake, Discrete
<1>4. nvidia_is_active(m.pci) <=> nvidia # {} /\ m.pci[Min(nvidia)].runtime_status = "active"
  BY DEF nvidia_is_active
<1> HIDE DEF nvidia
<1> QED BY <1>1, <1>2, <1>3, <1>4

\* The discrete GPU's reading is taken only while it is awake, and always when
\* it is and nvidia-smi answers.
LEMMA GpuFacts ==
  ASSUME NEW m \in Machines
  PROVE  LET r == gpu_reading(m)
             N == nvidia_reading(m.smi)
             I == amd_igpu_reading(m.hwmon, m.drm)
         IN  /\ r \in N \cup I \cup {NoGpu}
             /\ ~Awake(m) => r \in I \cup {NoGpu}
             /\ r.source = "igpu" => ~Awake(m) \/ N = {}
<1> DEFINE r == gpu_reading(m)
           N == nvidia_reading(m.smi)
           I == amd_igpu_reading(m.hwmon, m.drm)
           D == IF nvidia_is_active(m.pci) THEN N ELSE {}
           S == IF D # {} THEN D ELSE IF I # {} THEN I ELSE {NoGpu}
<1>1. r = CHOOSE x \in S : TRUE
  BY DEF gpu_reading
<1>2. \A x \in N : x.source = "dgpu"
  BY DEF nvidia_reading
<1>3. nvidia_is_active(m.pci) <=> Awake(m)
  BY ActiveFacts
<1> HIDE DEF r, N, I
<1>4. S # {} /\ S \subseteq N \cup I \cup {NoGpu}
  OBVIOUS
<1>5. r \in S
  BY <1>1, <1>4, Zenon
<1>6. ~Awake(m) => S \subseteq I \cup {NoGpu}
  BY <1>3
<1>7. Awake(m) /\ N # {} => S = N
  BY <1>3
<1> HIDE DEF S
<1>8. /\ r \in N \cup I \cup {NoGpu}
      /\ ~Awake(m) => r \in I \cup {NoGpu}
      /\ r.source = "igpu" => ~Awake(m) \/ N = {}
  BY <1>2, <1>4, <1>5, <1>6, <1>7
<1> QED BY <1>8 DEF r, N, I

\* A load is a percentage.
LEMMA LoadFacts ==
  ASSUME NEW m \in Machines
  PROVE  gpu_reading(m).util \subseteq 0..100
<1> DEFINE P == 0..100
<1>a. /\ \A line \in m.smi : Len(line) >= 4 => line[2] \subseteq P
      /\ \A i \in DOMAIN m.drm : m.drm[i].busy \subseteq P
  BY MachineAssumption, Zenon DEF IsMachine
<1>b. DOMAIN m.drm \subseteq Nat
  BY MachineAssumption DEF IsMachine
<1> HIDE DEF P
<1>1. ASSUME NEW r \in nvidia_reading(m.smi) PROVE r.util \subseteq P
  BY <1>a DEF nvidia_reading
<1>2. amdgpu_drm(m.drm).busy \subseteq P
  <2> DEFINE amd == {i \in DOMAIN m.drm : m.drm[i].vendor = "amd"}
  <2>1. amd \subseteq Nat /\ \A i \in amd : m.drm[i].busy \subseteq P
    BY <1>a, <1>b
  <2>2. amd # {} => Min(amd) \in amd
    BY <2>1, First
  <2>3. amdgpu_drm(m.drm) = IF amd = {} THEN [busy |-> {}, vram_used |-> {}, vram_total |-> {}]
                            ELSE m.drm[Min(amd)]
    BY DEF amdgpu_drm
  <2> HIDE DEF amd
  <2>4. CASE amd = {}
    BY <2>3, <2>4
  <2>5. CASE amd # {}
    BY <2>1, <2>2, <2>3, <2>5
  <2> QED BY <2>4, <2>5
<1>3. ASSUME NEW r \in amd_igpu_reading(m.hwmon, m.drm) PROVE r.util \subseteq P
  BY <1>2 DEF amd_igpu_reading
<1>4. NoGpu.util \subseteq P
  BY DEF NoGpu
<1>5. gpu_reading(m).util \subseteq P
  BY <1>1, <1>3, <1>4, GpuFacts
<1> QED BY <1>5 DEF P

LEMMA PercentFacts ==
  ASSUME NEW x \in Nat, NEW y \in Nat, x <= y, y # 0
  PROVE  (100 * x) \div y \in 0..100
<1> DEFINE q == (100 * x) \div y
           rest == (100 * x) % y
<1>1. q \in Int /\ rest \in Int /\ 0 <= rest /\ rest < y /\ 100 * x = y * q + rest
  OBVIOUS
<1> HIDE DEF q, rest
<1>2. q >= 0
  BY <1>1
<1>3. q <= 100
  BY <1>1
<1> QED BY <1>2, <1>3 DEF q

\* Busy jiffies do not fall, so that not more of them are idle than there are.
LEMMA UtilFacts ==
  ASSUME NEW before, NEW times, before \in Option(CpuTimes), times \in Option(CpuTimes),
         Later(before, times)
  PROVE  cpu_util(before, times) \subseteq 0..100
<1>1. ASSUME NEW b \in before, NEW n \in times, n.total > b.total, n.idle >= b.idle
      PROVE  Share(b, n) \in 0..100
  <2>1. /\ b.total \in Nat /\ b.idle \in Nat /\ n.total \in Nat /\ n.idle \in Nat
        /\ n.total - n.idle >= b.total - b.idle
    BY <1>1, MachineAssumption DEF Option, Later, Busy
  <2> DEFINE x == n.idle - b.idle
             y == n.total - b.total
  <2>2. x \in Nat /\ y \in Nat /\ x <= y /\ y # 0
    BY <1>1, <2>1
  <2>3. (100 * x) \div y \in 0..100
    BY <2>2, PercentFacts
  <2>4. Share(b, n) = 100 - ((100 * x) \div y)
    BY DEF Share
  <2> QED BY <2>3, <2>4
<1>2. ASSUME NEW p \in before \X times
      PROVE  p[1] \in before /\ p[2] \in times
  OBVIOUS
<1>3. ASSUME NEW s \in cpu_util(before, times)
      PROVE  \E b \in before, n \in times : n.total > b.total /\ n.idle >= b.idle /\ s = Share(b, n)
  BY <1>2, <1>3 DEF cpu_util
<1> QED BY <1>1, <1>3

\* The reply has every field.
LEMMA ReadFacts ==
  ASSUME NEW m, NEW times, NEW before
  PROVE  LET t == read(m, times, before)
             gpu == gpu_reading(m)
             mem == mem_used_total(m.meminfo)
         IN  /\ number(t, "cpu_util") = cpu_util(before, times)
             /\ number(t, "gpu_util") = gpu.util /\ number(t, "gpu_temp") = gpu.temp
             /\ number(t, "mem_used") = {x.used : x \in mem}
             /\ number(t, "mem_total") = {x.total : x \in mem}
             /\ number(t, "gpu_mem_used") = gpu.mem_used
             /\ number(t, "gpu_mem_total") = gpu.mem_total
             /\ word(t, "gpu_source") = gpu.source
             /\ word(t, "power") = power(ac_from_supplies(m.supplies))
BY DEF read, number, word

LEMMA NothingRead == \A k : number(NoFields, k) = {} /\ word(NoFields, k) = Dash
BY DEF NoFields, number, word

\* What the page makes of a reply.
LEMMA LabelFacts ==
  ASSUME NEW reachable, NEW fields, NEW t
  PROVE  LET o == overview(reachable, fields, t)
         IN  /\ o.connection = IF reachable THEN "Connected" ELSE "Disconnected"
             /\ o.experimental = (word(fields, "experimental") = "true")
             /\ o.cpu = number(t, "cpu_temp") /\ o.cpu_load = number(t, "cpu_util")
             /\ o.cpu_clock = number(t, "cpu_freq")
             /\ o.gpu = number(t, "gpu_temp") /\ o.gpu_load = number(t, "gpu_util")
             /\ o.vram = {<<u, w>> : u \in number(t, "gpu_mem_used"), w \in number(t, "gpu_mem_total")}
             /\ o.asleep = (word(t, "gpu_source") = "igpu" /\ discrete)
             /\ o.memory = {Percent(u, w) : u \in number(t, "mem_used"), w \in number(t, "mem_total") \ {0}}
<1> DEFINE o == overview(reachable, fields, t)
<1>1. /\ o.connection = IF reachable THEN "Connected" ELSE "Disconnected"
      /\ o.cpu = number(t, "cpu_temp") /\ o.cpu_load = number(t, "cpu_util")
      /\ o.cpu_clock = number(t, "cpu_freq")
      /\ o.gpu = number(t, "gpu_temp") /\ o.gpu_load = number(t, "gpu_util")
  BY DEF overview
<1>2. o.experimental = (word(fields, "experimental") = "true")
  BY DEF overview
<1>3. o.asleep = (word(t, "gpu_source") = "igpu" /\ discrete)
  BY DEF overview
<1>4. o.vram = {<<u, w>> : u \in number(t, "gpu_mem_used"), w \in number(t, "gpu_mem_total")}
  BY DEF overview
<1>5. o.memory = {Percent(u, w) : u \in number(t, "mem_used"), w \in number(t, "mem_total") \ {0}}
  BY DEF overview
<1> QED BY <1>1, <1>2, <1>3, <1>4, <1>5

LEMMA PowerLabel ==
  ASSUME NEW reachable, NEW fields, NEW t
  PROVE  LET o == overview(reachable, fields, t)
         IN  /\ word(t, "power") = "ac" => o.power = "Plugged in"
             /\ word(t, "power") = "battery" => o.power = "On battery"
             /\ word(t, "power") \notin {"ac", "battery"} => o.power = Dash
<1> DEFINE o == overview(reachable, fields, t)
<1>1. o.power = CASE word(t, "power") = "ac" -> "Plugged in"
                  [] word(t, "power") = "battery" -> "On battery"
                  [] OTHER -> Dash
  BY DEF overview
<1> HIDE DEF o
<1> QED BY <1>1 DEF o

LEMMA MemoryDetail ==
  ASSUME NEW reachable, NEW fields, NEW t
  PROVE  overview(reachable, fields, t).memory_detail =
           IF overview(reachable, fields, t).memory = {}
             THEN [shown.memory_detail EXCEPT !.visible = FALSE]
             ELSE [text |-> overview(reachable, fields, t).memory, visible |-> TRUE]
BY DEF overview

IsCustom(fields) == "profile" \in DOMAIN fields /\ fields.profile.name = "custom"

LEMMA LevelsDetail ==
  ASSUME NEW reachable, NEW fields, NEW t
  PROVE  overview(reachable, fields, t).levels =
           IF IsCustom(fields)
             THEN [text |-> Some(<<fields.profile.cpu, fields.profile.gpu>>), visible |-> TRUE]
             ELSE [shown.levels EXCEPT !.visible = FALSE]
<1> DEFINE levels == overview(reachable, fields, t).levels
           profile == IF "profile" \in DOMAIN fields THEN fields.profile ELSE [name |-> Dash]
<1>1. levels = IF profile.name = "custom"
                 THEN [text |-> Some(<<profile.cpu, profile.gpu>>), visible |-> TRUE]
                 ELSE [shown.levels EXCEPT !.visible = FALSE]
  BY DEF overview
<1>2. "profile" \in DOMAIN fields => profile = fields.profile
  BY Zenon
<1>3. "profile" \notin DOMAIN fields => profile.name # "custom"
  BY DEF Dash
<1> HIDE DEF levels, profile
<1>4. CASE IsCustom(fields)
  <2>1. profile = fields.profile /\ profile.name = "custom"
    BY <1>2, <1>4 DEF IsCustom
  <2> QED BY <1>1, <1>4, <2>1, Zenon DEF levels
<1>5. CASE ~IsCustom(fields)
  <2>1. profile.name # "custom"
    BY <1>2, <1>3, <1>5 DEF IsCustom
  <2> QED BY <1>1, <1>5, <2>1, Zenon DEF levels
<1> QED BY <1>4, <1>5

-----------------------------------------------------------------------------
(* Types *)

\* A share of memory is a percentage of one and the same total.
LEMMA MemoryFacts ==
  ASSUME NEW m \in Machines,
         NEW u \in {x.used : x \in mem_used_total(m.meminfo)},
         NEW w \in {x.total : x \in mem_used_total(m.meminfo)} \ {0}
  PROVE  Percent(u, w) \in 0..100
<1>1. PICK x \in mem_used_total(m.meminfo), y \in mem_used_total(m.meminfo) :
        u = x.used /\ w = y.total
  OBVIOUS
<1>2. PICK a \in m.meminfo :
        x = [used |-> IF a.available > a.total THEN 0 ELSE a.total - a.available, total |-> a.total]
  BY DEF mem_used_total
<1>3. PICK b \in m.meminfo :
        y = [used |-> IF b.available > b.total THEN 0 ELSE b.total - b.available, total |-> b.total]
  BY DEF mem_used_total
<1>4. a = b /\ a.total \in Nat /\ a.available \in Nat
  BY MachineAssumption DEF IsMachine
<1>5. u \in Nat /\ w \in Nat /\ u <= w /\ w # 0
  BY <1>1, <1>2, <1>3, <1>4
<1> QED BY <1>5, PercentFacts DEF Percent

\* What telemetry may say to a page: a reply, or nothing.
Replies(m, times) == {read(m, times, last_cpu), NoFields}

LEMMA TypedLabels ==
  ASSUME TypeOK, NEW m \in Machines, NEW times \in Option(CpuTimes), NEW t \in Replies(m, times),
         t = NoFields \/ Later(last_cpu, times), NEW reachable, NEW fields
  PROVE  LET o == overview(reachable, fields, t)
         IN  /\ \A n \in o.cpu_load \cup o.gpu_load \cup o.memory : n \in 0..100
             /\ o.connection \in {Dash, "Connected", "Disconnected"}
             /\ o.power \in {Dash, "Plugged in", "On battery"}
<1> DEFINE o == overview(reachable, fields, t)
<1>1. o.connection \in {Dash, "Connected", "Disconnected"}
  <2>1. o.connection = IF reachable THEN "Connected" ELSE "Disconnected"
    BY LabelFacts
  <2> QED BY <2>1
<1>2. o.power \in {Dash, "Plugged in", "On battery"}
  <2> HIDE DEF o
  <2>1. word(t, "power") = "ac" \/ word(t, "power") = "battery" \/ word(t, "power") \notin {"ac", "battery"}
    OBVIOUS
  <2> QED BY <2>1, PowerLabel DEF o
<1>3. /\ o.cpu_load = number(t, "cpu_util") /\ o.gpu_load = number(t, "gpu_util")
      /\ o.memory = {Percent(u, w) : u \in number(t, "mem_used"), w \in number(t, "mem_total") \ {0}}
  BY LabelFacts
<1> DEFINE P == 0..100
<1>4. CASE t = NoFields
  <2>1. o.cpu_load = {} /\ o.gpu_load = {} /\ o.memory = {}
    BY <1>3, <1>4, NothingRead
  <2> QED BY <1>1, <1>2, <2>1
<1>5. CASE t = read(m, times, last_cpu) /\ t # NoFields
  <2>1. number(t, "cpu_util") \subseteq P
    <3>1. cpu_util(last_cpu, times) \subseteq P
      BY <1>5, UtilFacts DEF TypeOK
    <3>2. number(t, "cpu_util") = cpu_util(last_cpu, times)
      BY <1>5, ReadFacts
    <3> QED BY <3>1, <3>2
  <2>2. number(t, "gpu_util") \subseteq P
    <3>1. number(t, "gpu_util") = gpu_reading(m).util
      BY <1>5, ReadFacts
    <3> QED BY <3>1, LoadFacts
  <2>3. /\ number(t, "mem_used") = {x.used : x \in mem_used_total(m.meminfo)}
        /\ number(t, "mem_total") = {x.total : x \in mem_used_total(m.meminfo)}
    BY <1>5, ReadFacts
  <2>4. ASSUME NEW u \in number(t, "mem_used"), NEW w \in number(t, "mem_total") \ {0}
        PROVE  Percent(u, w) \in P
    BY <2>3, MemoryFacts
  <2> HIDE DEF P, o
  <2>5. o.memory \subseteq P
    BY <1>3, <2>4
  <2>6. \A n \in o.cpu_load \cup o.gpu_load \cup o.memory : n \in P
    BY <1>3, <2>1, <2>2, <2>5
  <2> QED BY <1>1, <1>2, <2>6 DEF P, o
<1> QED BY <1>4, <1>5 DEF Replies

\* An answered poll: the reply and what it was read from.
LEMMA PollCases ==
  ASSUME NEW m \in Machines, NEW times \in Option(CpuTimes), FetchTelemetry(m, times)
  PROVE  /\ UNCHANGED <<daemon, discrete>> /\ last_cpu' \in {last_cpu, times}
         /\ \E s \in status, t \in Replies(m, times), source \in {{}, Some(m)} :
              /\ shown' = overview(s.ok, s.fields, t)
              /\ told' = [status |-> s, machine |-> source]
              /\ source = {} => t = NoFields
              /\ source = Some(m) => t = read(m, times, last_cpu)
              /\ t = NoFields \/ Later(last_cpu, times)
<1>1. CASE /\ Later(last_cpu, times) /\ last_cpu' = last_cpu_after(times, last_cpu)
           /\ Notify(read(m, times, last_cpu), Some(m))
  BY <1>1 DEF Notify, Replies, Some, last_cpu_after
<1>2. CASE Notify(NoFields, {}) /\ last_cpu' \in {last_cpu, times}
  BY <1>2 DEF Notify, Replies, Some
<1> QED BY <1>1, <1>2 DEF FetchTelemetry, last_cpu_after

LEMMA TypeInit == Init => TypeOK
<1> SUFFICES ASSUME Init PROVE TypeOK
  OBVIOUS
<1>1. daemon \in Option(Daemons) /\ last_cpu \in Option(CpuTimes)
  BY DEF Init, Option, Some
<1>2. discrete \in BOOLEAN
  BY Zenon DEF Init, has_dgpu
<1>3. /\ shown.cpu_load = {} /\ shown.gpu_load = {} /\ shown.memory = {}
      /\ shown.connection = Dash /\ shown.power = Dash
  BY DEF Init, Blank
<1> QED BY <1>1, <1>2, <1>3 DEF TypeOK

LEMMA TypeNext == TypeOK /\ [Next]_vars => TypeOK'
<1> SUFFICES ASSUME TypeOK, [Next]_vars PROVE TypeOK'
  OBVIOUS
<1>1. CASE FetchStatus \/ Chosen \/ Starts \/ Stops \/ UNCHANGED vars
  BY <1>1 DEF TypeOK, FetchStatus, Chosen, Starts, Stops, vars, Option, Some
<1>2. ASSUME NEW m \in Machines, NEW times \in Option(CpuTimes), FetchTelemetry(m, times)
      PROVE  TypeOK'
  <2>1. PICK s \in status, t \in Replies(m, times) :
          /\ shown' = overview(s.ok, s.fields, t)
          /\ t = NoFields \/ Later(last_cpu, times)
    BY <1>2, PollCases
  <2>2. UNCHANGED <<daemon, discrete>> /\ last_cpu' \in {last_cpu, times}
    BY <1>2, PollCases
  <2>3. /\ \A n \in shown'.cpu_load \cup shown'.gpu_load \cup shown'.memory : n \in 0..100
        /\ shown'.connection \in {Dash, "Connected", "Disconnected"}
        /\ shown'.power \in {Dash, "Plugged in", "On battery"}
    BY <2>1, TypedLabels
  <2> QED BY <2>2, <2>3 DEF TypeOK
<1> QED BY <1>1, <1>2 DEF Next

-----------------------------------------------------------------------------
(* What the page tells *)

\* The two detail labels are hidden or shown, whatever their text.
Detailed == /\ DOMAIN shown.memory_detail = {"text", "visible"}
            /\ DOMAIN shown.levels = {"text", "visible"}

IInv == TypeOK /\ Detailed /\ DashboardTells

LEMMA Hidden ==
  ASSUME NEW d, DOMAIN d = {"text", "visible"}
  PROVE  LET h == [d EXCEPT !.visible = FALSE]
         IN  DOMAIN h = {"text", "visible"} /\ h.visible = FALSE
OBVIOUS

LEMMA DetailedNext ==
  ASSUME Detailed, NEW reachable, NEW fields, NEW t
  PROVE  LET o == overview(reachable, fields, t)
         IN  /\ DOMAIN o.memory_detail = {"text", "visible"}
             /\ DOMAIN o.levels = {"text", "visible"}
<1> DEFINE o == overview(reachable, fields, t)
<1>1. DOMAIN o.memory_detail = {"text", "visible"}
  <2>1. o.memory_detail = IF o.memory = {} THEN [shown.memory_detail EXCEPT !.visible = FALSE]
                          ELSE [text |-> o.memory, visible |-> TRUE]
    BY MemoryDetail, Zenon
  <2> HIDE DEF o
  <2> QED BY <2>1, Hidden DEF Detailed
<1>2. DOMAIN o.levels = {"text", "visible"}
  <2> HIDE DEF o
  <2>1. CASE IsCustom(fields)
    <3>1. o.levels = [text |-> Some(<<fields.profile.cpu, fields.profile.gpu>>), visible |-> TRUE]
      BY <2>1, LevelsDetail, Zenon DEF o
    <3> QED BY <3>1
  <2>2. CASE ~IsCustom(fields)
    <3>1. o.levels = [shown.levels EXCEPT !.visible = FALSE]
      BY <2>2, LevelsDetail, Zenon DEF o
    <3> QED BY <3>1, Hidden DEF Detailed
  <2> QED BY <2>1, <2>2
<1> QED BY <1>1, <1>2

\* What depends on the first answer only.
LEMMA StatusTells ==
  ASSUME Detailed, NEW reachable, NEW fields, NEW t
  PROVE  LET o == overview(reachable, fields, t)
         IN  /\ o.levels.visible <=> IsCustom(fields)
             /\ o.levels.visible =>
                  o.levels.text = Some(<<fields.profile.cpu, fields.profile.gpu>>)
             /\ o.experimental => fields.experimental = "true"
<1> DEFINE o == overview(reachable, fields, t)
<1>1. o.experimental => fields.experimental = "true"
  <2>1. o.experimental = (word(fields, "experimental") = "true")
    BY LabelFacts
  <2>2. word(fields, "experimental") = "true" => fields.experimental = "true"
    BY DEF word, Dash
  <2> HIDE DEF o
  <2> QED BY <2>1, <2>2, Zenon
<1>2. IsCustom(fields) =>
        o.levels = [text |-> Some(<<fields.profile.cpu, fields.profile.gpu>>), visible |-> TRUE]
  BY LevelsDetail, Zenon
<1>3. ~IsCustom(fields) => o.levels = [shown.levels EXCEPT !.visible = FALSE]
  BY LevelsDetail, Zenon
<1>4. [shown.levels EXCEPT !.visible = FALSE].visible = FALSE
  BY Hidden DEF Detailed
<1>5. LET l == [text |-> Some(<<fields.profile.cpu, fields.profile.gpu>>), visible |-> TRUE]
      IN  l.visible = TRUE /\ l.text = Some(<<fields.profile.cpu, fields.profile.gpu>>)
  OBVIOUS
<1> HIDE DEF o
<1>6. /\ o.levels.visible <=> IsCustom(fields)
      /\ o.levels.visible => o.levels.text = Some(<<fields.profile.cpu, fields.profile.gpu>>)
  BY <1>2, <1>3, <1>4, <1>5, Zenon
<1> QED BY <1>1, <1>6, Zenon DEF o

\* No answer to the second request: nothing of the machine.
LEMMA NothingTells ==
  ASSUME Detailed, NEW reachable, NEW fields
  PROVE  LET o == overview(reachable, fields, NoFields)
         IN  /\ o.cpu \cup o.cpu_load \cup o.cpu_clock \cup o.gpu \cup o.memory = {}
             /\ ~o.asleep /\ ~o.memory_detail.visible /\ o.power = Dash
<1> DEFINE o == overview(reachable, fields, NoFields)
<1>1. /\ o.cpu = number(NoFields, "cpu_temp") /\ o.cpu_load = number(NoFields, "cpu_util")
      /\ o.cpu_clock = number(NoFields, "cpu_freq") /\ o.gpu = number(NoFields, "gpu_temp")
      /\ o.memory = {Percent(u, w) : u \in number(NoFields, "mem_used"),
                                     w \in number(NoFields, "mem_total") \ {0}}
  BY LabelFacts
<1>2. o.asleep = (word(NoFields, "gpu_source") = "igpu" /\ discrete)
  BY LabelFacts
<1>3. o.memory_detail = IF o.memory = {} THEN [shown.memory_detail EXCEPT !.visible = FALSE]
                        ELSE [text |-> o.memory, visible |-> TRUE]
  BY MemoryDetail, Zenon
<1>4. word(NoFields, "power") \notin {"ac", "battery"} => o.power = Dash
  BY PowerLabel
<1> HIDE DEF o
<1>5. o.cpu \cup o.cpu_load \cup o.cpu_clock \cup o.gpu \cup o.memory = {} /\ o.memory = {}
  BY <1>1, NothingRead
<1>6. word(NoFields, "gpu_source") # "igpu" /\ word(NoFields, "power") \notin {"ac", "battery"}
  BY NothingRead DEF Dash
<1>7. ~o.asleep
  BY <1>2, <1>6, Zenon
<1>8. o.memory_detail.visible = FALSE
  BY <1>3, <1>5, Hidden DEF Detailed
<1> QED BY <1>4, <1>5, <1>6, <1>7, <1>8 DEF o

\* An answer to it: the source of the power, and the right GPU.
LEMMA MachineTells ==
  ASSUME NEW m \in Machines, NEW times, NEW reachable, NEW fields
  PROVE  LET o == overview(reachable, fields, read(m, times, last_cpu))
         IN  /\ o.power = "Plugged in" <=> \E i \in Adapters(m) : m.supplies[i].online = {"1"}
             /\ o.power = "On battery" => \E i \in Adapters(m) : m.supplies[i].online # {}
             /\ ~Awake(m) => \E r \in {NoGpu} \cup amd_igpu_reading(m.hwmon, m.drm) :
                  o.gpu = r.temp /\ o.vram = r.mem_used \X r.mem_total
             /\ o.asleep => ~Awake(m) \/ nvidia_reading(m.smi) = {}
<1> DEFINE t == read(m, times, last_cpu)
           o == overview(reachable, fields, t)
           gpu == gpu_reading(m)
           source == power(ac_from_supplies(m.supplies))
<1>1. word(t, "power") = source /\ word(t, "gpu_source") = gpu.source
  BY ReadFacts
<1>2. /\ number(t, "gpu_temp") = gpu.temp /\ number(t, "gpu_mem_used") = gpu.mem_used
      /\ number(t, "gpu_mem_total") = gpu.mem_total
  BY ReadFacts
<1>3. /\ source \in {"ac", "battery", "unknown"}
      /\ source = "ac" <=> \E i \in Adapters(m) : m.supplies[i].online = {"1"}
      /\ source = "battery" => \E i \in Adapters(m) : m.supplies[i].online # {}
  BY PowerFacts DEF Adapters
<1>4. /\ word(t, "power") = "ac" => o.power = "Plugged in"
      /\ word(t, "power") = "battery" => o.power = "On battery"
      /\ word(t, "power") \notin {"ac", "battery"} => o.power = Dash
  BY PowerLabel
<1>5. o.gpu = number(t, "gpu_temp")
      /\ o.vram = {<<u, w>> : u \in number(t, "gpu_mem_used"), w \in number(t, "gpu_mem_total")}
  BY LabelFacts
<1>6. o.asleep = (word(t, "gpu_source") = "igpu" /\ discrete)
  BY LabelFacts
<1>7. /\ ~Awake(m) => gpu \in amd_igpu_reading(m.hwmon, m.drm) \cup {NoGpu}
      /\ gpu.source = "igpu" => ~Awake(m) \/ nvidia_reading(m.smi) = {}
  BY GpuFacts
<1> HIDE DEF t, o, gpu, source
<1>8. (o.power = "Plugged in" <=> source = "ac") /\ (o.power = "On battery" => source = "battery")
  BY <1>1, <1>3, <1>4 DEF Dash
<1>9. o.vram = gpu.mem_used \X gpu.mem_total
  BY <1>2, <1>5
<1>10. o.asleep => gpu.source = "igpu"
  BY <1>1, <1>6, Zenon
<1>11. ~Awake(m) => \E r \in {NoGpu} \cup amd_igpu_reading(m.hwmon, m.drm) :
         o.gpu = r.temp /\ o.vram = r.mem_used \X r.mem_total
  BY <1>2, <1>5, <1>7, <1>9
<1> QED BY <1>3, <1>7, <1>8, <1>10, <1>11, Zenon DEF t, o, gpu, source

\* An answered poll tells what it was told.
LEMMA PollTells ==
  ASSUME IInv, NEW m \in Machines, NEW times \in Option(CpuTimes), FetchTelemetry(m, times)
  PROVE  Detailed' /\ DashboardTells'
<1>1. PICK s \in status, t \in Replies(m, times), source \in {{}, Some(m)} :
        /\ shown' = overview(s.ok, s.fields, t)
        /\ told' = [status |-> s, machine |-> source]
        /\ source = {} => t = NoFields
        /\ source = Some(m) => t = read(m, times, last_cpu)
  BY PollCases
<1>2. Detailed
  BY DEF IInv
<1>3. told'.status.fields = s.fields /\ told'.machine = source
  BY <1>1
<1>4. Detailed'
  BY <1>1, <1>2, DetailedNext DEF Detailed
<1>5. /\ shown'.levels.visible <=> IsCustom(s.fields)
      /\ shown'.levels.visible =>
           shown'.levels.text = Some(<<s.fields.profile.cpu, s.fields.profile.gpu>>)
      /\ shown'.experimental => s.fields.experimental = "true"
  BY <1>1, <1>2, StatusTells
<1>6. source = {} =>
        /\ shown'.cpu \cup shown'.cpu_load \cup shown'.cpu_clock \cup shown'.gpu \cup shown'.memory = {}
        /\ ~shown'.asleep /\ ~shown'.memory_detail.visible /\ shown'.power = Dash
  BY <1>1, <1>2, NothingTells
<1>7. source = Some(m) =>
        /\ shown'.power = "Plugged in" <=> \E i \in Adapters(m) : m.supplies[i].online = {"1"}
        /\ shown'.power = "On battery" => \E i \in Adapters(m) : m.supplies[i].online # {}
        /\ ~Awake(m) => \E r \in {NoGpu} \cup amd_igpu_reading(m.hwmon, m.drm) :
             shown'.gpu = r.temp /\ shown'.vram = r.mem_used \X r.mem_total
        /\ shown'.asleep => ~Awake(m) \/ nvidia_reading(m.smi) = {}
  <2> HAVE source = Some(m)
  <2>1. shown' = overview(s.ok, s.fields, read(m, times, last_cpu))
    BY <1>1, Zenon
  <2> DEFINE o == overview(s.ok, s.fields, read(m, times, last_cpu))
  <2>2. /\ o.power = "Plugged in" <=> \E i \in Adapters(m) : m.supplies[i].online = {"1"}
        /\ o.power = "On battery" => \E i \in Adapters(m) : m.supplies[i].online # {}
        /\ ~Awake(m) => \E r \in {NoGpu} \cup amd_igpu_reading(m.hwmon, m.drm) :
             o.gpu = r.temp /\ o.vram = r.mem_used \X r.mem_total
        /\ o.asleep => ~Awake(m) \/ nvidia_reading(m.smi) = {}
    BY MachineTells, Zenon
  <2> HIDE DEF o
  <2>3. shown' = o
    BY <2>1 DEF o
  <2> QED BY <2>2, <2>3, Zenon
<1>8. \A x \in source : x = m /\ source = Some(m)
  BY DEF Some
<1> DEFINE o == shown'
<1>9. LET fields == told'.status.fields
      IN  /\ o.levels.visible <=> "profile" \in DOMAIN fields /\ fields.profile.name = "custom"
          /\ o.levels.visible => o.levels.text = Some(<<fields.profile.cpu, fields.profile.gpu>>)
          /\ o.experimental => fields.experimental = "true"
  <2> HIDE DEF o
  <2> QED BY <1>3, <1>5, Zenon DEF IsCustom, o
<1>10. told'.machine = {} =>
         /\ o.cpu \cup o.cpu_load \cup o.cpu_clock \cup o.gpu \cup o.memory = {}
         /\ ~o.asleep /\ ~o.memory_detail.visible /\ o.power = Dash
  BY <1>3, <1>6, Zenon
<1>11. ASSUME NEW x \in told'.machine
       PROVE  /\ o.power = "Plugged in" <=> \E i \in Adapters(x) : x.supplies[i].online = {"1"}
              /\ o.power = "On battery" => \E i \in Adapters(x) : x.supplies[i].online # {}
              /\ ~Awake(x) => \E r \in {NoGpu} \cup amd_igpu_reading(x.hwmon, x.drm) :
                   o.gpu = r.temp /\ o.vram = r.mem_used \X r.mem_total
              /\ o.asleep => ~Awake(x) \/ nvidia_reading(x.smi) = {}
  <2>1. x = m /\ source = Some(m)
    BY <1>3, <1>8
  <2> QED BY <1>7, <2>1, Zenon
<1>12. DashboardTells'
  BY <1>9, <1>10, <1>11, Zenon DEF DashboardTells
<1> QED BY <1>4, <1>12

LEMMA InitTells == Init => Detailed /\ DashboardTells
<1> SUFFICES ASSUME Init PROVE Detailed /\ DashboardTells
  OBVIOUS
<1>1. /\ shown.levels = [text |-> {}, visible |-> FALSE]
      /\ shown.memory_detail = [text |-> {}, visible |-> FALSE]
      /\ shown.cpu = {} /\ shown.cpu_load = {} /\ shown.cpu_clock = {} /\ shown.gpu = {}
      /\ shown.memory = {} /\ shown.power = Dash
  BY DEF Init, Blank
<1>2. shown.experimental = FALSE /\ shown.asleep = FALSE
  BY DEF Init, Blank
<1>3. told.machine = {} /\ told.status.fields = NoFields
  BY DEF Init
<1>4. "profile" \notin DOMAIN NoFields
  BY DEF NoFields
<1>5. /\ shown.levels.visible = FALSE /\ shown.memory_detail.visible = FALSE
      /\ shown.cpu \cup shown.cpu_load \cup shown.cpu_clock \cup shown.gpu \cup shown.memory = {}
      /\ Detailed
  BY <1>1 DEF Detailed
<1> QED BY <1>1, <1>2, <1>3, <1>4, <1>5, Zenon DEF DashboardTells

LEMMA Invariance == Spec => []IInv
<1>1. Init => IInv
  BY TypeInit, InitTells DEF IInv
<1>2. IInv /\ [Next]_vars => IInv'
  <2> SUFFICES ASSUME IInv, [Next]_vars PROVE Detailed' /\ DashboardTells'
    BY TypeNext DEF IInv
  <2>1. CASE UNCHANGED <<shown, told>>
    <3>1. Detailed' <=> Detailed
      BY <2>1 DEF Detailed
    <3>2. DashboardTells' <=> DashboardTells
      <4>1. shown' = shown /\ told' = told
        BY <2>1
      <4> QED BY <4>1 DEF DashboardTells
    <3> QED BY <3>1, <3>2 DEF IInv
  <2>2. CASE \E m \in Machines, times \in Option(CpuTimes) : FetchTelemetry(m, times)
    BY <2>2, PollTells
  <2>3. \/ UNCHANGED <<shown, told>>
        \/ \E m \in Machines, times \in Option(CpuTimes) : FetchTelemetry(m, times)
    BY Zenon DEF Next, vars, FetchStatus, Chosen, Starts, Stops
  <2> QED BY <2>1, <2>2, <2>3
<1> QED BY <1>1, <1>2, PTL DEF Spec

-----------------------------------------------------------------------------
(* What follows *)

\* telemetry.rs:142-152, 258-272, overview.rs:118-228: whatever the machine
\* says, the gauges get figures they can draw.
THEOREM TypeCorrect == Spec => []TypeOK
<1>1. IInv => TypeOK
  BY DEF IInv
<1> QED BY <1>1, Invariance, PTL

\* overview.rs:108-228, telemetry.rs:287-305: the page tells what its last two
\* answers were read from and nothing older.
THEOREM TellsCorrect == Spec => []DashboardTells
<1>1. IInv => DashboardTells
  BY DEF IInv
<1> QED BY <1>1, Invariance, PTL
=============================================================================
