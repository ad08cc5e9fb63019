----------------------------- MODULE Telemetry -----------------------------
(***************************************************************************)
(* The decisions of src/src/telemetry.rs: what the files under /sys and    *)
(* /proc, and nvidia-smi, any of which may be missing, say of the machine. *)
(* A file is a set of at most one value, an Option likewise; directory     *)
(* entries are a sequence, in the order the code meets them.               *)
(***************************************************************************)
EXTENDS Integers, Sequences, FiniteSetsExt

\* A plausible slip: the verdict of the first readable adapter.
ac_from_first_supply(entries) ==
  LET readable == {i \in DOMAIN entries :
                     entries[i].kind # "Battery" /\ entries[i].online # {}}
  IN  IF readable = {} THEN {} ELSE {"1" \in entries[Min(readable)].online}

\* Each entry is a supply's type and its online file: any online adapter
\* means mains, a readable one at least means battery.
ac_from_supplies(entries) ==
  LET readable == {i \in DOMAIN entries :
                     entries[i].kind # "Battery" /\ entries[i].online # {}}
  IN  IF readable = {} THEN {} ELSE {\E i \in readable : entries[i].online = {"1"}}

\* The field `power` of the reply.
power(on_ac) ==
  CASE on_ac = {TRUE} -> "ac" [] on_ac = {FALSE} -> "battery" [] on_ac = {} -> "unknown"

-----------------------------------------------------------------------------
(* Figures *)

\* The temperature of the first hwmon node of these drivers; a node whose
\* temperature cannot be read hides the ones behind it.
hwmon_temp(nodes, drivers) ==
  LET named == {i \in DOMAIN nodes : nodes[i].name \in drivers}
  IN  IF named = {} THEN {} ELSE nodes[Min(named)].temp

cpu_temp_celsius(nodes) == hwmon_temp(nodes, {"k10temp", "coretemp", "zenpower"})
amdgpu_temp(nodes)      == hwmon_temp(nodes, {"amdgpu", "nouveau"})

\* Of two snapshots, the share of the jiffies that were not idle.
Share(b, n) == 100 - (100 * (n.idle - b.idle)) \div (n.total - b.total)

\* A plausible slip: the idle time of the first line taken to grow with it.
cpu_util_unchecked(before, now) ==
  {Share(p[1], p[2]) : p \in {q \in before \X now : q[2].total > q[1].total}}

\* The share of busy jiffies between two reads, in percent.
cpu_util(before, now) ==
  {Share(p[1], p[2]) :
     p \in {q \in before \X now : q[2].total > q[1].total /\ q[2].idle >= q[1].idle}}

\* The highest clock of the cores, in kHz by core, or else of cpuinfo, in MHz.
cpu_freq_mhz(cores, cpuinfo) ==
  LET Highest(S) == {x \in S : \A y \in S : y <= x}
      khz == (UNION {cores[i] : i \in DOMAIN cores}) \ {0}
  IN  IF khz # {} THEN {x \div 1000 : x \in Highest(khz)} ELSE Highest(cpuinfo)

mem_used_total(meminfo) ==
  {[used |-> IF m.available > m.total THEN 0 ELSE m.total - m.available, total |-> m.total] :
     m \in meminfo}

NoGpu == [source |-> "none", temp |-> {}, util |-> {}, mem_used |-> {}, mem_total |-> {}]

\* The runtime power state of the first NVIDIA display device.
nvidia_is_active(devices) ==
  LET nvidia == {i \in DOMAIN devices : devices[i].vendor = "nvidia" /\ devices[i].display}
  IN  nvidia # {} /\ devices[Min(nvidia)].runtime_status = "active"

\* nvidia-smi's line of four figures, if it succeeds.
nvidia_reading(smi) ==
  {[source |-> "dgpu", temp |-> s[1], util |-> s[2], mem_used |-> s[3], mem_total |-> s[4]] :
     s \in {line \in smi : Len(line) >= 4}}

\* The first AMD card under /sys/class/drm.
amdgpu_drm(cards) ==
  LET amd == {i \in DOMAIN cards : cards[i].vendor = "amd"}
  IN  IF amd = {} THEN [busy |-> {}, vram_used |-> {}, vram_total |-> {}] ELSE cards[Min(amd)]

amd_igpu_reading(nodes, cards) ==
  LET temp == amdgpu_temp(nodes)
      drm  == amdgpu_drm(cards)
  IN  IF temp = {} /\ drm.busy = {} THEN {}
      ELSE {[source |-> "igpu", temp |-> temp, util |-> drm.busy,
             mem_used |-> drm.vram_used, mem_total |-> drm.vram_total]}

\* A plausible slip: the dGPU asked first, awake or not.
gpu_reading_waking(m) ==
  IF nvidia_reading(m.smi) # {} THEN CHOOSE r \in nvidia_reading(m.smi) : TRUE
  ELSE IF amd_igpu_reading(m.hwmon, m.drm) = {} THEN NoGpu
  ELSE CHOOSE r \in amd_igpu_reading(m.hwmon, m.drm) : TRUE

\* The dGPU while it is awake and nvidia-smi answers, else the iGPU.  Of m, each
\* component is what that file or tool said when it was asked: an m whose pci says
\* active and whose smi is empty is also a dGPU that fell asleep, or whose driver
\* went, between the two.  That nvidia-smi is not run shows in the figures only.
gpu_reading(m) ==
  LET dgpu == IF nvidia_is_active(m.pci) THEN nvidia_reading(m.smi) ELSE {}
      igpu == amd_igpu_reading(m.hwmon, m.drm)
  IN  CHOOSE r \in IF dgpu # {} THEN dgpu ELSE IF igpu # {} THEN igpu ELSE {NoGpu} : TRUE

-----------------------------------------------------------------------------
(* The reply *)

\* TelemetryReader::read and Telemetry::to_line: every field is there; one
\* without a value says "none", which is no number to a client.
read(m, times, before) ==
  LET gpu == gpu_reading(m)
      mem == mem_used_total(m.meminfo)
  IN  [cpu_temp      |-> cpu_temp_celsius(m.hwmon),
       cpu_util      |-> cpu_util(before, times),
       cpu_freq      |-> cpu_freq_mhz(m.cpufreq, m.cpuinfo),
       mem_used      |-> {x.used : x \in mem},
       mem_total     |-> {x.total : x \in mem},
       gpu_temp      |-> gpu.temp,
       gpu_util      |-> gpu.util,
       gpu_mem_used  |-> gpu.mem_used,
       gpu_mem_total |-> gpu.mem_total,
       gpu_source    |-> gpu.source,
       fan_rpm       |-> {},
       power         |-> power(ac_from_supplies(m.supplies))]

\* The snapshot the next read compares with: /proc/stat may be missing.
last_cpu_after(times, before) == IF times = {} THEN before ELSE times

\* The field gpu_dgpu of sysinfo is not "none": nvidia-smi, which wakes the
\* dGPU, has named one.
has_dgpu(m) == m.smi # {}
=============================================================================
