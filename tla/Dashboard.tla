----------------------------- MODULE Dashboard -----------------------------
(***************************************************************************)
(* The read-only side of the GUI: the poll (src/desktop/src/app/poll.rs)   *)
(* and the Overview page it feeds.                                         *)
(*                                                                         *)
(* A poll is two requests, each over a connection of its own.  Between     *)
(* them, and between polls, the daemon may change, restart or be gone, and *)
(* the machine may be in any other state.                                  *)
(***************************************************************************)
EXTENDS RazerPolicy, Telemetry

CONSTANTS
  Machines,   (* what /sys, /proc and nvidia-smi may say                   *)
  CpuTimes,   (* total and idle jiffies /proc/stat may hold                *)
  Daemons     (* what the status of a daemon may say                       *)

Discrete(device) == device.vendor = "nvidia" /\ device.display

\* Directories are listed in some order, and the laptop has one discrete GPU.
\* What the kernel and nvidia-smi call a load is a percentage, and memory comes
\* in whole units.
IsMachine(m) ==
  /\ DOMAIN m.pci = 1..Len(m.pci) /\ DOMAIN m.drm = 1..Len(m.drm)
  /\ Len(m.pci) \in Nat /\ Len(m.drm) \in Nat
  /\ \A i, j \in DOMAIN m.pci : Discrete(m.pci[i]) /\ Discrete(m.pci[j]) => i = j
  /\ \A i \in DOMAIN m.drm : m.drm[i].busy \subseteq 0..100
  /\ \A line \in m.smi : Len(line) >= 4 => line[2] \subseteq 0..100
  /\ \A x, y \in m.meminfo : x = y /\ x.total \in Nat /\ x.available \in Nat

ASSUME MachineAssumption ==
  /\ \A m \in Machines : IsMachine(m)
  /\ \A t \in CpuTimes : t.total \in Nat /\ t.idle \in 0..t.total

Busy(t) == t.total - t.idle

\* Jiffies that were busy stay busy; idle time (it includes iowait) may fall.
Later(before, now) == \A b \in before, n \in now : Busy(n) >= Busy(b)

VARIABLES
  daemon,        (* the running daemon, if any                             *)
  last_cpu,      (* its TelemetryReader's last snapshot                    *)
  discrete,      (* has_dgpu, read once when the page was built            *)
  status,        (* poll: the answer to the first request, when it is out  *)
  shown,         (* the labels of the Overview page                        *)
  (* history *)
  told           (* what the shown answers were read from                  *)

vars == <<daemon, last_cpu, discrete, status, shown, told>>

-----------------------------------------------------------------------------
(* The Overview page *)

Dash == "dash"   \* the label of what is not known

number(map, key) == IF key \in DOMAIN map THEN map[key] ELSE {}
word(map, key)   == IF key \in DOMAIN map THEN map[key] ELSE Dash
Percent(used, total) == (100 * used) \div total

\* The detail labels keep their text while they are hidden.
overview(reachable, fields, telemetry) ==
  LET get(key) == number(telemetry, key)
      profile  == IF "profile" \in DOMAIN fields THEN fields.profile ELSE [name |-> Dash]
      memory   == {Percent(u, t) : u \in get("mem_used"), t \in get("mem_total") \ {0}}
  IN  [connection |-> IF reachable THEN "Connected" ELSE "Disconnected",
       backend    |-> word(fields, "backend"),
       experimental |-> word(fields, "experimental") = "true",
       cpu        |-> get("cpu_temp"),
       cpu_load   |-> get("cpu_util"),
       cpu_clock  |-> get("cpu_freq"),
       gpu        |-> get("gpu_temp"),
       gpu_load   |-> get("gpu_util"),
       vram       |-> {<<u, t>> : u \in get("gpu_mem_used"), t \in get("gpu_mem_total")},
       asleep     |-> word(telemetry, "gpu_source") = "igpu" /\ discrete,
       fan        |-> get("fan_rpm"),
       memory     |-> memory,
       memory_detail |-> IF memory = {} THEN [shown.memory_detail EXCEPT !.visible = FALSE]
                         ELSE [text |-> memory, visible |-> TRUE],
       power      |-> CASE word(telemetry, "power") = "ac" -> "Plugged in"
                        [] word(telemetry, "power") = "battery" -> "On battery"
                        [] OTHER -> Dash,
       profile    |-> profile.name,
       levels     |-> IF profile.name = "custom"
                        THEN [text |-> Some(<<profile.cpu, profile.gpu>>), visible |-> TRUE]
                        ELSE [shown.levels EXCEPT !.visible = FALSE]]

Blank ==
  [connection |-> Dash, backend |-> Dash, experimental |-> FALSE,
   cpu |-> {}, cpu_load |-> {}, cpu_clock |-> {}, gpu |-> {}, gpu_load |-> {}, vram |-> {}, asleep |-> FALSE,
   fan |-> {}, memory |-> {}, memory_detail |-> [text |-> {}, visible |-> FALSE],
   power |-> Dash, profile |-> Dash, levels |-> [text |-> {}, visible |-> FALSE]]

-----------------------------------------------------------------------------
(* One poll *)

NoFields == [k \in {} |-> {}]

\* send("status"): the fields; an empty reply when the connection ends before
\* one; an error.
StatusAnswers ==
  {[ok |-> TRUE, fields |-> d] : d \in daemon}
    \cup {[ok |-> TRUE, fields |-> NoFields] : d \in daemon}
    \cup {[ok |-> FALSE, fields |-> NoFields]}

FetchStatus ==
  /\ status = {}
  /\ status' \in {Some(a) : a \in StatusAnswers}
  /\ UNCHANGED <<daemon, last_cpu, discrete, shown, told>>

\* Both answers are in: every label is set anew.
Notify(telemetry, machine) ==
  \E s \in status :
    /\ shown' = overview(s.ok, s.fields, telemetry)
    /\ told' = [status |-> s, machine |-> machine]
    /\ status' = {}
    /\ UNCHANGED <<daemon, discrete>>

\* send("telemetry"): the daemon reads the machine, if it is there; its reply
\* may be lost all the same.
FetchTelemetry(m, times) ==
  \/ /\ daemon # {} /\ Later(last_cpu, times)
     /\ last_cpu' = last_cpu_after(times, last_cpu)
     /\ \/ Notify(read(m, times, last_cpu), Some(m))
        \/ Notify(NoFields, {})
  \/ Notify(NoFields, {}) /\ UNCHANGED last_cpu

-----------------------------------------------------------------------------
(* The daemon meanwhile *)

Chosen ==
  /\ daemon # {}
  /\ daemon' \in {Some(d) : d \in Daemons}
  /\ \A d \in daemon, e \in daemon' : d.backend = e.backend /\ d.experimental = e.experimental
  /\ UNCHANGED <<last_cpu, discrete, status, shown, told>>

Starts ==
  /\ daemon = {} /\ daemon' \in {Some(d) : d \in Daemons}
  /\ UNCHANGED <<last_cpu, discrete, status, shown, told>>

Stops ==
  /\ daemon # {} /\ daemon' = {} /\ last_cpu' = {}
  /\ UNCHANGED <<discrete, status, shown, told>>

\* The page is built with one sysinfo request: no answer means no dGPU.
Init ==
  /\ daemon \in {{}} \cup {Some(d) : d \in Daemons}
  /\ last_cpu = {} /\ status = {} /\ shown = Blank
  /\ discrete \in {FALSE} \cup {has_dgpu(m) : m \in Machines}
  /\ told = [status |-> [ok |-> FALSE, fields |-> NoFields], machine |-> {}]

Next ==
  \/ FetchStatus \/ Chosen \/ Starts \/ Stops
  \/ \E m \in Machines, times \in Option(CpuTimes) : FetchTelemetry(m, times)

Spec == Init /\ [][Next]_vars

-----------------------------------------------------------------------------
(* Correctness *)

\* Whatever the machine says, the gauges get figures they can draw: a load and
\* a share of memory are percentages, though idle time may fall and the free
\* memory may exceed the total (telemetry.rs:142-152, 272).
TypeOK ==
  /\ daemon \in Option(Daemons) /\ last_cpu \in Option(CpuTimes)
  /\ discrete \in BOOLEAN
  /\ \A n \in shown.cpu_load \cup shown.gpu_load \cup shown.memory : n \in 0..100
  /\ shown.connection \in {Dash, "Connected", "Disconnected"}
  /\ shown.power \in {Dash, "Plugged in", "On battery"}

Awake(m) ==
  \E i \in DOMAIN m.pci : Discrete(m.pci[i]) /\ m.pci[i].runtime_status = "active"
Adapters(m) == {i \in DOMAIN m.supplies : m.supplies[i].kind # "Battery"}

\* The page tells what its last two answers were read from and nothing older:
\* nothing of the machine after an answer that did not come, no levels of a
\* profile that is gone, the source the machine runs on, the discrete GPU's
\* figures only when its status was read as awake, and "asleep" never next to
\* them (overview.rs:108-228, telemetry.rs:287-305).
DashboardTells ==
  LET fields == told.status.fields
  IN  /\ shown.levels.visible <=>
           "profile" \in DOMAIN fields /\ fields.profile.name = "custom"
      /\ shown.levels.visible => shown.levels.text = Some(<<fields.profile.cpu, fields.profile.gpu>>)
      /\ shown.experimental => fields.experimental = "true"
      /\ told.machine = {} =>
           /\ shown.cpu \cup shown.cpu_load \cup shown.cpu_clock \cup shown.gpu \cup shown.memory = {}
           /\ ~shown.asleep /\ ~shown.memory_detail.visible /\ shown.power = Dash
      /\ \A m \in told.machine :
           /\ shown.power = "Plugged in" <=> \E i \in Adapters(m) : m.supplies[i].online = {"1"}
           /\ shown.power = "On battery" => \E i \in Adapters(m) : m.supplies[i].online # {}
           /\ ~Awake(m) => \E r \in {NoGpu} \cup amd_igpu_reading(m.hwmon, m.drm) :
                shown.gpu = r.temp /\ shown.vram = r.mem_used \X r.mem_total
           /\ shown.asleep => ~Awake(m) \/ nvidia_reading(m.smi) = {}
=============================================================================
