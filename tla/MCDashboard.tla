---------------------------- MODULE MCDashboard ----------------------------
(***************************************************************************)
(* A small instance of Dashboard for TLC.                                  *)
(***************************************************************************)
EXTENDS Dashboard

Supply(kind, online) == [kind |-> kind, online |-> online]
Hwmon(name, temp)    == [name |-> name, temp |-> temp]
Card(vendor, busy, used, total) ==
  [vendor |-> vendor, busy |-> busy, vram_used |-> used, vram_total |-> total]
Nvidia(power_state) == [vendor |-> "nvidia", display |-> TRUE, runtime_status |-> power_state]

\* The laptop on its barrel adapter, with the discrete GPU awake.
Desk ==
  [supplies |-> <<Supply("Battery", {}), Supply("Mains", {"1"}), Supply("USB", {"0"})>>,
   cpufreq  |-> <<{4300000}, {}, {3900000}>>,
   cpuinfo  |-> {3800, 4100},
   hwmon    |-> <<Hwmon("nvme", {38}), Hwmon("k10temp", {54}), Hwmon("amdgpu", {47})>>,
   pci      |-> <<[vendor |-> "nvidia", display |-> FALSE, runtime_status |-> "suspended"],
                  Nvidia("active")>>,
   smi      |-> Some(<<{52}, {12}, {2200}, {8188}>>),
   drm      |-> <<Card("nvidia", {}, {}, {}), Card("amd", {7}, {300}, {512})>>,
   meminfo  |-> Some([total |-> 32, available |-> 8])]

\* The discrete GPU asleep, on USB-C; nvidia-smi failing while it is awake; on
\* battery with half of the files missing; nothing readable.
MCMachines ==
  {Desk,
   [Desk EXCEPT !.pci = <<Nvidia("suspended")>>,
                !.supplies = <<Supply("Mains", {"0"}), Supply("USB", {"1"})>>],
   [Desk EXCEPT !.smi = {}, !.meminfo = Some([total |-> 32, available |-> 33]), !.cpufreq = <<{}, {0}>>],
   [Desk EXCEPT !.supplies = <<Supply("Mains", {"0"}), Supply("USB", {})>>,
                !.hwmon = <<Hwmon("k10temp", {}), Hwmon("coretemp", {40})>>,
                !.smi = Some(<<{}, {}>>), !.drm = <<Card("amd", {}, {300}, {512})>>],
   [Desk EXCEPT !.supplies = <<Supply("Battery", {})>>, !.hwmon = <<>>, !.pci = <<>>,
                !.smi = {}, !.drm = <<>>, !.meminfo = {}, !.cpufreq = <<>>, !.cpuinfo = {}]}

\* Busy jiffies grow along each row; idle ones, with iowait, may fall.
MCCpuTimes ==
  {[total |-> b + i, idle |-> i] : b \in {100, 120}, i \in {50, 60}}

MCDaemons ==
  [backend : {"dry-run"}, experimental : {"true"},
   profile : {Silent, Custom("low", "high"), Custom("boost", "low")}]
    \cup [backend : {"hidraw"}, experimental : {"false"}, profile : {Balanced}]
=============================================================================
