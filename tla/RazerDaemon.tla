---------------------------- MODULE RazerDaemon ----------------------------
(***************************************************************************)
(* The session daemon: src/src/daemon.rs (requests, policy, persisted      *)
(* state, failsafe) inside the serving loop of src/src/daemon_unix.rs, on  *)
(* a backend that sends one packet at a time to the embedded controller.   *)
(*                                                                         *)
(* The daemon is one thread.  What interleaves with it is its environment: *)
(* the EC that may refuse a packet, signals and crashes, the power supply, *)
(* the clock, the file system and the clients.  One step of the daemon is  *)
(* one packet, one request line or one branch of the loop.                 *)
(***************************************************************************)
EXTENDS EcProtocol

CONSTANTS
  Requests,          (* the request lines clients send                     *)
  InitialFiles,      (* contents of the state file before the first start  *)
  InitialEcs,        (* EC states another program may have left behind     *)
  ExperimentalModes, (* the --experimental choices a start may be given    *)
  FaultyLink,        (* a packet may fail (EC error, busy, lost reply)     *)
  FlakySupply,       (* sysfs may not tell the power source                *)
  SaveFails,         (* opening or writing the state file may fail         *)
  LoadFails,         (* a state file may be unreadable, or not UTF-8       *)
  Supplies,          (* the power sources the machine runs on, in turn   *)
  Crashes,           (* the process may die without running its handlers   *)
  AcceptFails,       (* accept() may fail for good                         *)
  SingleRequestClients  (* clients send one line per connection, as send() *)

Sources          == {"ac", "battery"}
QueryReq         == [req |-> "query"]   \* ping, status, ..., a malformed line
AutomationReq(source, fan) == [req |-> "automation", source |-> source, fan |-> fan]
KbdAutomationReq(source, b) ==
  [req |-> "kbd-automation", source |-> source, brightness |-> b]
OperationReq(o)  == [req |-> "operation", operation |-> o]

AllRequests ==
  {QueryReq}
    \cup [req : {"automation"}, source : Sources, fan : Option(FanModes)]
    \cup [req : {"kbd-automation"}, source : Sources, brightness : Option(U8)]
    \cup [req : {"operation"}, operation : RequestedOperations]

ASSUME EnvironmentAssumption ==
  /\ Requests \subseteq AllRequests
  /\ InitialFiles \subseteq Option(PersistedStates)
  /\ \A e \in InitialEcs : IsEcState(e)
  /\ ExperimentalModes \subseteq BOOLEAN /\ Supplies \subseteq Sources
  /\ {FaultyLink, FlakySupply, SaveFails, LoadFails, Crashes, AcceptFails,
      SingleRequestClients} \subseteq BOOLEAN

VARIABLES
  (* the daemon's memory *)
  pc,            (* where the thread is: see Sections                      *)
  experimental,  (* Daemon::allow_experimental                             *)
  fan_mode, profile,  (* what the daemon believes the EC is set to         *)
  state, dirty,  (* the settings to persist, and whether they changed      *)
  on_ac,         (* the loop's last reading of the power source            *)
  todo,          (* operations the current section still applies           *)
  inFlight,      (* backend.apply is running for Head(todo)                *)
  sent,          (* packets of Head(todo) the EC has acknowledged          *)
  spent,         (* the open connection has sent its only line             *)
  (* the world around it *)
  ec,            (* the registers of the embedded controller               *)
  late,          (* a packet the EC took in, to execute later or never     *)
  file,          (* the state file                                         *)
  supply,        (* the power source the machine is on                     *)
  sigterm,       (* SIGTERM or SIGINT has been delivered                   *)
  (* history: not in the code *)
  known,         (* registers last written by a fully acknowledged operation
                    of this process                                        *)
  unread,        (* this process read no state file and has saved nothing  *)
  saveFailed     (* the last write of the state file failed                *)

memory  == <<experimental, fan_mode, profile, state, dirty>>
backend == <<inFlight, sent, ec, late, known>>
vars    == <<pc, memory, on_ac, todo, backend, spent,
             file, supply, sigterm, unread, saveFailed>>

Sections == {"reapply", "loop", "serve", "poll", "automate", "save", "write",
             "failsafe", "stopped", "crashed"}
Running  == pc \notin {"stopped", "crashed"}

TypeOK ==
  /\ pc \in Sections
  /\ experimental \in BOOLEAN
  /\ fan_mode \in FanModes
  /\ profile \in Profiles
  /\ state \in PersistedStates
  /\ dirty \in BOOLEAN
  /\ on_ac \in Option(Sources)
  /\ todo \in Seq(RequestedOperations)
  /\ inFlight \in BOOLEAN
  /\ sent \in 0..4
  /\ spent \in BOOLEAN
  /\ IsEcState(ec)
  /\ \A p \in late : IsWrite(p)
  /\ file \in Option(PersistedStates)
  /\ supply \in Sources
  /\ sigterm \in BOOLEAN /\ saveFailed \in BOOLEAN
  /\ known \in SUBSET Registers
  /\ unread \in BOOLEAN

\* load_state_file reads a file that is there, is readable and is UTF-8.
CanRead(read) == IF read THEN file # None ELSE file = None \/ LoadFails

\* A plausible slip: an empty file, as an interrupted write leaves it, taken for
\* a first start.
LoadedUnlessEmpty(read) ==
  IF read /\ file # Some(DefaultState) THEN file ELSE Some(Factory)

\* What the file says, or else the factory settings.
Loaded(read) == IF read THEN file ELSE Some(Factory)

Init ==
  /\ pc = "stopped"
  /\ experimental = FALSE
  /\ fan_mode = FanAuto /\ profile = Balanced
  /\ dirty = FALSE /\ on_ac = None /\ todo = <<>>
  /\ inFlight = FALSE /\ sent = 0 /\ spent = FALSE
  /\ ec \in InitialEcs /\ late = None
  /\ file \in InitialFiles /\ state = Factory
  /\ supply \in Supplies /\ sigterm = FALSE
  /\ known = {} /\ unread = TRUE /\ saveFailed = FALSE

-----------------------------------------------------------------------------
(* Applying operations: Daemon::apply over HidrawBackend::apply *)

Context == [profile |-> profile, fan |-> fan_mode.fan]
Packets == operation_packets(Head(todo), Context)

\* A sequence of the operation an Option holds.
OpSeq(opt) == IF opt = None THEN <<>> ELSE <<CHOOSE o \in opt : TRUE>>

\* The policy refuses the operation: nothing is sent, nothing changes.
Refuse ==
  /\ ~inFlight /\ todo # <<>> /\ pc # "failsafe"
  /\ ~validate_operation(Head(todo), experimental)
  /\ todo' = Tail(todo)
  /\ UNCHANGED <<pc, memory, on_ac, backend, spent,
                 file, supply, sigterm, unread, saveFailed>>

\* A plausible slip: a persisted setting applied without the policy check.
BeginApplyUnchecked ==
  /\ ~inFlight /\ todo # <<>>
  /\ pc \notin {"failsafe", "reapply"} => validate_operation(Head(todo), experimental)
  /\ inFlight' = TRUE /\ sent' = 0
  /\ known' = known \ Touched(Head(todo), Context)
  /\ UNCHANGED <<pc, memory, on_ac, todo, ec, late, spent,
                 file, supply, sigterm, unread, saveFailed>>

\* The failsafe calls the backend directly, without the policy check.
BeginApply ==
  /\ ~inFlight /\ todo # <<>>
  /\ pc # "failsafe" => validate_operation(Head(todo), experimental)
  /\ inFlight' = TRUE /\ sent' = 0
  /\ known' = known \ Touched(Head(todo), Context)
  /\ UNCHANGED <<pc, memory, on_ac, todo, ec, late, spent,
                 file, supply, sigterm, unread, saveFailed>>

\* send_packet returns Ok: the EC has executed the packet, and a packet it had
\* taken in before is gone.
SendPacket ==
  /\ inFlight /\ sent < Len(Packets)
  /\ ec' = EcAfter(ec, Packets[sent + 1]) /\ late' = None
  /\ sent' = sent + 1
  /\ UNCHANGED <<pc, memory, on_ac, todo, inFlight, known, spent,
                 file, supply, sigterm, unread, saveFailed>>

\* What a packet without an acknowledgement leaves behind: it never reached the
\* EC, the EC has it and may execute it later, or the EC has executed it.
Unacknowledged(p) ==
  \/ UNCHANGED ec /\ late' \in {late, None, Some(p)}
  \/ ec' = EcAfter(ec, p) /\ late' \in {None, Some(p)}

\* A plausible slip: the error of a packet dropped.
PacketIgnored ==
  /\ FaultyLink
  /\ inFlight /\ sent < Len(Packets)
  /\ Unacknowledged(Packets[sent + 1])
  /\ sent' = sent + 1
  /\ UNCHANGED <<pc, memory, on_ac, todo, inFlight, known, spent,
                 file, supply, sigterm, unread, saveFailed>>

\* send_packet returns Err: the packets behind it are not sent and the ones
\* before it stay in effect.
PacketFails ==
  /\ FaultyLink
  /\ inFlight /\ sent < Len(Packets)
  /\ Unacknowledged(Packets[sent + 1])
  /\ inFlight' = FALSE /\ sent' = 0 /\ todo' = Tail(todo)
  /\ UNCHANGED <<pc, memory, on_ac, known, spent,
                 file, supply, sigterm, unread, saveFailed>>

\* backend.apply returns Ok.  The failsafe updates the fan mode alone.
ApplyOk ==
  /\ inFlight /\ sent = Len(Packets)
  /\ LET o == Head(todo)
     IN  /\ fan_mode' = IF o.op = "fan" THEN o.mode ELSE fan_mode
         /\ profile'  = IF o.op = "profile" THEN o.profile ELSE profile
         /\ IF pc = "failsafe"
              THEN UNCHANGED <<state, dirty>>
              ELSE state' = Persist(state, o) /\ dirty' = TRUE
         /\ known' = known \cup Touched(o, Context)
  /\ inFlight' = FALSE /\ sent' = 0 /\ todo' = Tail(todo)
  /\ UNCHANGED <<pc, experimental, on_ac, ec, late, spent,
                 file, supply, sigterm, unread, saveFailed>>

Apply == Refuse \/ BeginApply \/ SendPacket \/ PacketFails \/ ApplyOk

-----------------------------------------------------------------------------
(* Start-up: run_with up to the loop *)

BhoOps(health) ==
  CASE health.health = "unset" -> None
    [] health.health = "off"   -> Some(BhoOffOp)
    [] health.health = "limit" -> Some(BhoLimitOp(health.limit))

\* Profile first, so that the fan packets re-assert the right mode byte.
reapply_persisted(s) ==
  OpSeq({ProfileOp(p) : p \in s.profile})
    \o OpSeq({FanOp(m) : m \in s.fan})
    \o OpSeq(BhoOps(s.battery_health))
    \o OpSeq({KbdOp(b) : b \in s.kbd_brightness})
    \o OpSeq({EffectOp(e) : e \in s.kbd_effect})
    \o OpSeq({LogoOp(l) : l \in s.logo})

\* Daemon::new, then the state file or the factory settings.  The EC is not told:
\* a packet of a process that died may still be executed.
Start ==
  /\ ~Running
  /\ experimental' \in ExperimentalModes
  /\ fan_mode' = FanAuto /\ profile' = Balanced /\ dirty' = FALSE
  /\ \E read \in BOOLEAN : CanRead(read) /\ state' \in Loaded(read) /\ unread' = ~read
  /\ todo' = reapply_persisted(state')
  /\ pc' = "reapply"
  /\ on_ac' = None /\ sigterm' = FALSE /\ spent' = FALSE
  /\ inFlight' = FALSE /\ sent' = 0
  /\ known' = {} /\ saveFailed' = FALSE
  /\ UNCHANGED <<ec, late, file, supply>>

\* telemetry::on_ac(): None when no supply can be read.
Readings == IF FlakySupply THEN {Some(supply), None} ELSE {Some(supply)}

\* The dirty flag the reapplied operations set is dropped.
Reapplied ==
  /\ pc = "reapply" /\ todo = <<>>
  /\ pc' = "loop"
  /\ dirty' = FALSE
  /\ on_ac' \in Readings
  /\ UNCHANGED <<experimental, fan_mode, profile, state, todo, backend,
                 spent, file, supply, sigterm, unread, saveFailed>>

-----------------------------------------------------------------------------
(* One turn of the loop: accept and serve, poll the power source, save *)

BeginTurn(next) ==
  /\ pc = "loop" /\ ~sigterm
  /\ pc' = next
  /\ UNCHANGED <<memory, on_ac, todo, backend, spent,
                 file, supply, sigterm, unread, saveFailed>>

Accept     == BeginTurn("serve")
WouldBlock == BeginTurn("poll")

\* A plausible slip: a connection is served to its end, signal or not.
HandleLineToTheEnd(r) ==
  /\ pc = "serve" /\ todo = <<>>
  /\ ~spent /\ spent' = SingleRequestClients
  /\ UNCHANGED <<pc, experimental, fan_mode, profile, on_ac, backend,
                 file, supply, sigterm, unread, saveFailed>>

\* A line is read and spent; one that arrives after the signal is not.
HandleLine(r) ==
  /\ pc = "serve" /\ todo = <<>> /\ ~sigterm
  /\ ~spent /\ spent' = SingleRequestClients
  /\ UNCHANGED <<pc, experimental, fan_mode, profile, on_ac, backend,
                 file, supply, sigterm, unread, saveFailed>>

Query(r) ==
  /\ r.req = "query" /\ HandleLine(r)
  /\ UNCHANGED <<state, dirty, todo>>

Operate(r) ==
  /\ r.req = "operation" /\ HandleLine(r)
  /\ todo' = <<r.operation>>
  /\ UNCHANGED <<state, dirty>>

\* A manual rule is checked against the policy when it is configured.
SetFanRule(r) ==
  /\ r.req = "automation" /\ HandleLine(r)
  /\ IF \A m \in r.fan : validate_operation(FanOp(m), experimental)
       THEN /\ state' = IF r.source = "ac" THEN [state EXCEPT !.fan_on_ac = r.fan]
                                   ELSE [state EXCEPT !.fan_on_battery = r.fan]
            /\ dirty' = TRUE
       ELSE UNCHANGED <<state, dirty>>
  /\ UNCHANGED todo

SetKbdRule(r) ==
  /\ r.req = "kbd-automation" /\ HandleLine(r)
  /\ IF \A b \in r.brightness : validate_operation(KbdOp(b), experimental)
       THEN /\ state' = IF r.source = "ac"
                          THEN [state EXCEPT !.kbd_on_ac = r.brightness]
                          ELSE [state EXCEPT !.kbd_on_battery = r.brightness]
            /\ dirty' = TRUE
       ELSE UNCHANGED <<state, dirty>>
  /\ UNCHANGED todo

\* A plausible slip: `continue` after a served connection.
EndConnectionContinue ==
  /\ pc = "serve" /\ todo = <<>>
  /\ pc' = "loop" /\ spent' = FALSE
  /\ UNCHANGED <<memory, on_ac, todo, backend,
                 file, supply, sigterm, unread, saveFailed>>

\* End of file, the read timeout, a line dropped after the signal, or an
\* error on the socket, which may come after a request took effect.
EndConnection ==
  /\ pc = "serve" /\ todo = <<>>
  /\ pc' = "poll" /\ spent' = FALSE
  /\ UNCHANGED <<memory, on_ac, todo, backend,
                 file, supply, sigterm, unread, saveFailed>>

FanRule(source) == IF source = "ac" THEN state.fan_on_ac ELSE state.fan_on_battery
KbdRule(source) == IF source = "ac" THEN state.kbd_on_ac ELSE state.kbd_on_battery

\* A rule is applied when it differs from what the daemon believes is set.
on_power_change(source) ==
  OpSeq({FanOp(m) : m \in FanRule(source) \ {fan_mode}})
    \o OpSeq({KbdOp(b) : b \in KbdRule(source) \ state.kbd_brightness})

\* A plausible slip: the first reading after an unreadable one is no change.
AutomationBetweenReadings(current) ==
  IF current = None \/ on_ac \in {None, current} THEN <<>>
  ELSE on_power_change(CHOOSE source \in current : TRUE)

\* The rules to apply for a reading of the power source.
Automation(current) ==
  IF current = None \/ on_ac = current THEN <<>>
  ELSE on_power_change(CHOOSE source \in current : TRUE)

\* Five seconds have passed since the last poll.
PollPower ==
  /\ pc = "poll"
  /\ \E current \in Readings :
       /\ todo' = Automation(current)
       /\ on_ac' = current
  /\ pc' = "automate"
  /\ UNCHANGED <<memory, backend, spent, file, supply, sigterm, unread, saveFailed>>

SkipPoll ==
  /\ pc = "poll"
  /\ pc' = "save"
  /\ UNCHANGED <<memory, on_ac, todo, backend, spent,
                 file, supply, sigterm, unread, saveFailed>>

Automated ==
  /\ pc = "automate" /\ todo = <<>>
  /\ pc' = "save"
  /\ UNCHANGED <<memory, on_ac, todo, backend, spent,
                 file, supply, sigterm, unread, saveFailed>>

\* take_dirty clears the flag before the write; fs::write truncates first.
Save ==
  /\ pc = "save"
  /\ dirty' = FALSE
  /\ \/ /\ ~dirty
        /\ pc' = "loop" /\ UNCHANGED <<file, saveFailed>>
     \/ /\ dirty
        /\ pc' = "write" /\ file' = Some(DefaultState) /\ UNCHANGED saveFailed
     \/ /\ dirty /\ SaveFails
        /\ pc' = "loop" /\ saveFailed' = TRUE /\ UNCHANGED file
  /\ UNCHANGED <<experimental, fan_mode, profile, state, on_ac, todo, backend,
                 spent, supply, sigterm, unread>>

WriteFile ==
  /\ pc = "write"
  /\ pc' = "loop"
  /\ \/ file' = Some(state) /\ saveFailed' = FALSE /\ unread' = FALSE
     \/ SaveFails /\ saveFailed' = TRUE /\ UNCHANGED <<file, unread>>
  /\ UNCHANGED <<memory, on_ac, todo, backend, spent,
                 supply, sigterm>>

-----------------------------------------------------------------------------
(* The end: Daemon::shutdown *)

\* A plausible slip: the fan left as it is.
no_failsafe  == <<>>

failsafe_ops == IF fan_mode.fan = "manual" THEN <<FanOp(FanAuto)>> ELSE <<>>

Shutdown ==
  /\ pc = "loop"
  /\ sigterm \/ AcceptFails
  /\ pc' = "failsafe"
  /\ todo' = failsafe_ops
  /\ UNCHANGED <<memory, on_ac, backend, spent,
                 file, supply, sigterm, unread, saveFailed>>

Stop ==
  /\ pc = "failsafe" /\ todo = <<>>
  /\ pc' = "stopped"
  /\ UNCHANGED <<memory, on_ac, todo, backend, spent,
                 file, supply, sigterm, unread, saveFailed>>

-----------------------------------------------------------------------------
(* The environment *)

Signal ==
  /\ Running /\ ~sigterm /\ sigterm' = TRUE
  /\ UNCHANGED <<pc, memory, on_ac, todo, backend, spent,
                 file, supply, unread, saveFailed>>

\* SIGKILL, an abort or a panic: no handler runs, and the packet on its way is
\* not waited for.
Crash ==
  /\ Crashes /\ Running
  /\ pc' = "crashed"
  /\ IF inFlight /\ sent < Len(Packets)
       THEN Unacknowledged(Packets[sent + 1])
       ELSE UNCHANGED <<ec, late>>
  /\ todo' = <<>> /\ inFlight' = FALSE /\ sent' = 0 /\ known' = {}
  /\ spent' = FALSE
  /\ UNCHANGED <<memory, on_ac,
                 file, supply, sigterm, unread, saveFailed>>

\* The EC gets round to a packet it has been sent.
LateWrite ==
  /\ \E p \in late : ec' = EcAfter(ec, p)
  /\ late' = None
  /\ UNCHANGED <<pc, memory, on_ac, todo, inFlight, sent, known, spent,
                 file, supply, sigterm, unread, saveFailed>>

Replug ==
  /\ supply' \in Supplies \ {supply}
  /\ UNCHANGED <<pc, memory, on_ac, todo, backend, spent,
                 file, sigterm, unread, saveFailed>>

-----------------------------------------------------------------------------
Serve == \E r \in Requests : Query(r) \/ Operate(r) \/ SetFanRule(r) \/ SetKbdRule(r)

\* What the thread waits for while it has a connection open: a whole line, a
\* reader for the reply, nvidia-smi for a telemetry query, or the end.
ClientStep == Serve \/ EndConnection

\* What it does by itself: every call in it returns.
OwnStep ==
  \/ Apply
  \/ Reapplied
  \/ Accept \/ WouldBlock
  \/ PollPower \/ SkipPoll \/ Automated \/ Save \/ WriteFile
  \/ Shutdown \/ Stop

DaemonStep == ClientStep \/ OwnStep

Next == DaemonStep \/ Start \/ Signal \/ Crash \/ LateWrite \/ Replug

Spec == Init /\ [][Next]_vars

\* The thread takes its own steps, five seconds pass again and again, and a power
\* source that is read again and again can be read one day.  Nothing is assumed
\* of a client: only reading has a timeout, and each byte starts it anew.
LiveSpec == Spec /\ WF_vars(OwnStep) /\ SF_vars(PollPower /\ on_ac' # None)

\* With clients like send(), which end their line and read the reply.
PoliteSpec == LiveSpec /\ WF_vars(ClientStep)
-----------------------------------------------------------------------------
(* Safety *)

FanBelief ==
  \A z \in Zones :
    /\ Power(z) \in known =>
         ec[Power(z)] = [mode |-> mode_wire_value(profile), fan |-> fan_mode.fan]
    /\ Rpm(z) \in known /\ fan_mode.fan = "manual" => ec[Rpm(z)] = fan_mode.rpm \div 100
    /\ Boost(z) \in known => \A b \in boosts(profile) : ec[Boost(z)] = b[z]

BhoBelief ==
  Bho \in known =>
    LET b == state.battery_health
    IN  \/ b.health = "off" /\ ec[Bho].limiter = "off"
        \/ b.health = "limit" /\ ec[Bho] = [limiter |-> "on", threshold |-> b.limit]

LightBelief ==
  /\ Brightness \in known =>
       \E p \in state.kbd_brightness : ec[Brightness] = (p * 255) \div 100
  /\ Matrix \in known => ec[Matrix] \in state.kbd_effect
  /\ LogoState \in known =>
       \E l \in state.logo :
         /\ ec[LogoState] = IF l = "off" THEN "off" ELSE "on"
         /\ l # "off" /\ LogoEffect \in known => ec[LogoEffect] = l

\* What `status` reports of a register a fully acknowledged operation of this
\* process wrote is what the EC holds, whatever was refused, failed or applied
\* by automation since (daemon.rs: apply commits on Ok, nothing on Err).
BeliefMatchesEc == FanBelief /\ BhoBelief /\ LightBelief

\* README.md:60-62, daemon.rs:292: after a clean stop no fan zone is manual.
StoppedMeansAutomatic ==
  pc = "stopped" => \A z \in Zones : ec[Power(z)].fan = "auto"

\* The part of that promise the code keeps on any link: a zone whose power
\* register the daemon knows is automatic once it has stopped.
FailsafeHolds ==
  pc = "stopped" => \A z \in Zones : Power(z) \in known => ec[Power(z)].fan = "auto"

\* daemon_unix.rs:51-54: at the head of a turn, and so when the daemon stops,
\* the file holds the settings, unless the last write of it failed; a start that
\* found no readable file keeps the factory settings in memory until something
\* changes, and then they replace whatever the file held.
FileInSync ==
  pc \in {"loop", "failsafe", "stopped"} =>
    \/ saveFailed
    \/ file = Some(state)
    \/ unread /\ state = Factory

\* The values the policy lets through to a register, for whoever may write it.
WithinPolicy(r, v) ==
  /\ r[1] = "rpm" => v \in (MinRpm \div 100)..(MaxRpm \div 100)
  /\ r = Bho => SupportsBho /\ 50 <= v.threshold /\ v.threshold <= 80
  /\ r = Boost("gpu") => v # "boost"
  /\ r = Boost("cpu") /\ v = "boost" => SupportsBoost
  /\ r \in {LogoState, LogoEffect} => SupportsLogo

\* The registers only --experimental opens.
OptedIn(r) == r[1] \notin {"power", "rpm", "bho"} => experimental

-----------------------------------------------------------------------------
(* The parts of the inductive invariant the safety properties rest on *)

\* While an operation runs it is one the policy allows (or the failsafe), the
\* acknowledged packets are in the EC, and its registers are not relied on.
ApplyInv ==
  inFlight =>
    /\ todo # <<>>
    /\ IF pc = "failsafe" THEN Head(todo) = FanOp(FanAuto)
                          ELSE validate_operation(Head(todo), experimental)
    /\ sent <= Len(Packets)
    /\ \A i \in 1..sent : ec[Packets[i].reg] = Packets[i].val
    /\ known \cap Touched(Head(todo), Context) = {}

\* The failsafe has one operation, and once it is through the fan is
\* automatic or the operation failed and its registers are unknown.
FailsafeInv ==
  /\ pc = "failsafe" => todo \in {<<>>, <<FanOp(FanAuto)>>}
  /\ pc = "stopped" \/ (pc = "failsafe" /\ todo = <<>>) =>
       fan_mode = FanAuto \/ \A z \in Zones : Power(z) \notin known

\* Between the sections that apply operations nothing is left to apply.
QuietInv ==
  pc \in {"loop", "poll", "save", "write", "stopped", "crashed"} => todo = <<>>

\* A packet still to be executed is one the policy allowed, of a register the
\* daemon does not rely on; the next packet sent takes its place, so the EC is
\* still as the packet left it, both zones manual if it is a fan target.
LateInv ==
  \A p \in late :
    /\ p.reg \notin known
    /\ inFlight => sent = 0
    /\ WithinPolicy(p.reg, p.val)
    /\ \A z \in Zones : p.reg = Rpm(z) => \A y \in Zones : ec[Power(y)].fan = "manual"

IInv == TypeOK /\ ApplyInv /\ QuietInv /\ LateInv /\ FailsafeInv /\ BeliefMatchesEc

-----------------------------------------------------------------------------
(* What a step may never do *)

\* The daemon and its backend keep the rules of the link: an operation is sent
\* packet by packet as one job, and the first packet that fails ends it.
Link == INSTANCE EcLink WITH job  <- IF inFlight THEN Packets ELSE <<>>,
                             sent <- IF inFlight THEN sent ELSE 0
UsesLink == Link!Spec

\* lib.rs:224, config.rs:107: no value outside the policy reaches the EC, whether
\* a client, a rule or a hand-edited state file asked for it, and what needs
\* --experimental is sent only by a process that was given it; the EC may execute
\* a packet later, when another process runs without it.
WritesWithinPolicy ==
  [][/\ \A r \in Registers :
          ec'[r] # ec[r] =>
            /\ WithinPolicy(r, ec'[r])
            /\ OptedIn(r) \/ \E p \in late : p.reg = r /\ p.val = ec'[r]
     /\ \A p \in late' \ late : OptedIn(p.reg)]_vars

\* protocol.rs:464-466: a fan target is written only when the EC has both
\* zones in manual mode, also when a packet of the operation fails.
TargetOnlyWhenManual ==
  [][\A z \in Zones : ec'[Rpm(z)] # ec[Rpm(z)] =>
       \A y \in Zones : ec[Power(y)].fan = "manual"]_vars

\* lib.rs:146-149, protocol.rs:462-464: a fan operation, the failsafe among
\* them, leaves the performance mode alone, and a profile the manual flag.
NeitherResetsTheOther ==
  [][inFlight =>
       \A z \in Zones :
         /\ Head(todo).op = "fan" => ec'[Power(z)].mode = ec[Power(z)].mode
         /\ Head(todo).op = "profile" => ec'[Power(z)].fan = ec[Power(z)].fan]_vars

-----------------------------------------------------------------------------
(* Liveness *)

\* systemd/razer-control.service: a signalled daemon stops, also when a client
\* never stops sending lines, for it drops the ones that arrive after the signal;
\* unless one client holds it for ever, with a line it does not end or a reply it
\* does not read.
SignalStops == sigterm ~> (~Running \/ [](pc = "serve" /\ todo = <<>>))

\* daemon.rs:245, ipc.rs:13: the fan rule of a new power source takes effect, also
\* when the source could not be read for some polls in between.
AutomationFollows ==
  \A source \in Sources, m \in {r.mode : r \in {x.operation : x \in
        {y \in Requests : y.req = "operation" /\ y.operation.op = "fan"}}} :
    (/\ Running /\ pc # "reapply" /\ supply = source /\ on_ac # Some(source)
     /\ FanRule(source) = Some(m))
      ~> (fan_mode = m \/ supply # source \/ FanRule(source) # Some(m)
            \/ sigterm \/ ~Running)

\* daemon_unix.rs:51-52: the file is brought in sync after every mutation the
\* loop accepts (reapplying a file or the factory settings changes nothing).
SettingsReachFile ==
  (dirty /\ pc # "reapply") ~> (file = Some(state) \/ ~Running)
=============================================================================
