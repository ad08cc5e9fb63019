--------------------------- MODULE ClientSession ---------------------------
(***************************************************************************)
(* What a user says and reads, end to end: the command line the daemon is  *)
(* started with (src/src/main.rs, backend.rs), request lines through the   *)
(* parser, the policy and the daemon core, the status reply as the GUI     *)
(* reads it, and the settings through the text of the state file to the    *)
(* next start, with the write of that file interrupted anywhere.           *)
(*                                                                         *)
(* One step is one request line, one save or one start; what happens       *)
(* inside them, packet by packet, is RazerDaemon's subject.                *)
(***************************************************************************)
EXTENDS StateFile

CONSTANTS
  CommandLines,  (* the arguments after `daemon'                           *)
  Enumerations,  (* the HID interfaces a start may find                    *)
  Laptop,        (* the vendor and product id of the supported laptop      *)
  HidrawBuild,   (* the hidraw-backend feature is compiled in              *)
  FirstFiles,    (* the state file before the first start                  *)
  Lines,         (* the request lines clients send                         *)
  MaxChanges     (* bound: accepted changes in a behaviour                 *)

ASSUME SessionAssumption ==
  /\ MaxChanges \in Nat
  /\ \A file \in FirstFiles : \A x, y \in file : x = y /\ DOMAIN x = 1..Len(x) /\ Len(x) \in Nat

VARIABLES
  up, backend, experimental, node,       (* the daemon as it was started   *)
  fan_mode, profile, state, dirty,       (* Daemon                         *)
  file,                                  (* the state file's lines         *)
  (* history *)
  saved,    (* the settings last written, or being written, to the file    *)
  synced,   (* the file was read, or saved whole, and no save failed since *)
  asked,    (* the line a daemon accepted in the last step                 *)
  changes   (* accepted changes so far                                     *)

daemon == <<up, backend, experimental, node>>
vars == <<daemon, fan_mode, profile, state, dirty, file, saved, synced, asked, changes>>

TypeOK ==
  /\ up \in BOOLEAN /\ experimental \in BOOLEAN
  /\ backend \in {"dry-run", "hidraw"}
  /\ \A c \in node : backend = "hidraw" /\ c.id = Laptop
  /\ fan_mode \in FanModes /\ profile \in Profiles
  /\ state \in PersistedStates /\ saved \in PersistedStates
  /\ dirty \in BOOLEAN /\ synced \in BOOLEAN
  /\ changes \in 0..MaxChanges

-----------------------------------------------------------------------------
(* Starting the daemon *)

Indices(S) == {i \in S : \A j \in S : i <= j}

\* `--backend <name>', the dry run by default: {} when the start is refused.
parse_backend_flag(rest) ==
  LET flags == {i \in DOMAIN rest : rest[i] = "--backend"}
  IN  IF flags = {} THEN {"dry-run"}
      ELSE UNION {{"dry-run", "hidraw"} \cap {rest[j] : j \in {i + 1} \cap DOMAIN rest}
                    : i \in Indices(flags)}

\* A plausible slip: whatever sits on interface 0.
select_any_candidate(candidates) ==
  {candidates[i] : i \in Indices({j \in DOMAIN candidates : candidates[j].interface = 0})}

\* The laptop's interface 0, or else its first vendor-defined usage page.
select_hid_candidate(candidates) ==
  LET ours    == {i \in DOMAIN candidates : candidates[i].id = Laptop}
      control == Indices({i \in ours : candidates[i].interface = 0})
      vendor  == Indices({i \in ours : candidates[i].usage_page >= 65280})
  IN  {candidates[i] : i \in IF control # {} THEN control ELSE vendor}

\* HidrawBackend::open, or the dry run, which opens nothing.
Open(name, candidates) ==
  \/ name = "dry-run" /\ node' = None
  \/ /\ name = "hidraw" /\ HidrawBuild
     /\ node' = select_hid_candidate(candidates) /\ node' # None

\* The answers of apply: a packet may fail on the hardware.
Outcomes(o) ==
  IF ~validate_operation(o, experimental') THEN {FALSE}
  ELSE IF backend' = "hidraw" THEN BOOLEAN ELSE {TRUE}

\* What a start that can read the file starts with.
Loaded == IF file = None THEN Factory ELSE parse(CHOOSE f \in file : TRUE)

\* load_state_file, or the factory settings: when there is no file, and also when
\* the one there is cannot be read or is not UTF-8.
Load ==
  \/ state' = Loaded /\ synced' = TRUE
  \/ file # None /\ state' = Factory /\ synced' = FALSE

\* Reapplying sets again what the file already says; of the daemon's own memory
\* it reaches the fan mode and the profile.
Start ==
  /\ ~up /\ up' = TRUE
  /\ \E rest \in CommandLines, candidates \in Enumerations :
       /\ backend' \in parse_backend_flag(rest)
       /\ experimental' = (\E i \in DOMAIN rest : rest[i] = "--experimental")
       /\ Open(backend', candidates)
  /\ Load
  /\ \/ fan_mode' = FanAuto
          /\ \A m \in state'.fan : FALSE \in Outcomes(FanOp(m))
     \/ \E m \in state'.fan : TRUE \in Outcomes(FanOp(m)) /\ fan_mode' = m
  /\ \/ profile' = Balanced
          /\ \A p \in state'.profile : FALSE \in Outcomes(ProfileOp(p))
     \/ \E p \in state'.profile : TRUE \in Outcomes(ProfileOp(p)) /\ profile' = p
  /\ dirty' = FALSE /\ asked' = None
  /\ UNCHANGED <<file, saved, changes>>

Init ==
  /\ up = FALSE /\ backend = "dry-run" /\ experimental = FALSE /\ node = None
  /\ fan_mode = FanAuto /\ profile = Balanced /\ state = DefaultState /\ dirty = FALSE
  /\ file \in FirstFiles
  /\ saved = IF file = None THEN DefaultState ELSE parse(CHOOSE f \in file : TRUE)
  /\ synced = TRUE /\ asked = None /\ changes = 0

-----------------------------------------------------------------------------
(* The status reply, and what the GUI makes of it *)

Rule(values) == IF values = {} THEN <<"off">> ELSE CHOOSE v \in values : TRUE
Setting(values) == IF values = {} THEN <<"unset">> ELSE CHOOSE v \in values : TRUE

status ==
  << <<"ok">>, <<"device", <<Laptop>> >>, <<"backend", <<backend>> >>,
     <<"fan", describe_fan_mode(fan_mode)>>,
     <<"profile", describe_profile(profile)>>,
     <<"bho", Setting(describe_bho(state.battery_health))>>,
     <<"automation_ac", Rule(Fans(state.fan_on_ac))>>,
     <<"automation_battery", Rule(Fans(state.fan_on_battery))>>,
     <<"kbd", Setting(Percents(state.kbd_brightness))>>,
     <<"kbd_effect", Setting({describe_effect(e) : e \in state.kbd_effect})>>,
     <<"logo", Setting({<<l>> : l \in state.logo})>>,
     <<"kbd_ac", Rule(Percents(state.kbd_on_ac))>>,
     <<"kbd_battery", Rule(Percents(state.kbd_on_battery))>>,
     <<"experimental", <<experimental>> >> >>

\* parse_fields: the tokens with a "=", as a map.
parse_fields(reply) ==
  FoldLeft(LAMBDA map, token : IF Len(token) = 2 THEN token[1] :> token[2] @@ map ELSE map,
           <<>>, reply)

Shown == parse_fields(status)

-----------------------------------------------------------------------------
(* Request lines: Daemon::handle_line *)

\* The answer changes nothing.
Answer(accepted) ==
  /\ up /\ asked' = accepted
  /\ UNCHANGED <<daemon, fan_mode, profile, state, dirty, file, saved, synced, changes>>

Change(line) ==
  /\ up /\ asked' = Some(line) /\ dirty' = TRUE
  /\ changes < MaxChanges /\ changes' = changes + 1
  /\ UNCHANGED <<daemon, file, saved, synced>>

Malformed(line) == parse_request(line) = {} /\ Answer(None)

Ask(line) == (\E r \in parse_request(line) : r.req = "query") /\ Answer(Some(line))

WithRule(s, r) ==
  CASE r.req = "automation" /\ r.source = "ac"      -> [s EXCEPT !.fan_on_ac = r.fan]
    [] r.req = "automation" /\ r.source = "battery" -> [s EXCEPT !.fan_on_battery = r.fan]
    [] r.req = "kbd-automation" /\ r.source = "ac"  -> [s EXCEPT !.kbd_on_ac = r.brightness]
    [] OTHER                                        -> [s EXCEPT !.kbd_on_battery = r.brightness]

\* A rule other than `off' and `fan auto' is checked when it is configured.
Checked(r) ==
  IF r.req = "automation" THEN {FanOp(m) : m \in r.fan \ {FanAuto}}
                          ELSE {KbdOp(b) : b \in r.brightness}

Configure(line) ==
  \E r \in parse_request(line) :
    /\ r.req \in {"automation", "kbd-automation"}
    /\ IF \A o \in Checked(r) : validate_operation(o, experimental)
         THEN Change(line) /\ state' = WithRule(state, r) /\ UNCHANGED <<fan_mode, profile>>
         ELSE Answer(None)

\* The policy refuses, the hardware fails, or the operation is applied.
Operate(line) ==
  \E r \in parse_request(line) :
    /\ r.req = "operation"
    /\ LET o == r.operation
       IN  \/ ~validate_operation(o, experimental) /\ Answer(None)
           \/ validate_operation(o, experimental) /\ backend = "hidraw" /\ Answer(None)
           \/ /\ validate_operation(o, experimental) /\ Change(line)
              /\ state' = Persist(state, o)
              /\ fan_mode' = IF o.op = "fan" THEN o.mode ELSE fan_mode
              /\ profile' = IF o.op = "profile" THEN o.profile ELSE profile

-----------------------------------------------------------------------------
(* Saving and stopping *)

Save ==
  /\ up /\ dirty /\ dirty' = FALSE
  /\ file' = Some(render(state)) /\ saved' = state /\ synced' = TRUE /\ asked' = None
  /\ UNCHANGED <<daemon, fan_mode, profile, state, changes>>

\* What is left of a number, and of a word, that was not written to its end.
Shortened(n) == {n \div d : d \in {10, 100, 1000, 10000}}
CutWord(w) ==
  IF w \in DOMAIN Numerals THEN {""} \cup {Decimal(n) : n \in Shortened(Numerals[w]) \ {0}}
                           ELSE {"cut"}
CutValue(v) ==
  {SubSeq(v, 1, n) : n \in 1..(Len(v) - 1)}
    \cup UNION {{Append(SubSeq(v, 1, n - 1), c) : c \in CutWord(v[n])} : n \in DOMAIN v}

\* A colour has six characters.
ASSUME ColorAssumption == \A t \in DOMAIN Hexes : CutWord(t) \cap DOMAIN Hexes = {}

Cut(line) == {<<line[1]>>} \cup {<<line[1], v>> : v \in CutValue(line[2])}
Torn(lines) ==
  UNION {{SubSeq(lines, 1, n - 1)} \cup {Append(SubSeq(lines, 1, n - 1), c) : c \in Cut(lines[n])}
           : n \in DOMAIN lines}

\* The file cannot be opened, or fs::write, which truncates it first, fails on
\* the way: the error is printed and the settings are not written again.
SaveFails ==
  /\ up /\ dirty /\ dirty' = FALSE /\ synced' = FALSE /\ asked' = None
  /\ \/ UNCHANGED <<file, saved>>
     \/ file' \in {Some(t) : t \in Torn(render(state))} /\ saved' = state
  /\ UNCHANGED <<daemon, fan_mode, profile, state, changes>>

\* The process ends: its memory is gone, the state file stays.
End ==
  /\ up' = FALSE /\ backend' = "dry-run" /\ experimental' = FALSE /\ node' = None
  /\ fan_mode' = FanAuto /\ profile' = Balanced /\ state' = DefaultState
  /\ dirty' = FALSE /\ synced' = TRUE /\ asked' = None
  /\ UNCHANGED changes

\* A signal, or an accept error: what changed has been saved by then.
Stop == up /\ ~dirty /\ End /\ UNCHANGED <<file, saved>>

Crash ==
  /\ up /\ End
  /\ \/ UNCHANGED <<file, saved>>
     \/ dirty /\ file' \in {Some(t) : t \in Torn(render(state))} /\ saved' = state

Next ==
  \/ Start \/ Save \/ SaveFails \/ Stop \/ Crash
  \/ \E line \in Lines : Malformed(line) \/ Ask(line) \/ Configure(line) \/ Operate(line)

Spec == Init /\ [][Next]_vars
-----------------------------------------------------------------------------
(* Correctness *)

\* The lines the README (18-21) and the usage text (main.rs:8-10) offer, with
\* numbers in the ranges they name; the second set needs --experimental.
Within(low, high) == {Decimal(n) : n \in {Numerals[t] : t \in DOMAIN Numerals} \cap low..high}
Fan == {<<"fan", "auto">>} \cup {<<"fan", "manual", t>> : t \in Within(MinRpm, MaxRpm)}
Stable ==
  {<<q>> : q \in {"ping", "status", "telemetry", "sysinfo"}}
    \cup Fan \cup {<<"bho", t>> : t \in {"off"} \cup Within(50, 80)}
    \cup {<<"automation", s>> \o f : s \in Sources, f \in {<<"off">>} \cup Fan}
    \cup {<<"kbd-automation", s, "off">> : s \in Sources}
Experimental ==
  {<<"kbd-automation", s, t>> : s \in Sources, t \in Within(0, 100)}
    \cup {<<"profile", p>> : p \in {"silent", "balanced", "gaming"}}
    \cup {<<"profile", "custom", "cpu", c, "gpu", g>> :
             c \in BoostLevels, g \in BoostLevels \ {"boost"}}
    \cup {<<"kbd", "brightness", t>> : t \in Within(0, 100)}
    \cup {<<"kbd", "effect", e>> : e \in {"off", "wave", "spectrum"}}
    \cup {<<"kbd", "effect", "static", c>> : c \in Colors}
    \cup {<<"logo", l>> : l \in LogoModes}
Documented == IF experimental THEN Stable \cup Experimental ELSE Stable

\* The words of a line with its numbers and colours written the usual way.
Plain(line) ==
  [i \in DOMAIN line |-> IF line[i] \in DOMAIN Numerals THEN Decimal(Numerals[line[i]])
                         ELSE IF line[i] \in DOMAIN Hexes THEN Hexes[line[i]] ELSE line[i]]

\* The status field a documented line is about, and the words it should hold.
Meaning(line) ==
  CASE line[1] \in {"fan", "bho", "logo"} -> line[1] :> Tail(line)
    [] line[1] = "profile" -> "profile" :> IF Len(line) = 2 THEN Tail(line)
                                           ELSE <<"custom", line[4], line[6]>>
    [] line[1] = "kbd" -> IF line[2] = "brightness" THEN "kbd" :> <<line[3]>>
                          ELSE "kbd_effect" :> SubSeq(line, 3, Len(line))
    [] line[1] \in {"automation", "kbd-automation"} ->
         (IF line[1] = "automation" THEN [ac |-> "automation_ac", battery |-> "automation_battery"]
                                    ELSE [ac |-> "kbd_ac", battery |-> "kbd_battery"])[line[2]]
           :> IF line[3] = "fan" THEN SubSeq(line, 4, Len(line)) ELSE <<line[3]>>
    [] OTHER -> <<>>

\* An accepted request is one the documentation offers this daemon, and status
\* then says, word for word, what was asked and nothing else new.  Parsing,
\* policy, persistence, rendering and the GUI's parser together (ipc.rs:28-126,
\* daemon.rs:57-201, client.rs:144-155).
AcceptedIsShown ==
  [][\A line \in asked' : /\ Plain(line) \in Documented
                           /\ Shown' = Meaning(Plain(line)) @@ Shown]_vars

\* The number in a setting: a persisted value in which a digit could be missing.
Amount(key, v) ==
  CASE key \in {"fan", "fan_on_ac", "fan_on_battery"} -> {m.rpm : m \in v}
    [] key \in {"kbd_brightness", "kbd_on_ac", "kbd_on_battery"} -> v
    [] key = "battery_health" -> {h.limit : h \in {v} \ {BhoOff, BhoUnset}}
    [] OTHER -> {}

\* A file that was read, or saved whole, reads back as the settings of the daemon,
\* until a save fails.  After one cut short, by a full disk or a crash, each
\* setting reads back as it was, or as not set, but for the one on the last line,
\* which may have lost digits (config.rs:70-138, daemon_unix.rs:121-141).
FileTellsSettings ==
  /\ up /\ ~dirty /\ synced => Loaded = state
  /\ \A f \in file :
       LET read == parse(f)
           Odd  == {k \in DOMAIN read : read[k] \notin {saved[k], DefaultState[k]}}
       IN  /\ Cardinality(Odd) <= 1
           /\ \A k \in Odd : \E n \in Amount(k, saved[k]) :
                Amount(k, read[k]) \subseteq Shortened(n) /\ Amount(k, read[k]) # {}
=============================================================================
