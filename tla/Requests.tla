------------------------------ MODULE Requests ------------------------------
(***************************************************************************)
(* The request protocol of src/src/ipc.rs: what a line means, and how      *)
(* settings are written.  A line is the sequence of its words; a written   *)
(* setting is the sequence of its parts ("manual:3500" is two).  A parser  *)
(* answers an Option: {} for what it does not accept.                      *)
(***************************************************************************)
EXTENDS RazerPolicy, Sequences, SequencesExt

CONSTANTS
  Numerals,   (* what str::parse reads as a number: texts to numbers       *)
  Hexes       (* what three from_str_radix calls read as a colour: texts of
                 six characters to their colours, see {:02x}               *)

Decimal(n) == ToString(n)

\* The words of the protocol, and what is left of one that was cut off.
Words ==
  {"auto", "manual", "silent", "balanced", "gaming", "custom", "off", "wave", "spectrum",
   "static", "breathing", "", "cut"} \cup BoostLevels

\* The numbers of the factory's settings can be written, as can any that was read.
\* A colour is written in one way, whatever the case it was given in.
ASSUME TextAssumption ==
  /\ DOMAIN Numerals \cap Words = {}
  /\ \A t \in DOMAIN Numerals :
       Numerals[t] \in Nat /\ (Numerals[t] \in U16 => Decimal(Numerals[t]) \in DOMAIN Numerals)
  /\ \A n \in {20, 40, 80} : Decimal(n) \in DOMAIN Numerals
  /\ \A t \in DOMAIN Hexes :
       Hexes[t] \in Colors \cap DOMAIN Hexes /\ Hexes[Hexes[t]] = Hexes[t]

\* A number written out is no word, and is read as itself, if at all.
u16_MAX == 65535
ASSUME NumeralAssumption ==
  \A n \in 0..u16_MAX :
    Decimal(n) \notin Words /\ (Decimal(n) \in DOMAIN Numerals => Numerals[Decimal(n)] = n)

\* A plausible slip: a wider number cut to the field's width.
parse_int_cut(text, width) ==
  {Numerals[t] % 256 : t \in {text} \cap DOMAIN Numerals}

parse_int(text, width) ==
  {n \in {Numerals[t] : t \in {text} \cap DOMAIN Numerals} : n \in width}

parse_rgb(text)         == {Hexes[t] : t \in {text} \cap DOMAIN Hexes}
parse_boost_level(text) == {text} \cap BoostLevels
parse_logo(parts)       == {l \in LogoModes : parts = <<l>>}

-----------------------------------------------------------------------------
(* Settings as text: status, the state file, the GUI *)

describe_fan_mode(m) ==
  IF m = FanAuto THEN <<"auto">> ELSE <<"manual", Decimal(m.rpm)>>

describe_effect(e) == IF e.name = "static" THEN <<"static", e.rgb>> ELSE <<e.name>>

parse_effect(parts) ==
  {[name |-> n] : n \in {x \in {"off", "spectrum", "wave"} : parts = <<x>>}}
    \cup IF Len(parts) = 2 /\ parts[1] = "static"
           THEN {[name |-> "static", rgb |-> c] : c \in parse_rgb(parts[2])} ELSE None

describe_profile(p) == IF p.name = "custom" THEN <<"custom", p.cpu, p.gpu>> ELSE <<p.name>>

parse_custom(cpu, gpu) ==
  {Custom(c, g) : c \in parse_boost_level(cpu), g \in parse_boost_level(gpu)}

parse_profile(parts) ==
  {p \in {Silent, Balanced, Gaming} : parts = <<p.name>>}
    \cup IF Len(parts) = 3 /\ parts[1] = "custom"
           THEN parse_custom(parts[2], parts[3]) ELSE None

-----------------------------------------------------------------------------
(* Requests *)

Sources == {"ac", "battery"}
Query(of)                  == [req |-> "query", of |-> of]
AutomationReq(source, fan) == [req |-> "automation", source |-> source, fan |-> fan]
KbdAutomationReq(source, b) ==
  [req |-> "kbd-automation", source |-> source, brightness |-> b]
OperationReq(o)            == [req |-> "operation", operation |-> o]

\* The words of a line after those of a pattern, when n of them are left.
Rest(line, pattern, n) ==
  IF IsPrefix(pattern, line) /\ Len(line) = Len(pattern) + n
    THEN {SubSeq(line, Len(pattern) + 1, Len(line))} ELSE {}

Manual(words) == {FanManual(n) : n \in parse_int(words[1], U16)}

\* A pattern that does not match adds nothing.
parse_operation(line) ==
  UNION ({{FanOp(FanAuto)} : w \in Rest(line, <<"fan", "auto">>, 0)}
    \cup {{FanOp(m) : m \in Manual(w)} : w \in Rest(line, <<"fan", "manual">>, 1)}
    \cup {IF w = <<"off">> THEN {BhoOffOp} ELSE {BhoLimitOp(n) : n \in parse_int(w[1], U8)}
            : w \in Rest(line, <<"bho">>, 1)}
    \cup {{ProfileOp(p) : p \in {Silent, Balanced, Gaming} \cap parse_profile(w)}
            : w \in Rest(line, <<"profile">>, 1)}
    \cup {{ProfileOp(p) : p \in parse_custom(w[1], w[3])}
            : w \in {x \in Rest(line, <<"profile", "custom", "cpu">>, 3) : x[2] = "gpu"}}
    \cup {{KbdOp(n) : n \in parse_int(w[1], U8)} : w \in Rest(line, <<"kbd", "brightness">>, 1)}
    \cup {{EffectOp(e) : e \in parse_effect(w)}
            : w \in Rest(line, <<"kbd", "effect">>, 1) \cup Rest(line, <<"kbd", "effect">>, 2)}
    \cup {{LogoOp(l) : l \in parse_logo(w)} : w \in Rest(line, <<"logo">>, 1)})

parse_automation(source, line) ==
  UNION ({{AutomationReq(source, None)} : w \in Rest(line, <<"automation", source, "off">>, 0)}
    \cup {{AutomationReq(source, Some(FanAuto))}
            : w \in Rest(line, <<"automation", source, "fan", "auto">>, 0)}
    \cup {{AutomationReq(source, Some(m)) : m \in Manual(w)}
            : w \in Rest(line, <<"automation", source, "fan", "manual">>, 1)}
    \cup {IF w = <<"off">> THEN {KbdAutomationReq(source, None)}
          ELSE {KbdAutomationReq(source, Some(n)) : n \in parse_int(w[1], U8)}
            : w \in Rest(line, <<"kbd-automation", source>>, 1)})

parse_request(line) ==
  {Query(q) : q \in {x \in {"ping", "status", "telemetry", "sysinfo"} : line = <<x>>}}
    \cup {OperationReq(o) : o \in parse_operation(line)}
    \cup UNION {parse_automation(s, line) : s \in Sources}
=============================================================================
