------------------------------ MODULE StateFile ------------------------------
(***************************************************************************)
(* The text of the state file (src/src/config.rs), as the sequence of its  *)
(* lines: <<key, parts of the value>>, or something else for a line that   *)
(* holds no "=".                                                           *)
(***************************************************************************)
EXTENDS Requests

\* A line for a setting there is.
Line(key, values) == SetToSeq({<<key, v>> : v \in values})

describe_bho(health) ==
  CASE health = BhoUnset          -> {}
    [] health = BhoOff            -> {<<"off">>}
    [] health.health = "limit"    -> {<<Decimal(health.limit)>>}

Fans(option)     == {describe_fan_mode(m) : m \in option}
Percents(option) == {<<Decimal(n)>> : n \in option}

\* A plausible slip: one source's rule under the other's key.
render_swapped(s) ==
  Line("kbd_on_ac", Percents(s.kbd_on_battery)) \o Line("kbd_on_battery", Percents(s.kbd_on_ac))

\* PersistedState::render: what is not set has no line.
render(s) ==
  Line("fan", Fans(s.fan))
    \o Line("bho", describe_bho(s.battery_health))
    \o Line("fan_on_ac", Fans(s.fan_on_ac))
    \o Line("fan_on_battery", Fans(s.fan_on_battery))
    \o Line("profile", {describe_profile(p) : p \in s.profile})
    \o Line("kbd_brightness", Percents(s.kbd_brightness))
    \o Line("kbd_effect", {describe_effect(e) : e \in s.kbd_effect})
    \o Line("logo", {<<l>> : l \in s.logo})
    \o Line("kbd_on_ac", Percents(s.kbd_on_ac))
    \o Line("kbd_on_battery", Percents(s.kbd_on_battery))

parse_fan(v) ==
  IF v = <<"auto">> THEN Some(FanAuto)
  ELSE IF Len(v) = 2 /\ v[1] = "manual" THEN Manual(<<v[2]>>)
  ELSE None

parse_percent(v) == IF Len(v) = 1 THEN parse_int(v[1], U8) ELSE None

\* The value of the last line with a key, which replaces those before it; a
\* line without "=" is passed over, and so is an unknown key.
Value(lines, key) ==
  LET at == {i \in DOMAIN lines : Len(lines[i]) = 2 /\ lines[i][1] = key}
  IN  {lines[i][2] : i \in {j \in at : \A k \in at : k <= j}}

parse_bho(value) ==
  LET limits == UNION {parse_percent(v) : v \in value}
  IN  IF value = {<<"off">>} THEN BhoOff
      ELSE IF limits = {} THEN BhoUnset
      ELSE BhoLimit(CHOOSE n \in limits : TRUE)

\* PersistedState::parse.  A malformed value unsets its key.
parse(lines) ==
  LET Fan(key)     == UNION {parse_fan(v) : v \in Value(lines, key)}
      Percent(key) == UNION {parse_percent(v) : v \in Value(lines, key)}
  IN  [fan            |-> Fan("fan"),
       battery_health |-> parse_bho(Value(lines, "bho")),
       fan_on_ac      |-> Fan("fan_on_ac"),
       fan_on_battery |-> Fan("fan_on_battery"),
       profile        |-> UNION {parse_profile(v) : v \in Value(lines, "profile")},
       kbd_brightness |-> Percent("kbd_brightness"),
       kbd_effect     |-> UNION {parse_effect(v) : v \in Value(lines, "kbd_effect")},
       logo           |-> UNION {parse_logo(v) : v \in Value(lines, "logo")},
       kbd_on_ac      |-> Percent("kbd_on_ac"),
       kbd_on_battery |-> Percent("kbd_on_battery")]
=============================================================================
