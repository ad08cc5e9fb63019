---------------------------- MODULE RazerPolicy ----------------------------
(***************************************************************************)
(* The vocabulary of the daemon (src/src/lib.rs, src/src/config.rs): the   *)
(* device table, the fan, profile and lighting settings, the operations a  *)
(* client may request, the policy every operation passes before a packet   *)
(* is built, and the settings the daemon persists.                         *)
(*                                                                         *)
(* A Rust Option<T> is a set of at most one element: None is {}, Some(x)   *)
(* is {x}, and `if let Some(x) = o && P(x)' is \E x \in o : P(x).          *)
(***************************************************************************)
EXTENDS Integers

CONSTANTS
  MinRpm, MaxRpm,   (* the verified fan range of the device table          *)
  SupportsBho,      (* device has the battery health optimizer             *)
  SupportsBoost,    (* device has CPU boost level 3                        *)
  SupportsLogo,     (* device has the lid logo LED                         *)
  Colors            (* the colours a static keyboard effect may have       *)

U8  == {n \in Nat : n <= 255}
U16 == {n \in Nat : n <= 65535}

\* lib.rs:51-56 promises a range that set_fan_rpm can put on the wire.
ASSUME DeviceAssumption ==
  /\ MinRpm \in U16 /\ MaxRpm \in U16
  /\ 0 < MinRpm /\ MinRpm <= MaxRpm /\ MaxRpm <= 25500
  /\ {SupportsBho, SupportsBoost, SupportsLogo} \subseteq BOOLEAN

None == {}
Some(x) == {x}
Option(S) == {o \in SUBSET S : \A x, y \in o : x = y}

-----------------------------------------------------------------------------
(* Settings *)

Zones == {"cpu", "gpu"}

FanFlags       == {"auto", "manual"}
FanAuto        == [fan |-> "auto", rpm |-> 0]
FanManual(rpm) == [fan |-> "manual", rpm |-> rpm]
FanModes       == {FanAuto} \cup [fan : {"manual"}, rpm : U16]

BoostLevels == {"low", "medium", "high", "boost"}

Silent   == [name |-> "silent"]
Balanced == [name |-> "balanced"]
Gaming   == [name |-> "gaming"]
Custom(cpu, gpu) == [name |-> "custom", cpu |-> cpu, gpu |-> gpu]
Profiles == {Silent, Balanced, Gaming}
              \cup [name : {"custom"}, cpu : BoostLevels, gpu : BoostLevels]

\* The mode byte of EC command 0x0d/0x02: Silent is a preset of Custom.
mode_wire_value(profile) ==
  CASE profile.name = "balanced" -> 0
    [] profile.name = "gaming"   -> 1
    [] OTHER                     -> 4

\* The boost level each zone is pinned to, when the profile pins them.
boosts(profile) ==
  CASE profile.name = "silent" -> Some([z \in Zones |-> "low"])
    [] profile.name = "custom" ->
         Some([z \in Zones |-> IF z = "cpu" THEN profile.cpu ELSE profile.gpu])
    [] OTHER                   -> None

LightingEffects == [name : {"off", "wave", "spectrum"}]
                     \cup [name : {"static"}, rgb : Colors]
LogoModes == {"off", "static", "breathing"}

BhoUnset    == [health |-> "unset"]
BhoOff      == [health |-> "off"]
BhoLimit(n) == [health |-> "limit", limit |-> n]
BatteryHealths == {BhoUnset, BhoOff} \cup [health : {"limit"}, limit : U8]

-----------------------------------------------------------------------------
(* Operations and the policy gate in front of the hardware *)

FanOp(mode)       == [op |-> "fan", mode |-> mode]
BhoLimitOp(limit) == [op |-> "bho_limit", limit |-> limit]
BhoOffOp          == [op |-> "bho_off"]
ProfileOp(p)      == [op |-> "profile", profile |-> p]
KbdOp(percent)    == [op |-> "kbd", percent |-> percent]
EffectOp(e)       == [op |-> "effect", effect |-> e]
LogoOp(mode)      == [op |-> "logo", logo |-> mode]

RequestedOperations ==
  [op : {"fan"}, mode : FanModes]
    \cup [op : {"bho_limit"}, limit : U8]
    \cup {BhoOffOp}
    \cup [op : {"profile"}, profile : Profiles]
    \cup [op : {"kbd"}, percent : U8]
    \cup [op : {"effect"}, effect : LightingEffects]
    \cup [op : {"logo"}, logo : LogoModes]

\* A plausible slip: the range check of the fan arm lost.
validate_without_range(o, experimental) ==
  o.op \in {"fan", "bho_limit", "bho_off"} \/ experimental

\* TRUE where the code returns Ok(()).
validate_operation(o, experimental) ==
  \/ o.op = "fan" /\ (o.mode.fan = "manual" => o.mode.rpm \in MinRpm..MaxRpm)
  \/ o.op = "bho_limit" /\ SupportsBho /\ 50 <= o.limit /\ o.limit <= 80
  \/ o.op = "bho_off" /\ SupportsBho
  \/ o.op = "kbd" /\ experimental /\ o.percent <= 100
  \/ o.op = "effect" /\ experimental
  \/ o.op = "logo" /\ SupportsLogo /\ experimental
  \/ /\ o.op = "profile" /\ experimental
     /\ o.profile.name = "custom" =>
          o.profile.gpu # "boost" /\ (o.profile.cpu = "boost" => SupportsBoost)

-----------------------------------------------------------------------------
(* What the daemon persists *)

PersistedStates ==
  [fan            : Option(FanModes),
   battery_health : BatteryHealths,
   fan_on_ac      : Option(FanModes),
   fan_on_battery : Option(FanModes),
   profile        : Option(Profiles),
   kbd_brightness : Option(U8),
   kbd_effect     : Option(LightingEffects),
   logo           : Option(LogoModes),
   kbd_on_ac      : Option(U8),
   kbd_on_battery : Option(U8)]

\* PersistedState::default(): nothing configured; what an empty file parses to.
DefaultState ==
  [fan |-> None, battery_health |-> BhoUnset, fan_on_ac |-> None,
   fan_on_battery |-> None, profile |-> None, kbd_brightness |-> None,
   kbd_effect |-> None, logo |-> None, kbd_on_ac |-> None,
   kbd_on_battery |-> None]

\* PersistedState::factory(): the first-run settings, when there is no file.
Factory ==
  [DefaultState EXCEPT !.battery_health = BhoLimit(80),
                       !.fan_on_ac      = Some(FanAuto),
                       !.fan_on_battery = Some(FanAuto),
                       !.kbd_brightness = Some(40),
                       !.kbd_on_ac      = Some(40),
                       !.kbd_on_battery = Some(20)]

\* The persisted state once an operation has been accepted.
Persist(s, o) ==
  CASE o.op = "fan"       -> [s EXCEPT !.fan = Some(o.mode)]
    [] o.op = "bho_limit" -> [s EXCEPT !.battery_health = BhoLimit(o.limit)]
    [] o.op = "bho_off"   -> [s EXCEPT !.battery_health = BhoOff]
    [] o.op = "profile"   -> [s EXCEPT !.profile = Some(o.profile)]
    [] o.op = "kbd"       -> [s EXCEPT !.kbd_brightness = Some(o.percent)]
    [] o.op = "effect"    -> [s EXCEPT !.kbd_effect = Some(o.effect)]
    [] o.op = "logo"      -> [s EXCEPT !.logo = Some(o.logo)]
=============================================================================
