------------------------- MODULE RazerDaemonProofs -------------------------
(***************************************************************************)
(* What holds of the daemon for every device table, every client, every    *)
(* state file and every mix of faults.                                     *)
(***************************************************************************)
EXTENDS RazerDaemon, TLAPS

-----------------------------------------------------------------------------
(* The data *)

LEMMA SomeIsOption ==
  ASSUME NEW S, NEW x \in S
  PROVE  Some(x) \in Option(S)
BY DEF Some, Option

LEMMA NoneIsOption == \A S : None \in Option(S)
BY DEF None, Option

\* The operation an Option holds, as a sequence.
LEMMA OpSeqType ==
  ASSUME NEW S, NEW opt \in Option(S)
  PROVE  OpSeq(opt) \in Seq(S)
<1>1. CASE opt = None
  BY <1>1 DEF OpSeq
<1>2. CASE opt # None
  <2>1. (CHOOSE o \in opt : TRUE) \in opt
    BY <1>2 DEF None
  <2>2. opt \subseteq S
    BY DEF Option
  <2> QED BY <1>2, <2>1, <2>2 DEF OpSeq
<1> QED BY <1>1, <1>2

\* Each operation carries the argument its name promises.
LEMMA OperationFields ==
  ASSUME NEW o \in RequestedOperations
  PROVE  /\ o.op \in {"fan", "bho_limit", "bho_off", "profile", "kbd", "effect", "logo"}
         /\ o.op = "fan" => o.mode \in FanModes
         /\ o.op = "bho_limit" => o.limit \in U8
         /\ o.op = "profile" => o.profile \in Profiles
         /\ o.op = "kbd" => o.percent \in U8
         /\ o.op = "effect" => o.effect \in LightingEffects
         /\ o.op = "logo" => o.logo \in LogoModes
BY DEF RequestedOperations, BhoOffOp

LEMMA OperationTypes ==
  /\ \A m \in FanModes : FanOp(m) \in RequestedOperations
  /\ \A n \in U8 : BhoLimitOp(n) \in RequestedOperations
  /\ BhoOffOp \in RequestedOperations
  /\ \A p \in Profiles : ProfileOp(p) \in RequestedOperations
  /\ \A n \in U8 : KbdOp(n) \in RequestedOperations
  /\ \A e \in LightingEffects : EffectOp(e) \in RequestedOperations
  /\ \A l \in LogoModes : LogoOp(l) \in RequestedOperations
BY DEF RequestedOperations, FanOp, BhoLimitOp, BhoOffOp, ProfileOp, KbdOp,
       EffectOp, LogoOp

LEMMA FanModeFields ==
  /\ FanAuto \in FanModes /\ FanAuto.fan = "auto"
  /\ \A m \in FanModes : m.fan \in FanFlags /\ m.rpm \in U16
  /\ \A m \in FanModes : m.fan = "auto" => m = FanAuto
BY DEF FanModes, FanAuto, FanFlags, U16

LEMMA ProfileFields ==
  /\ {Silent, Balanced, Gaming} \subseteq Profiles
  /\ \A p \in Profiles :
       /\ mode_wire_value(p) \in {0, 1, 4}
       /\ p.name \in {"silent", "balanced", "gaming", "custom"}
       /\ p.name = "custom" => p.cpu \in BoostLevels /\ p.gpu \in BoostLevels
BY DEF Profiles, Silent, Balanced, Gaming, mode_wire_value

LEMMA BoostsFields ==
  ASSUME NEW p \in Profiles
  PROVE  /\ boosts(p) # None =>
              \E l \in [Zones -> BoostLevels] :
                /\ boosts(p) = Some(l)
                /\ (CHOOSE b \in boosts(p) : TRUE) = l
                /\ p.name = "custom" => l["cpu"] = p.cpu /\ l["gpu"] = p.gpu
                /\ p.name = "silent" => l["cpu"] = "low" /\ l["gpu"] = "low"
         /\ boosts(p) # None => p.name \in {"silent", "custom"}
<1>1. CASE p.name = "silent"
  <2> DEFINE l == [z \in Zones |-> "low"]
  <2>1. boosts(p) = {l}
    BY <1>1 DEF boosts, Some
  <2>2. l \in [Zones -> BoostLevels] /\ l["cpu"] = "low" /\ l["gpu"] = "low"
    BY DEF Zones, BoostLevels
  <2> QED BY <1>1, <2>1, <2>2 DEF Some
<1>2. CASE p.name = "custom"
  <2> DEFINE l == [z \in Zones |-> IF z = "cpu" THEN p.cpu ELSE p.gpu]
  <2>1. boosts(p) = {l}
    BY <1>2 DEF boosts, Some
  <2>2. l \in [Zones -> BoostLevels] /\ l["cpu"] = p.cpu /\ l["gpu"] = p.gpu
    BY <1>2, ProfileFields DEF Zones
  <2> QED BY <1>2, <2>1, <2>2 DEF Some
<1>3. CASE p.name \notin {"silent", "custom"}
  BY <1>3 DEF boosts, None
<1> QED BY <1>1, <1>2, <1>3

-----------------------------------------------------------------------------
(* The packets of an operation *)

Leds == {Bho, Brightness, Matrix, LogoState, LogoEffect}

\* The registers are eleven different ones.
LEMMA RegistersDiffer ==
  /\ \A z \in Zones : {Power(z), Rpm(z), Boost(z)} \subseteq Registers
  /\ Leds \subseteq Registers
  /\ \A y, z \in Zones : /\ Power(y) # Rpm(z) /\ Power(y) # Boost(z) /\ Rpm(y) # Boost(z)
                         /\ y # z => /\ Power(y) # Power(z) /\ Rpm(y) # Rpm(z)
                                     /\ Boost(y) # Boost(z)
  /\ \A z \in Zones : Leds \cap {Power(z), Rpm(z), Boost(z)} = {}
  /\ Bho \notin {Brightness, Matrix, LogoState, LogoEffect}
  /\ Brightness \notin {Matrix, LogoState, LogoEffect}
  /\ Matrix \notin {LogoState, LogoEffect}
  /\ LogoState # LogoEffect
<1> USE DEF Power, Rpm, Boost, Bho, Brightness, Matrix, LogoState, LogoEffect, Zones
<1>1. /\ \A z \in Zones : {Power(z), Rpm(z), Boost(z)} \subseteq Registers
      /\ Leds \subseteq Registers
  BY DEF Registers, Leds
<1>2. \A y, z \in Zones : /\ Power(y) # Rpm(z) /\ Power(y) # Boost(z) /\ Rpm(y) # Boost(z)
                         /\ y # z => /\ Power(y) # Power(z) /\ Rpm(y) # Rpm(z)
                                     /\ Boost(y) # Boost(z)
  OBVIOUS
<1>3. \A z \in Zones : Leds \cap {Power(z), Rpm(z), Boost(z)} = {}
  BY DEF Leds
<1> QED BY <1>1, <1>2, <1>3

\* There are no other registers.
LEMMA RegisterCases ==
  ASSUME NEW r \in Registers
  PROVE  r \in Leds \/ \E z \in Zones : r \in {Power(z), Rpm(z), Boost(z)}
BY DEF Registers, Leds, Power, Rpm, Boost

LEMMA RegisterValues ==
  /\ \A z \in Zones : /\ Values(Power(z)) = [mode : {0, 1, 4}, fan : FanFlags]
                      /\ Values(Rpm(z)) = U8
                      /\ Values(Boost(z)) = BoostLevels
  /\ Values(Bho) = [limiter : {"on", "off"}, threshold : U8]
  /\ Values(Brightness) = U8
  /\ Values(Matrix) = LightingEffects
  /\ Values(LogoState) = {"on", "off"}
  /\ Values(LogoEffect) = {"static", "breathing"}
BY DEF Values, Power, Rpm, Boost, Bho, Brightness, Matrix, LogoState, LogoEffect

LEMMA WritesAreWrites ==
  /\ \A z \in Zones, mode \in {0, 1, 4}, fan \in FanFlags : IsWrite(set_power_mode(z, mode, fan))
  /\ \A z \in Zones, rpm \in U16 : IsWrite(set_fan_rpm(z, rpm))
  /\ \A z \in Zones, level \in BoostLevels : IsWrite(set_boost(z, level))
  /\ \A l \in {"on", "off"}, n \in U8 : IsWrite(set_battery_health(l, n))
  /\ \A n \in U8 : IsWrite(set_keyboard_brightness(n))
  /\ \A e \in LightingEffects : IsWrite(Write(Matrix, e))
  /\ \A v \in {"on", "off"} : IsWrite(Write(LogoState, v))
  /\ \A v \in {"static", "breathing"} : IsWrite(Write(LogoEffect, v))
<1> USE RegistersDiffer, RegisterValues DEF IsWrite, Write, Leds
<1>1. \A z \in Zones, mode \in {0, 1, 4}, fan \in FanFlags : IsWrite(set_power_mode(z, mode, fan))
  BY DEF set_power_mode
<1>2. \A z \in Zones, rpm \in U16 : IsWrite(set_fan_rpm(z, rpm))
  <2>1. \A rpm \in U16 : (rpm \div 100) % 256 \in U8
    BY DEF U8, U16
  <2> QED BY <2>1 DEF set_fan_rpm
<1>3. \A z \in Zones, level \in BoostLevels : IsWrite(set_boost(z, level))
  BY DEF set_boost
<1>4. \A l \in {"on", "off"}, n \in U8 : IsWrite(set_battery_health(l, n))
  <2>1. \A n \in U8 : n % 128 \in U8
    BY DEF U8
  <2> QED BY <2>1 DEF set_battery_health
<1>5. \A n \in U8 : IsWrite(set_keyboard_brightness(n))
  <2>1. \A n \in U8 : ((n * 255) \div 100) % 256 \in U8
    BY DEF U8
  <2> QED BY <2>1 DEF set_keyboard_brightness
<1>6. \A e \in LightingEffects : IsWrite(Write(Matrix, e))
  OBVIOUS
<1>7. /\ \A v \in {"on", "off"} : IsWrite(Write(LogoState, v))
      /\ \A v \in {"static", "breathing"} : IsWrite(Write(LogoEffect, v))
  OBVIOUS
<1> QED BY <1>1, <1>2, <1>3, <1>4, <1>5, <1>6, <1>7

LEMMA WrittenRegisters ==
  /\ \A z, mode, fan : set_power_mode(z, mode, fan).reg = Power(z)
  /\ \A z, rpm : set_fan_rpm(z, rpm).reg = Rpm(z)
  /\ \A z, level : set_boost(z, level).reg = Boost(z)
  /\ \A l, n : set_battery_health(l, n).reg = Bho
  /\ \A n : set_keyboard_brightness(n).reg = Brightness
  /\ \A r, v : Write(r, v).reg = r /\ Write(r, v).val = v
BY DEF set_power_mode, set_fan_rpm, set_boost, set_battery_health,
       set_keyboard_brightness, Write

WellFormed(P) ==
  /\ Len(P) \in 1..4
  /\ \A i \in 1..Len(P) : IsWrite(P[i])
  /\ \A i, j \in 1..Len(P) : P[i].reg = P[j].reg => i = j

LEMMA SmallSequences ==
  /\ \A a : IsWrite(a) => WellFormed(<<a>>)
  /\ \A a, b : IsWrite(a) /\ IsWrite(b) /\ a.reg # b.reg => WellFormed(<<a, b>>)
  /\ \A a, b, c, d :
       /\ IsWrite(a) /\ IsWrite(b) /\ IsWrite(c) /\ IsWrite(d)
       /\ a.reg # b.reg /\ a.reg # c.reg /\ a.reg # d.reg
       /\ b.reg # c.reg /\ b.reg # d.reg /\ c.reg # d.reg
       => WellFormed(<<a, b, c, d>>)
BY DEF WellFormed

\* Every packet of an operation writes a register of the EC with a value it can
\* hold, and no operation writes a register twice.
LEMMA PacketsWellFormed ==
  ASSUME NEW o \in RequestedOperations, NEW c \in EcContexts
  PROVE  WellFormed(operation_packets(o, c))
<1> USE WritesAreWrites, WrittenRegisters, RegistersDiffer, SmallSequences DEF Leds
<1>1. CASE o.op = "fan"
  <2>1. o.mode \in FanModes /\ operation_packets(o, c) = FanPackets(o.mode, c)
    BY <1>1, OperationFields DEF operation_packets
  <2>2. mode_wire_value(c.profile) \in {0, 1, 4} /\ o.mode.rpm \in U16
    BY <2>1, ProfileFields, FanModeFields DEF EcContexts
  <2>3. CASE o.mode.fan = "manual"
    BY <2>1, <2>2, <2>3 DEF FanPackets, FanFlags, Zones
  <2>4. CASE o.mode.fan # "manual"
    BY <2>1, <2>2, <2>4 DEF FanPackets, FanFlags, Zones
  <2> QED BY <2>3, <2>4
<1>2. CASE o.op = "profile"
  <2>1. o.profile \in Profiles /\ operation_packets(o, c) = ProfilePackets(o.profile, c)
    BY <1>2, OperationFields DEF operation_packets
  <2>2. mode_wire_value(o.profile) \in {0, 1, 4} /\ c.fan \in FanFlags
    BY <2>1, ProfileFields DEF EcContexts
  <2>3. CASE boosts(o.profile) = None
    BY <2>1, <2>2, <2>3 DEF ProfilePackets, Zones
  <2>4. CASE boosts(o.profile) # None
    <3>1. PICK l \in [Zones -> BoostLevels] : (CHOOSE b \in boosts(o.profile) : TRUE) = l
      BY <2>1, <2>4, BoostsFields
    <3>2. l["cpu"] \in BoostLevels /\ l["gpu"] \in BoostLevels
      BY DEF Zones
    <3>3. ProfilePackets(o.profile, c) =
            << set_power_mode("cpu", mode_wire_value(o.profile), c.fan),
               set_power_mode("gpu", mode_wire_value(o.profile), c.fan),
               set_boost("cpu", l["cpu"]), set_boost("gpu", l["gpu"]) >>
      BY <2>4, <3>1 DEF ProfilePackets
    <3> QED BY <2>1, <2>2, <3>2, <3>3 DEF Zones
  <2> QED BY <2>3, <2>4
<1>3. CASE o.op \in {"bho_limit", "bho_off"}
  <2>1. 80 \in U8
    BY DEF U8
  <2> QED BY <1>3, <2>1, OperationFields DEF operation_packets
<1>4. CASE o.op \in {"kbd", "effect"}
  BY <1>4, OperationFields DEF operation_packets
<1>5. CASE o.op = "logo"
  BY <1>5, OperationFields DEF operation_packets, LogoPackets, LogoModes
<1> QED BY <1>1, <1>2, <1>3, <1>4, <1>5, OperationFields

-----------------------------------------------------------------------------
(* What an operation writes *)

Regs(P)       == {P[i].reg : i \in 1..Len(P)}
Holds(e, P)   == \A i \in 1..Len(P) : e[P[i].reg] = P[i].val

LEMMA SmallRegs ==
  /\ \A a : Regs(<<a>>) = {a.reg}
  /\ \A a, b : Regs(<<a, b>>) = {a.reg, b.reg}
  /\ \A a, b, c, d : Regs(<<a, b, c, d>>) = {a.reg, b.reg, c.reg, d.reg}
<1>1. \A a : 1..Len(<<a>>) = {1}
  OBVIOUS
<1>2. \A a, b : 1..Len(<<a, b>>) = {1, 2}
  OBVIOUS
<1>3. \A a, b, c, d : 1..Len(<<a, b, c, d>>) = {1, 2, 3, 4}
  OBVIOUS
<1> QED BY <1>1, <1>2, <1>3 DEF Regs

LEMMA SmallHolds ==
  ASSUME NEW e
  PROVE  /\ \A a : Holds(e, <<a>>) => e[a.reg] = a.val
         /\ \A a, b : Holds(e, <<a, b>>) => e[a.reg] = a.val /\ e[b.reg] = b.val
         /\ \A a, b, c, d : Holds(e, <<a, b, c, d>>) =>
              e[a.reg] = a.val /\ e[b.reg] = b.val /\ e[c.reg] = c.val /\ e[d.reg] = d.val
BY DEF Holds

\* The packets of a profile that pins the boosts, written out.
LEMMA PinnedPackets ==
  ASSUME NEW p \in Profiles, NEW c \in EcContexts, boosts(p) # None
  PROVE  \E l \in [Zones -> BoostLevels] :
           /\ boosts(p) = Some(l)
           /\ p.name = "custom" => l["cpu"] = p.cpu /\ l["gpu"] = p.gpu
           /\ p.name = "silent" => l["cpu"] = "low" /\ l["gpu"] = "low"
           /\ ProfilePackets(p, c) =
                << set_power_mode("cpu", mode_wire_value(p), c.fan),
                   set_power_mode("gpu", mode_wire_value(p), c.fan),
                   set_boost("cpu", l["cpu"]), set_boost("gpu", l["gpu"]) >>
<1>1. PICK l \in [Zones -> BoostLevels] :
        /\ boosts(p) = Some(l) /\ (CHOOSE b \in boosts(p) : TRUE) = l
        /\ p.name = "custom" => l["cpu"] = p.cpu /\ l["gpu"] = p.gpu
        /\ p.name = "silent" => l["cpu"] = "low" /\ l["gpu"] = "low"
  BY BoostsFields
<1>2. ProfilePackets(p, c) =
        << set_power_mode("cpu", mode_wire_value(p), c.fan),
           set_power_mode("gpu", mode_wire_value(p), c.fan),
           set_boost("cpu", l["cpu"]), set_boost("gpu", l["gpu"]) >>
  BY <1>1 DEF ProfilePackets
<1> QED BY <1>1, <1>2

\* The registers each operation writes.
LEMMA TouchedBy ==
  ASSUME NEW o \in RequestedOperations, NEW c \in EcContexts
  PROVE  /\ o.op = "fan" =>
              Touched(o, c) = {Power("cpu"), Power("gpu")} \cup
                IF o.mode.fan = "manual" THEN {Rpm("cpu"), Rpm("gpu")} ELSE {}
         /\ o.op = "profile" =>
              Touched(o, c) = {Power("cpu"), Power("gpu")} \cup
                IF boosts(o.profile) = None THEN {} ELSE {Boost("cpu"), Boost("gpu")}
         /\ o.op \in {"bho_limit", "bho_off"} => Touched(o, c) = {Bho}
         /\ o.op = "kbd" => Touched(o, c) = {Brightness}
         /\ o.op = "effect" => Touched(o, c) = {Matrix}
         /\ o.op = "logo" => Touched(o, c) = {LogoState} \cup
                IF o.logo = "off" THEN {} ELSE {LogoEffect}
<1> USE SmallRegs, WrittenRegisters
<1>0. Touched(o, c) = Regs(operation_packets(o, c))
  BY DEF Touched, Regs
<1>1. CASE o.op = "fan"
  BY <1>0, <1>1 DEF operation_packets, FanPackets
<1>2. CASE o.op = "profile"
  <2>1. operation_packets(o, c) = ProfilePackets(o.profile, c) /\ o.profile \in Profiles
    BY <1>2, OperationFields DEF operation_packets
  <2>2. CASE boosts(o.profile) = None
    BY <1>0, <1>2, <2>1, <2>2 DEF ProfilePackets
  <2>3. CASE boosts(o.profile) # None
    BY <1>0, <1>2, <2>1, <2>3, PinnedPackets
  <2> QED BY <2>2, <2>3
<1>3. CASE o.op \in {"bho_limit", "bho_off"}
  BY <1>0, <1>3 DEF operation_packets
<1>4. CASE o.op \in {"kbd", "effect"}
  BY <1>0, <1>4 DEF operation_packets
<1>5. CASE o.op = "logo"
  BY <1>0, <1>5 DEF operation_packets, LogoPackets
<1> QED BY <1>1, <1>2, <1>3, <1>4, <1>5, OperationFields

\* The bytes on the wire carry the value asked for: nothing the policy accepts
\* is cut off by the casts of protocol.rs:394, 443 and 500.
LEMMA NothingIsCutOff ==
  /\ \A rpm \in MinRpm..MaxRpm : (rpm \div 100) % 256 = rpm \div 100
  /\ \A n \in U8 : n <= 100 => ((n * 255) \div 100) % 256 = (n * 255) \div 100
  /\ \A n \in U8 : n <= 80 => n % 128 = n
<1>1. \A rpm \in MinRpm..MaxRpm : rpm \in Nat /\ rpm <= 25500
  BY DeviceAssumption DEF U16
<1>2. \A rpm \in Nat : rpm <= 25500 => (rpm \div 100) % 256 = rpm \div 100
  OBVIOUS
<1>3. \A n \in Nat : n <= 100 => ((n * 255) \div 100) % 256 = (n * 255) \div 100
  OBVIOUS
<1>4. \A n \in Nat : n <= 80 => n % 128 = n
  OBVIOUS
<1> QED BY <1>1, <1>2, <1>3, <1>4 DEF U8

\* The facts about an accepted operation the bounds come from.
LEMMA Accepted ==
  ASSUME NEW o, NEW x, validate_operation(o, x)
  PROVE  /\ o.op = "fan" /\ o.mode.fan = "manual" => o.mode.rpm \in MinRpm..MaxRpm
         /\ o.op = "bho_limit" => SupportsBho /\ 50 <= o.limit /\ o.limit <= 80
         /\ o.op = "bho_off" => SupportsBho
         /\ o.op = "kbd" => o.percent <= 100
         /\ o.op = "logo" => SupportsLogo
         /\ o.op \in {"kbd", "effect", "logo", "profile"} => x
         /\ o.op = "profile" /\ o.profile.name = "custom" =>
              o.profile.gpu # "boost" /\ (o.profile.cpu = "boost" => SupportsBoost)
BY DEF validate_operation

\* What an operation asks of the EC.
IsSet(o, c, e) ==
  /\ o.op = "fan" => \A z \in Zones :
       /\ e[Power(z)] = [mode |-> mode_wire_value(c.profile), fan |-> o.mode.fan]
       /\ o.mode.fan = "manual" => e[Rpm(z)] = o.mode.rpm \div 100
  /\ o.op = "profile" => \A z \in Zones :
       /\ e[Power(z)] = [mode |-> mode_wire_value(o.profile), fan |-> c.fan]
       /\ \A b \in boosts(o.profile) : e[Boost(z)] = b[z]
  /\ o.op = "bho_limit" => e[Bho] = [limiter |-> "on", threshold |-> o.limit]
  /\ o.op = "bho_off" => e[Bho].limiter = "off"
  /\ o.op = "kbd" => e[Brightness] = (o.percent * 255) \div 100
  /\ o.op = "effect" => e[Matrix] = o.effect
  /\ o.op = "logo" => /\ e[LogoState] = IF o.logo = "off" THEN "off" ELSE "on"
                      /\ o.logo # "off" => e[LogoEffect] = o.logo

\* An EC that has executed every packet of an accepted operation is set to what
\* the operation asked for.
LEMMA Settled ==
  ASSUME NEW o \in RequestedOperations, NEW c \in EcContexts, NEW x,
         validate_operation(o, x), NEW e, Holds(e, operation_packets(o, c))
  PROVE  IsSet(o, c, e)
<1> USE DEF IsSet
<1> USE SmallHolds, WrittenRegisters
<1>1. CASE o.op = "fan"
  <2>1. operation_packets(o, c) = FanPackets(o.mode, c) /\ o.mode \in FanModes
    BY <1>1, OperationFields DEF operation_packets
  <2>2. CASE o.mode.fan = "manual"
    <3>1. (o.mode.rpm \div 100) % 256 = o.mode.rpm \div 100
      BY <1>1, <2>2, Accepted, NothingIsCutOff
    <3>2. FanPackets(o.mode, c) =
            << set_power_mode("cpu", mode_wire_value(c.profile), "manual"),
               set_power_mode("gpu", mode_wire_value(c.profile), "manual"),
               set_fan_rpm("cpu", o.mode.rpm), set_fan_rpm("gpu", o.mode.rpm) >>
      BY <2>2 DEF FanPackets
    <3> QED BY <1>1, <2>1, <2>2, <3>1, <3>2 DEF Zones, set_power_mode, set_fan_rpm, Write
  <2>3. CASE o.mode.fan # "manual"
    <3>1. o.mode.fan = "auto"
      BY <2>1, <2>3, FanModeFields DEF FanFlags
    <3>2. FanPackets(o.mode, c) =
            << set_power_mode("cpu", mode_wire_value(c.profile), "auto"),
               set_power_mode("gpu", mode_wire_value(c.profile), "auto") >>
      BY <2>3 DEF FanPackets
    <3> QED BY <1>1, <2>1, <3>1, <3>2 DEF Zones, set_power_mode, Write
  <2> QED BY <2>2, <2>3
<1>2. CASE o.op = "profile"
  <2>1. operation_packets(o, c) = ProfilePackets(o.profile, c) /\ o.profile \in Profiles
    BY <1>2, OperationFields DEF operation_packets
  <2>2. CASE boosts(o.profile) = None
    <3>1. ProfilePackets(o.profile, c) =
            << set_power_mode("cpu", mode_wire_value(o.profile), c.fan),
               set_power_mode("gpu", mode_wire_value(o.profile), c.fan) >>
      BY <2>2 DEF ProfilePackets
    <3> QED BY <1>2, <2>1, <2>2, <3>1 DEF Zones, set_power_mode, Write, None
  <2>3. CASE boosts(o.profile) # None
    <3>1. PICK l \in [Zones -> BoostLevels] :
            /\ boosts(o.profile) = Some(l)
            /\ ProfilePackets(o.profile, c) =
                << set_power_mode("cpu", mode_wire_value(o.profile), c.fan),
                   set_power_mode("gpu", mode_wire_value(o.profile), c.fan),
                   set_boost("cpu", l["cpu"]), set_boost("gpu", l["gpu"]) >>
      BY <2>1, <2>3, PinnedPackets
    <3>2. \A b \in boosts(o.profile) : b = l
      BY <3>1 DEF Some
    <3>3. /\ e[Power("cpu")] = [mode |-> mode_wire_value(o.profile), fan |-> c.fan]
          /\ e[Power("gpu")] = [mode |-> mode_wire_value(o.profile), fan |-> c.fan]
          /\ e[Boost("cpu")] = l["cpu"] /\ e[Boost("gpu")] = l["gpu"]
      BY <2>1, <3>1 DEF set_power_mode, set_boost, Write
    <3> QED BY <1>2, <3>2, <3>3 DEF Zones
  <2> QED BY <2>2, <2>3
<1>3. CASE o.op \in {"bho_limit", "bho_off"}
  <2>1. o.op = "bho_limit" => o.limit \in U8 /\ o.limit <= 80 /\ o.limit % 128 = o.limit
    BY Accepted, NothingIsCutOff, OperationFields
  <2> QED BY <1>3, <2>1 DEF operation_packets, set_battery_health, Write
<1>4. CASE o.op \in {"kbd", "effect"}
  <2>1. o.op = "kbd" => ((o.percent * 255) \div 100) % 256 = (o.percent * 255) \div 100
    BY Accepted, NothingIsCutOff, OperationFields
  <2> QED BY <1>4, <2>1 DEF operation_packets, set_keyboard_brightness, Write
<1>5. CASE o.op = "logo"
  <2>1. operation_packets(o, c) = LogoPackets(o.logo)
    BY <1>5 DEF operation_packets
  <2> QED BY <1>5, <2>1 DEF LogoPackets
<1> QED BY <1>1, <1>2, <1>3, <1>4, <1>5, OperationFields

-----------------------------------------------------------------------------
(* Type correctness *)

LEMMA ContextType == TypeOK => Context \in EcContexts
BY FanModeFields DEF TypeOK, Context, EcContexts

LEMMA HeadTail ==
  ASSUME NEW S, NEW q \in Seq(S), q # <<>>
  PROVE  Head(q) \in S /\ Tail(q) \in Seq(S)
OBVIOUS

LEMMA StateTypes ==
  /\ DefaultState \in PersistedStates
  /\ Factory \in PersistedStates
<1>1. DefaultState \in PersistedStates
  BY NoneIsOption DEF DefaultState, PersistedStates, BatteryHealths
<1>2. 80 \in U8 /\ 40 \in U8 /\ 20 \in U8
  BY DEF U8
<1>3. /\ BhoLimit(80) \in BatteryHealths
      /\ Some(FanAuto) \in Option(FanModes)
      /\ Some(40) \in Option(U8) /\ Some(20) \in Option(U8)
  BY <1>2, SomeIsOption, FanModeFields DEF BatteryHealths, BhoLimit
<1> QED BY <1>1, <1>3 DEF Factory, PersistedStates

\* What an accepted operation makes of the persisted state.
LEMMA PersistType ==
  ASSUME NEW s \in PersistedStates, NEW o \in RequestedOperations
  PROVE  Persist(s, o) \in PersistedStates
<1>1. CASE o.op = "fan"
  BY <1>1, OperationFields, SomeIsOption DEF Persist, PersistedStates
<1>2. CASE o.op = "bho_limit"
  BY <1>2, OperationFields DEF Persist, PersistedStates, BatteryHealths, BhoLimit
<1>3. CASE o.op = "bho_off"
  BY <1>3 DEF Persist, PersistedStates, BatteryHealths
<1>4. CASE o.op = "profile"
  BY <1>4, OperationFields, SomeIsOption DEF Persist, PersistedStates
<1>5. CASE o.op = "kbd"
  BY <1>5, OperationFields, SomeIsOption DEF Persist, PersistedStates
<1>6. CASE o.op = "effect"
  BY <1>6, OperationFields, SomeIsOption DEF Persist, PersistedStates
<1>7. CASE o.op = "logo"
  BY <1>7, OperationFields, SomeIsOption DEF Persist, PersistedStates
<1> QED BY <1>1, <1>2, <1>3, <1>4, <1>5, <1>6, <1>7, OperationFields

LEMMA ReapplyType ==
  ASSUME NEW s \in PersistedStates
  PROVE  reapply_persisted(s) \in Seq(RequestedOperations)
<1>1. /\ {ProfileOp(p) : p \in s.profile} \in Option(RequestedOperations)
      /\ {FanOp(m) : m \in s.fan} \in Option(RequestedOperations)
      /\ {KbdOp(b) : b \in s.kbd_brightness} \in Option(RequestedOperations)
      /\ {EffectOp(e) : e \in s.kbd_effect} \in Option(RequestedOperations)
      /\ {LogoOp(l) : l \in s.logo} \in Option(RequestedOperations)
  BY OperationTypes DEF PersistedStates, Option
<1>2. BhoOps(s.battery_health) \in Option(RequestedOperations)
  BY SomeIsOption, NoneIsOption, OperationTypes
  DEF PersistedStates, BatteryHealths, BhoOps, BhoUnset, BhoOff
<1>3. \A a, b, c, d, e, f \in Seq(RequestedOperations) :
        a \o b \o c \o d \o e \o f \in Seq(RequestedOperations)
  OBVIOUS
<1> QED BY <1>1, <1>2, <1>3, OpSeqType DEF reapply_persisted

LEMMA RuleType ==
  ASSUME TypeOK, NEW source \in Sources
  PROVE  on_power_change(source) \in Seq(RequestedOperations)
<1>1. /\ FanRule(source) \ {fan_mode} \in Option(FanModes)
      /\ KbdRule(source) \ state.kbd_brightness \in Option(U8)
  BY DEF TypeOK, PersistedStates, FanRule, KbdRule, Option
<1>2. /\ {FanOp(m) : m \in FanRule(source) \ {fan_mode}} \in Option(RequestedOperations)
      /\ {KbdOp(b) : b \in KbdRule(source) \ state.kbd_brightness}
           \in Option(RequestedOperations)
  BY <1>1, OperationTypes DEF Option
<1>3. \A a, b \in Seq(RequestedOperations) : a \o b \in Seq(RequestedOperations)
  OBVIOUS
<1> QED BY <1>2, <1>3, OpSeqType DEF on_power_change

LEMMA WriteKeepsEc ==
  ASSUME NEW e, NEW p, IsEcState(e), IsWrite(p)
  PROVE  /\ IsEcState(EcAfter(e, p))
         /\ EcAfter(e, p)[p.reg] = p.val
         /\ \A r \in Registers : r # p.reg => EcAfter(e, p)[r] = e[r]
<1>1. /\ EcAfter(e, p)[p.reg] = p.val
      /\ \A r \in Registers : r # p.reg => EcAfter(e, p)[r] = e[r]
      /\ EcAfter(e, p) = [r \in Registers |-> EcAfter(e, p)[r]]
  BY DEF IsEcState, IsWrite, EcAfter
<1>2. \A r \in Registers : EcAfter(e, p)[r] \in Values(r)
  BY <1>1 DEF IsEcState, IsWrite
<1> QED BY <1>1, <1>2 DEF IsEcState

\* The packet a running operation sends next.
LEMMA NextPacket ==
  ASSUME TypeOK, ApplyInv, inFlight, sent < Len(Packets)
  PROVE  /\ Head(todo) \in RequestedOperations /\ Tail(todo) \in Seq(RequestedOperations)
         /\ WellFormed(Packets)
         /\ sent + 1 \in 1..Len(Packets) /\ sent + 1 \in 0..4
         /\ IsWrite(Packets[sent + 1])
         /\ Packets[sent + 1].reg \in Touched(Head(todo), Context)
<1>1. Head(todo) \in RequestedOperations /\ Tail(todo) \in Seq(RequestedOperations)
  BY HeadTail DEF TypeOK, ApplyInv
<1>2. WellFormed(Packets)
  BY <1>1, ContextType, PacketsWellFormed DEF Packets
<1>3. sent + 1 \in 1..Len(Packets) /\ sent + 1 \in 0..4
  BY <1>2 DEF WellFormed, TypeOK
<1> QED BY <1>1, <1>2, <1>3 DEF WellFormed, Touched, Packets

\* Where an operation ends, and where the thread starts over.
LEMMA Idle ==
  /\ FALSE \in BOOLEAN /\ 0 \in 0..4
  /\ <<>> \in Seq(RequestedOperations) /\ {} \in SUBSET Registers
OBVIOUS

LEMMA UnacknowledgedType ==
  ASSUME TypeOK, ApplyInv, inFlight, sent < Len(Packets), Unacknowledged(Packets[sent + 1])
  PROVE  IsEcState(ec') /\ \A p \in late' : IsWrite(p)
<1>1. IsWrite(Packets[sent + 1])
  BY NextPacket
<1>2. IsEcState(ec')
  BY <1>1, WriteKeepsEc DEF Unacknowledged, TypeOK
<1>3. \A p \in late' : IsWrite(p)
  BY <1>1 DEF Unacknowledged, TypeOK, Some, None
<1> QED BY <1>2, <1>3

LEMMA TypeApply ==
  ASSUME TypeOK, ApplyInv, Apply
  PROVE  TypeOK'
<1> USE DEF memory, backend
<1>1. CASE Refuse
  BY <1>1, HeadTail DEF Refuse, TypeOK
<1>2. CASE BeginApply
  BY <1>2 DEF BeginApply, TypeOK
<1>3. CASE SendPacket
  <2>1. IsEcState(ec') /\ sent' \in 0..4
    BY <1>3, NextPacket, WriteKeepsEc DEF SendPacket, TypeOK
  <2> QED BY <1>3, <2>1 DEF SendPacket, TypeOK, None
<1>4. CASE PacketFails
  <2>1. IsEcState(ec') /\ \A p \in late' : IsWrite(p)
    BY <1>4, UnacknowledgedType DEF PacketFails
  <2>2. todo' \in Seq(RequestedOperations)
    BY <1>4, NextPacket DEF PacketFails
  <2> QED BY <1>4, <2>1, <2>2, Idle DEF PacketFails, TypeOK
<1>5. CASE ApplyOk
  <2>1. Head(todo) \in RequestedOperations /\ Tail(todo) \in Seq(RequestedOperations)
    BY <1>5, HeadTail DEF TypeOK, ApplyInv, ApplyOk
  <2>2. fan_mode' \in FanModes /\ profile' \in Profiles
    BY <1>5, <2>1, OperationFields DEF ApplyOk, TypeOK
  <2>3. state' \in PersistedStates /\ dirty' \in BOOLEAN
    BY <1>5, <2>1, PersistType DEF ApplyOk, TypeOK
  <2>4. known' \in SUBSET Registers
    <3>1. Touched(Head(todo), Context) \subseteq Registers
      BY <2>1, ContextType, PacketsWellFormed DEF Touched, WellFormed, IsWrite
    <3> QED BY <1>5, <3>1 DEF ApplyOk, TypeOK
  <2> QED BY <1>5, <2>1, <2>2, <2>3, <2>4, Idle DEF ApplyOk, TypeOK
<1> QED BY <1>1, <1>2, <1>3, <1>4, <1>5 DEF Apply

LEMMA LoadedType ==
  file \in Option(PersistedStates) => \A read \in BOOLEAN : Loaded(read) \subseteq PersistedStates
BY StateTypes DEF Loaded, Some, Option

LEMMA ReadingsType == supply \in Sources => Readings \subseteq Option(Sources)
BY SomeIsOption, NoneIsOption DEF Readings

LEMMA TypeNext ==
  ASSUME TypeOK, ApplyInv, [Next]_vars
  PROVE  TypeOK'
<1> USE DEF memory, backend, Sections
<1>1. CASE Apply
  BY <1>1, TypeApply
<1>2. CASE Reapplied
  <2>1. on_ac' \in Option(Sources)
    BY <1>2, ReadingsType DEF Reapplied, TypeOK
  <2> QED BY <1>2, <2>1 DEF Reapplied, TypeOK
<1>3. CASE Accept \/ WouldBlock
  BY <1>3 DEF Accept, WouldBlock, BeginTurn, TypeOK
<1>4. CASE Serve
  <2>1. PICK r \in Requests : Query(r) \/ Operate(r) \/ SetFanRule(r) \/ SetKbdRule(r)
    BY <1>4 DEF Serve
  <2>2. HandleLine(r)
    BY <2>1 DEF Query, Operate, SetFanRule, SetKbdRule
  <2>3. r \in AllRequests
    BY EnvironmentAssumption
  <2>4. CASE Query(r)
    BY <2>2, <2>4, EnvironmentAssumption DEF Query, HandleLine, TypeOK
  <2>5. CASE Operate(r)
    <3>1. r.operation \in RequestedOperations
      BY <2>3, <2>5 DEF Operate, AllRequests, QueryReq
    <3> QED BY <2>2, <2>5, <3>1, EnvironmentAssumption DEF Operate, HandleLine, TypeOK
  <2>6. CASE SetFanRule(r)
    <3>1. r.fan \in Option(FanModes)
      BY <2>3, <2>6 DEF SetFanRule, AllRequests, QueryReq
    <3>2. state' \in PersistedStates /\ dirty' \in BOOLEAN
      BY <2>6, <3>1 DEF SetFanRule, TypeOK, PersistedStates
    <3> QED BY <2>2, <2>6, <3>2, EnvironmentAssumption DEF SetFanRule, HandleLine, TypeOK
  <2>7. CASE SetKbdRule(r)
    <3>1. r.brightness \in Option(U8)
      BY <2>3, <2>7 DEF SetKbdRule, AllRequests, QueryReq
    <3>2. state' \in PersistedStates /\ dirty' \in BOOLEAN
      BY <2>7, <3>1 DEF SetKbdRule, TypeOK, PersistedStates
    <3> QED BY <2>2, <2>7, <3>2, EnvironmentAssumption DEF SetKbdRule, HandleLine, TypeOK
  <2> QED BY <2>1, <2>4, <2>5, <2>6, <2>7
<1>5. CASE EndConnection
  BY <1>5 DEF EndConnection, TypeOK
<1>6. CASE PollPower
  <2>1. PICK current \in Readings :
          todo' = Automation(current) /\ on_ac' = current
    BY <1>6 DEF PollPower
  <2>2. current \in Option(Sources)
    BY ReadingsType DEF TypeOK
  <2>3. todo' \in Seq(RequestedOperations)
    <3>1. CASE current = None \/ on_ac = current
      BY <2>1, <3>1 DEF Automation
    <3>2. CASE ~(current = None \/ on_ac = current)
      <4>1. (CHOOSE source \in current : TRUE) \in Sources
        BY <2>2, <3>2 DEF None, Option
      <4> QED BY <2>1, <3>2, <4>1, RuleType DEF Automation
    <3> QED BY <3>1, <3>2
  <2> QED BY <1>6, <2>1, <2>2, <2>3 DEF PollPower, TypeOK
<1>7. CASE SkipPoll \/ Automated \/ Stop
  BY <1>7 DEF SkipPoll, Automated, Stop, TypeOK
<1>8. CASE Save
  <2>1. Some(DefaultState) \in Option(PersistedStates)
    BY StateTypes, SomeIsOption
  <2> QED BY <1>8, <2>1 DEF Save, TypeOK
<1>9. CASE WriteFile
  <2>1. Some(state) \in Option(PersistedStates)
    BY SomeIsOption DEF TypeOK
  <2> QED BY <1>9, <2>1 DEF WriteFile, TypeOK
<1>10. CASE Shutdown
  <2>1. failsafe_ops \in Seq(RequestedOperations)
    BY OperationTypes, FanModeFields DEF failsafe_ops
  <2> QED BY <1>10, <2>1 DEF Shutdown, TypeOK
<1>11. CASE Start
  <2>1. state' \in PersistedStates /\ unread' \in BOOLEAN
    BY <1>11, LoadedType DEF Start, TypeOK
  <2>2. todo' \in Seq(RequestedOperations)
    BY <1>11, <2>1, ReapplyType DEF Start
  <2>3. fan_mode' \in FanModes /\ profile' \in Profiles /\ experimental' \in BOOLEAN
    BY <1>11, FanModeFields, ProfileFields, EnvironmentAssumption DEF Start
  <2> QED BY <1>11, <2>1, <2>2, <2>3, NoneIsOption, Idle DEF Start, TypeOK, None
<1>12. CASE Signal
  BY <1>12 DEF Signal, TypeOK
<1>13. CASE Crash
  <2>1. IsEcState(ec') /\ \A p \in late' : IsWrite(p)
    BY <1>13, UnacknowledgedType DEF Crash, TypeOK
  <2> QED BY <1>13, <2>1, Idle DEF Crash, TypeOK
<1>14. CASE Replug
  BY <1>14, EnvironmentAssumption DEF Replug, TypeOK
<1>15. CASE UNCHANGED vars
  BY <1>15 DEF vars, TypeOK
<1>16. CASE LateWrite
  <2>1. IsEcState(ec')
    BY <1>16, WriteKeepsEc DEF LateWrite, TypeOK
  <2> QED BY <1>16, <2>1 DEF LateWrite, TypeOK, None
<1> QED BY <1>1, <1>2, <1>3, <1>4, <1>5, <1>6, <1>7, <1>8, <1>9, <1>10, <1>11,
           <1>12, <1>13, <1>14, <1>15, <1>16 DEF Next, DaemonStep, ClientStep, OwnStep

-----------------------------------------------------------------------------
(* The packets that can reach the EC next *)

\* The failsafe's own operation passes the policy on every device.
LEMMA AutoAllowed == \A x : validate_operation(FanOp(FanAuto), x)
BY DEF validate_operation, FanOp, FanAuto

\* The running operation is one the policy accepts, the failsafe's included.
LEMMA RunningOperation ==
  ASSUME IInv, inFlight
  PROVE  /\ Head(todo) \in RequestedOperations /\ Context \in EcContexts
         /\ validate_operation(Head(todo), experimental)
<1>1. todo # <<>> /\ TypeOK
  BY DEF IInv, ApplyInv
<1>2. Head(todo) \in RequestedOperations /\ Context \in EcContexts
  BY <1>1, HeadTail, ContextType DEF TypeOK
<1>3. validate_operation(Head(todo), experimental)
  BY AutoAllowed DEF IInv, ApplyInv
<1> QED BY <1>2, <1>3

Allowed(p)    == WithinPolicy(p.reg, p.val) /\ OptedIn(p.reg)
AllAllowed(P) == \A i \in 1..Len(P) : Allowed(P[i])

LEMMA SmallAllowed ==
  /\ \A a : Allowed(a) => AllAllowed(<<a>>)
  /\ \A a, b : Allowed(a) /\ Allowed(b) => AllAllowed(<<a, b>>)
  /\ \A a, b, c, d : Allowed(a) /\ Allowed(b) /\ Allowed(c) /\ Allowed(d)
                     => AllAllowed(<<a, b, c, d>>)
BY DEF AllAllowed

LEMMA WritesAllowed ==
  /\ \A z \in Zones : \A mode, fan : Allowed(set_power_mode(z, mode, fan))
  /\ \A z \in Zones, rpm \in MinRpm..MaxRpm : Allowed(set_fan_rpm(z, rpm))
  /\ \A l \in {"on", "off"}, n \in U8 :
       SupportsBho /\ 50 <= n /\ n <= 80 => Allowed(set_battery_health(l, n))
  /\ experimental =>
       /\ \A level : level # "boost" => Allowed(set_boost("gpu", level))
       /\ \A level : (level = "boost" => SupportsBoost) => Allowed(set_boost("cpu", level))
       /\ \A n : Allowed(set_keyboard_brightness(n))
       /\ \A e : Allowed(Write(Matrix, e))
       /\ SupportsLogo => \A v : Allowed(Write(LogoState, v)) /\ Allowed(Write(LogoEffect, v))
<1> USE DEF Allowed, WithinPolicy, OptedIn, Write, Power, Rpm, Boost, Bho, Brightness, Matrix,
            LogoState, LogoEffect, Zones
<1>1. \A z \in Zones : \A mode, fan : Allowed(set_power_mode(z, mode, fan))
  BY DEF set_power_mode
<1>2. \A z \in Zones, rpm \in MinRpm..MaxRpm : Allowed(set_fan_rpm(z, rpm))
  <2>1. \A rpm \in MinRpm..MaxRpm :
          (rpm \div 100) % 256 \in (MinRpm \div 100)..(MaxRpm \div 100)
    <3>1. \A a, b \in Nat : a <= b => a \div 100 <= b \div 100
      OBVIOUS
    <3>2. \A a \in Nat : a \div 100 \in Nat
      OBVIOUS
    <3>3. MinRpm \in Nat /\ MaxRpm \in Nat
      BY DeviceAssumption DEF U16
    <3> QED BY <3>1, <3>2, <3>3, NothingIsCutOff
  <2> QED BY <2>1 DEF set_fan_rpm
<1>3. \A l \in {"on", "off"}, n \in U8 :
       SupportsBho /\ 50 <= n /\ n <= 80 => Allowed(set_battery_health(l, n))
  BY NothingIsCutOff DEF set_battery_health
<1>4. experimental =>
       /\ \A level : level # "boost" => Allowed(set_boost("gpu", level))
       /\ \A level : (level = "boost" => SupportsBoost) => Allowed(set_boost("cpu", level))
  BY DEF set_boost
<1>5. experimental =>
       /\ \A n : Allowed(set_keyboard_brightness(n))
       /\ \A e : Allowed(Write(Matrix, e))
  BY DEF set_keyboard_brightness
<1>6. experimental /\ SupportsLogo =>
       \A v : Allowed(Write(LogoState, v)) /\ Allowed(Write(LogoEffect, v))
  OBVIOUS
<1> QED BY <1>1, <1>2, <1>3, <1>4, <1>5, <1>6

LEMMA PacketsAllowed ==
  ASSUME NEW o \in RequestedOperations, NEW c \in EcContexts,
         validate_operation(o, experimental)
  PROVE  AllAllowed(operation_packets(o, c))
<1> USE SmallAllowed, WritesAllowed
<1>1. CASE o.op = "fan"
  <2>1. o.mode.fan = "manual" => o.mode.rpm \in MinRpm..MaxRpm
    BY <1>1, Accepted
  <2> QED BY <1>1, <2>1 DEF operation_packets, FanPackets, Zones
<1>2. CASE o.op = "profile"
  <2>1. operation_packets(o, c) = ProfilePackets(o.profile, c) /\ o.profile \in Profiles
    BY <1>2, OperationFields DEF operation_packets
  <2>2. experimental
    BY <1>2, Accepted
  <2>3. CASE boosts(o.profile) = None
    BY <2>1, <2>3 DEF ProfilePackets, Zones
  <2>4. CASE boosts(o.profile) # None
    <3>1. PICK l \in [Zones -> BoostLevels] :
            /\ o.profile.name = "custom" => l["cpu"] = o.profile.cpu /\ l["gpu"] = o.profile.gpu
            /\ o.profile.name = "silent" => l["cpu"] = "low" /\ l["gpu"] = "low"
            /\ ProfilePackets(o.profile, c) =
                << set_power_mode("cpu", mode_wire_value(o.profile), c.fan),
                   set_power_mode("gpu", mode_wire_value(o.profile), c.fan),
                   set_boost("cpu", l["cpu"]), set_boost("gpu", l["gpu"]) >>
      BY <2>1, <2>4, PinnedPackets
    <3>2. o.profile.name \in {"silent", "custom"}
      BY <2>1, <2>4, BoostsFields
    <3>3. l["gpu"] # "boost" /\ (l["cpu"] = "boost" => SupportsBoost)
      BY <1>2, <3>1, <3>2, Accepted
    <3> QED BY <2>1, <2>2, <3>1, <3>3 DEF Zones
  <2> QED BY <2>3, <2>4
<1>3. CASE o.op \in {"bho_limit", "bho_off"}
  <2>1. SupportsBho /\ 80 \in U8
    BY <1>3, Accepted DEF U8
  <2>2. o.op = "bho_limit" => o.limit \in U8 /\ 50 <= o.limit /\ o.limit <= 80
    BY Accepted, OperationFields
  <2>3. CASE o.op = "bho_limit"
    <3>1. operation_packets(o, c) = << set_battery_health("on", o.limit) >>
      BY <2>3 DEF operation_packets
    <3>2. Allowed(set_battery_health("on", o.limit))
      BY <2>1, <2>2, <2>3
    <3> QED BY <3>1, <3>2
  <2>4. CASE o.op = "bho_off"
    <3>1. operation_packets(o, c) = << set_battery_health("off", 80) >>
      BY <2>4 DEF operation_packets
    <3>2. Allowed(set_battery_health("off", 80))
      BY <2>1
    <3> QED BY <3>1, <3>2
  <2> QED BY <1>3, <2>3, <2>4
<1>4. CASE o.op \in {"kbd", "effect"}
  BY <1>4, Accepted DEF operation_packets
<1>5. CASE o.op = "logo"
  BY <1>5, Accepted DEF operation_packets, LogoPackets
<1> QED BY <1>1, <1>2, <1>3, <1>4, <1>5, OperationFields

\* The packets of a fan operation write a target only behind both power modes.
LEMMA RpmBehindPower ==
  ASSUME NEW o \in RequestedOperations, NEW c \in EcContexts, NEW z \in Zones,
         NEW i \in 1..Len(operation_packets(o, c)), operation_packets(o, c)[i].reg = Rpm(z)
  PROVE  /\ i \in {3, 4}
         /\ \A y \in Zones : \E j \in {1, 2} :
              /\ operation_packets(o, c)[j].reg = Power(y)
              /\ operation_packets(o, c)[j].val.fan = "manual"
<1>1. Rpm(z) \in Touched(o, c)
  BY DEF Touched
<1>2. o.op = "fan" /\ o.mode.fan = "manual"
  <2>1. CASE o.op = "profile"
    <3>1. Touched(o, c) \subseteq {Power("cpu"), Power("gpu"), Boost("cpu"), Boost("gpu")}
      BY <2>1, TouchedBy
    <3> QED BY <1>1, <3>1, RegistersDiffer DEF Zones
  <2>2. CASE o.op \notin {"fan", "profile"}
    <3>1. Touched(o, c) \subseteq Leds
      BY <2>2, TouchedBy, OperationFields DEF Leds
    <3> QED BY <1>1, <3>1, RegistersDiffer
  <2>3. o.op = "fan"
    BY <2>1, <2>2
  <2> QED BY <1>1, <2>3, TouchedBy, RegistersDiffer DEF Zones
<1>3. operation_packets(o, c) =
        << set_power_mode("cpu", mode_wire_value(c.profile), "manual"),
           set_power_mode("gpu", mode_wire_value(c.profile), "manual"),
           set_fan_rpm("cpu", o.mode.rpm), set_fan_rpm("gpu", o.mode.rpm) >>
  BY <1>2 DEF operation_packets, FanPackets
<1>4. /\ operation_packets(o, c)[1].reg = Power("cpu")
      /\ operation_packets(o, c)[1].val.fan = "manual"
      /\ operation_packets(o, c)[2].reg = Power("gpu")
      /\ operation_packets(o, c)[2].val.fan = "manual"
  BY <1>3 DEF set_power_mode, Write
<1>5. i \in 1..4 /\ i # 1 /\ i # 2
  BY <1>3, <1>4, RegistersDiffer DEF Zones
<1> QED BY <1>4, <1>5 DEF Zones

\* The packet the running operation sends next, or one still on its way.
Pending(p) ==
  \/ p \in late
  \/ inFlight /\ sent < Len(Packets) /\ p = Packets[sent + 1]

LEMMA PendingPacket ==
  ASSUME IInv, NEW p, Pending(p)
  PROVE  /\ IsWrite(p) /\ p.reg \notin known
         /\ WithinPolicy(p.reg, p.val)
         /\ \A z \in Zones : p.reg = Rpm(z) => \A y \in Zones : ec[Power(y)].fan = "manual"
<1>0. TypeOK /\ ApplyInv /\ LateInv
  BY DEF IInv
<1>1. CASE p \in late
  BY <1>0, <1>1 DEF TypeOK, LateInv
<1>2. CASE inFlight /\ sent < Len(Packets) /\ p = Packets[sent + 1]
  <2>1. IsWrite(p) /\ p.reg \in Touched(Head(todo), Context) /\ sent + 1 \in 1..Len(Packets)
    BY <1>0, <1>2, NextPacket
  <2>2. p.reg \notin known
    BY <1>0, <1>2, <2>1 DEF ApplyInv
  <2>3. WithinPolicy(p.reg, p.val)
    <3>1. AllAllowed(Packets)
      BY <1>2, RunningOperation, PacketsAllowed DEF Packets
    <3> QED BY <1>2, <2>1, <3>1 DEF AllAllowed, Allowed
  <2>4. ASSUME NEW z \in Zones, p.reg = Rpm(z), NEW y \in Zones
        PROVE  ec[Power(y)].fan = "manual"
    <3>1. /\ sent + 1 \in {3, 4}
          /\ \E j \in {1, 2} : Packets[j].reg = Power(y) /\ Packets[j].val.fan = "manual"
      BY <1>2, <2>1, <2>4, RunningOperation, RpmBehindPower DEF Packets
    <3>2. {1, 2} \subseteq 1..sent
      BY <1>0, <3>1 DEF TypeOK
    <3> QED BY <1>0, <1>2, <3>1, <3>2 DEF ApplyInv
  <2> QED BY <2>1, <2>2, <2>3, <2>4
<1> QED BY <1>1, <1>2 DEF Pending

\* A packet the policy opens to --experimental alone is sent by nobody else.
LEMMA SentIsOptedIn ==
  ASSUME IInv, NEW p, Pending(p), p \notin late
  PROVE  OptedIn(p.reg)
<1>1. inFlight /\ sent < Len(Packets) /\ p = Packets[sent + 1]
  BY DEF Pending
<1>2. sent + 1 \in 1..Len(Packets)
  BY <1>1, NextPacket DEF IInv
<1>3. AllAllowed(Packets)
  BY <1>1, RunningOperation, PacketsAllowed DEF Packets
<1> QED BY <1>1, <1>2, <1>3 DEF AllAllowed, Allowed

\* A packet without an acknowledgement leaves only pending packets behind.
LEMMA Outcomes ==
  ASSUME inFlight, sent < Len(Packets), Unacknowledged(Packets[sent + 1])
  PROVE  /\ Pending(Packets[sent + 1])
         /\ ec' \in {ec, EcAfter(ec, Packets[sent + 1])}
         /\ \A p \in late' : /\ Pending(p)
                             /\ ec' # ec => p = Packets[sent + 1]
BY DEF Unacknowledged, Pending, Some, None

-----------------------------------------------------------------------------
(* The inductive invariant *)

LEMMA InitInv == Init => IInv
<1> SUFFICES ASSUME Init PROVE IInv
  OBVIOUS
<1>1. TypeOK
  <2>1. state \in PersistedStates /\ file \in Option(PersistedStates)
    BY StateTypes, EnvironmentAssumption DEF Init
  <2>2. IsEcState(ec) /\ supply \in Sources
    BY EnvironmentAssumption DEF Init
  <2> QED BY <2>1, <2>2, Idle, NoneIsOption, FanModeFields, ProfileFields
          DEF Init, TypeOK, Sections, None
<1> QED BY <1>1 DEF Init, IInv, ApplyInv, QuietInv, LateInv, None, FailsafeInv, BeliefMatchesEc,
                    FanBelief, BhoBelief, LightBelief

LEMMA QuietNext ==
  ASSUME IInv, [Next]_vars
  PROVE  QuietInv'
<1> USE DEF IInv, QuietInv, memory, backend
<1>1. CASE Apply
  <2>1. todo # <<>>
    BY <1>1 DEF Apply, Refuse, BeginApply, SendPacket, PacketFails, ApplyOk, ApplyInv
  <2>2. pc' = pc
    BY <1>1 DEF Apply, Refuse, BeginApply, SendPacket, PacketFails, ApplyOk
  <2> QED BY <2>1, <2>2
<1>2. CASE Serve
  BY <1>2 DEF Serve, Query, Operate, SetFanRule, SetKbdRule, HandleLine
<1>3. CASE Reapplied \/ Accept \/ WouldBlock \/ EndConnection \/ PollPower \/ SkipPoll \/ Automated
  BY <1>3 DEF Reapplied, Accept, WouldBlock, BeginTurn, EndConnection, PollPower,
              SkipPoll, Automated
<1>4. CASE Save \/ WriteFile \/ Shutdown \/ Stop
  BY <1>4 DEF Save, WriteFile, Shutdown, Stop
<1>5. CASE Start \/ Signal \/ Crash \/ LateWrite \/ Replug \/ UNCHANGED vars
  BY <1>5 DEF Start, Signal, Crash, LateWrite, Replug, vars
<1> QED BY <1>1, <1>2, <1>3, <1>4, <1>5 DEF Next, DaemonStep, ClientStep, OwnStep

LEMMA OneLeft == \A o : Head(<<o>>) = o /\ Tail(<<o>>) = <<>>
OBVIOUS

\* The failsafe's operation writes both power registers.
LEMMA FailsafeTouches ==
  TypeOK => \A z \in Zones : Power(z) \in Touched(FanOp(FanAuto), Context)
<1>1. FanOp(FanAuto) \in RequestedOperations /\ FanOp(FanAuto).op = "fan"
  BY OperationTypes, FanModeFields DEF FanOp
<1> QED BY <1>1, ContextType, TouchedBy DEF Zones

LEMMA ApplyNext ==
  ASSUME IInv, [Next]_vars
  PROVE  ApplyInv'
<1> USE DEF IInv, memory, backend
<1>1. CASE Refuse \/ PacketFails \/ ApplyOk
  BY <1>1 DEF Refuse, PacketFails, ApplyOk, ApplyInv
<1>2. CASE BeginApply
  <2>1. Head(todo) \in RequestedOperations /\ Context \in EcContexts
    BY <1>2, HeadTail, ContextType DEF BeginApply, TypeOK
  <2>2. /\ inFlight' /\ todo' = todo /\ pc' = pc /\ experimental' = experimental
        /\ sent' = 0 /\ Context' = Context
        /\ known' = known \ Touched(Head(todo), Context)
    BY <1>2 DEF BeginApply, Context
  <2>3. Packets' = Packets /\ 0 <= Len(Packets)
    BY <2>1, <2>2, PacketsWellFormed DEF Packets, WellFormed
  <2>4. pc = "failsafe" => Head(todo) = FanOp(FanAuto)
    BY <1>2 DEF BeginApply, FailsafeInv
  <2>5. pc # "failsafe" => validate_operation(Head(todo), experimental)
    BY <1>2 DEF BeginApply
  <2>6. \A i \in 1..sent' : ec'[Packets'[i].reg] = Packets'[i].val
    BY <2>2
  <2> QED BY <1>2, <2>2, <2>3, <2>4, <2>5, <2>6 DEF ApplyInv, BeginApply
<1>3. CASE SendPacket
  <2>1. /\ inFlight /\ inFlight' /\ todo' = todo /\ pc' = pc
        /\ experimental' = experimental /\ Context' = Context /\ known' = known
        /\ sent < Len(Packets) /\ sent' = sent + 1
        /\ ec' = EcAfter(ec, Packets[sent + 1])
    BY <1>3 DEF SendPacket, Context
  <2>2. Packets' = Packets
    BY <2>1 DEF Packets
  <2>3. /\ WellFormed(Packets) /\ sent + 1 \in 1..Len(Packets)
        /\ IsWrite(Packets[sent + 1])
    BY <2>1, NextPacket
  <2>4. sent' <= Len(Packets)
    BY <2>1, <2>3 DEF WellFormed, TypeOK
  <2>5. ASSUME NEW i \in 1..sent'
        PROVE  ec'[Packets[i].reg] = Packets[i].val
    <3>1. CASE i = sent + 1
      BY <2>1, <2>3, <3>1, WriteKeepsEc DEF TypeOK
    <3>2. CASE i # sent + 1
      <4>1. i \in 1..sent /\ i \in 1..Len(Packets)
        BY <2>1, <2>3, <3>2 DEF TypeOK, WellFormed
      <4>2. Packets[i].reg # Packets[sent + 1].reg /\ Packets[i].reg \in Registers
        BY <2>3, <3>2, <4>1 DEF WellFormed, IsWrite
      <4> QED BY <2>1, <2>3, <4>1, <4>2, WriteKeepsEc DEF TypeOK, ApplyInv
    <3> QED BY <3>1, <3>2
  <2> QED BY <2>1, <2>2, <2>4, <2>5 DEF ApplyInv
<1>4. CASE Serve \/ Reapplied \/ EndConnection \/ Automated \/ Stop
  <2>1. todo = <<>> /\ inFlight' = inFlight
    BY <1>4 DEF Serve, Query, Operate, SetFanRule, SetKbdRule, HandleLine,
                Reapplied, EndConnection, Automated, Stop
  <2> QED BY <2>1 DEF ApplyInv
<1>5. CASE Accept \/ WouldBlock \/ PollPower \/ SkipPoll \/ Save \/ WriteFile \/ Shutdown
  <2>1. pc \in {"loop", "poll", "save", "write"} /\ inFlight' = inFlight
    BY <1>5 DEF Accept, WouldBlock, BeginTurn, PollPower, SkipPoll, Save, WriteFile, Shutdown
  <2> QED BY <2>1 DEF ApplyInv, QuietInv
<1>6. CASE Start \/ Crash
  BY <1>6 DEF Start, Crash, ApplyInv
<1>7. CASE Signal \/ Replug \/ UNCHANGED vars
  <2>1. UNCHANGED <<pc, experimental, fan_mode, profile, todo, inFlight, sent, ec, known>>
    BY <1>7 DEF Signal, Replug, vars
  <2> QED BY <2>1 DEF ApplyInv, Packets, Context
<1>8. CASE LateWrite
  <2>1. /\ UNCHANGED <<pc, experimental, fan_mode, profile, todo, inFlight, sent, known>>
        /\ late # {}
    BY <1>8 DEF LateWrite
  <2>2. inFlight => sent = 0
    BY <2>1 DEF LateInv
  <2> QED BY <2>1, <2>2 DEF ApplyInv, Packets, Context
<1> QED BY <1>1, <1>2, <1>3, <1>4, <1>5, <1>6, <1>7, <1>8 DEF Next, DaemonStep, ClientStep, OwnStep, Apply

LEMMA FailsafeNext ==
  ASSUME IInv, [Next]_vars
  PROVE  FailsafeInv'
<1> USE DEF IInv, FailsafeInv, memory, backend
<1>1. CASE Refuse
  BY <1>1 DEF Refuse, QuietInv
<1>2. CASE BeginApply \/ SendPacket
  BY <1>2 DEF BeginApply, SendPacket, QuietInv, ApplyInv
<1>3. CASE PacketFails
  <2>1. inFlight /\ todo # <<>> /\ pc' = pc /\ todo' = Tail(todo) /\ known' = known
    BY <1>3 DEF PacketFails, ApplyInv
  <2>2. pc # "stopped"
    BY <2>1 DEF QuietInv
  <2>3. CASE pc = "failsafe"
    <3>1. todo' = <<>> /\ Head(todo) = FanOp(FanAuto)
      <4>1. todo = <<FanOp(FanAuto)>>
        BY <2>1, <2>3
      <4> QED BY <2>1, <4>1, OneLeft
    <3>2. \A z \in Zones : Power(z) \in Touched(Head(todo), Context)
      BY <3>1, FailsafeTouches
    <3>3. \A z \in Zones : Power(z) \notin known
      BY <2>1, <3>2 DEF ApplyInv
    <3> QED BY <2>1, <2>3, <3>1, <3>3
  <2> QED BY <2>1, <2>2, <2>3
<1>4. CASE ApplyOk
  <2>1. inFlight /\ todo # <<>> /\ pc' = pc /\ todo' = Tail(todo)
    BY <1>4 DEF ApplyOk, ApplyInv
  <2>2. pc # "stopped"
    BY <2>1 DEF QuietInv
  <2>3. CASE pc = "failsafe"
    <3>1. todo' = <<>> /\ Head(todo) = FanOp(FanAuto)
      <4>1. todo = <<FanOp(FanAuto)>>
        BY <2>1, <2>3
      <4> QED BY <2>1, <4>1, OneLeft
    <3>2. fan_mode' = FanAuto
      BY <1>4, <3>1 DEF ApplyOk, FanOp
    <3> QED BY <3>1, <3>2
  <2> QED BY <2>1, <2>2, <2>3
<1>5. CASE Serve \/ Reapplied \/ Accept \/ WouldBlock \/ EndConnection
  BY <1>5 DEF Serve, Query, Operate, SetFanRule, SetKbdRule, HandleLine,
              Reapplied, Accept, WouldBlock, BeginTurn, EndConnection
<1>6. CASE PollPower \/ SkipPoll \/ Automated \/ Save \/ WriteFile
  BY <1>6 DEF PollPower, SkipPoll, Automated, Save, WriteFile
<1>7. CASE Shutdown
  <2>1. fan_mode.fan # "manual" => fan_mode = FanAuto
    BY FanModeFields DEF TypeOK, FanFlags
  <2> QED BY <1>7, <2>1 DEF Shutdown, failsafe_ops
<1>8. CASE Stop
  BY <1>8 DEF Stop
<1>9. CASE Start \/ Crash
  BY <1>9 DEF Start, Crash
<1>10. CASE Signal \/ LateWrite \/ Replug \/ UNCHANGED vars
  BY <1>10 DEF Signal, LateWrite, Replug, vars
<1> QED BY <1>1, <1>2, <1>3, <1>4, <1>5, <1>6, <1>7, <1>8, <1>9, <1>10
        DEF Next, DaemonStep, ClientStep, OwnStep, Apply

\* A step that leaves the EC and the packets on their way alone, and relies on
\* no further register.
LEMMA LateFrame ==
  ASSUME LateInv, UNCHANGED <<ec, late>>, known' \subseteq known,
         inFlight' => sent' = 0 \/ UNCHANGED <<inFlight, sent>>
  PROVE  LateInv'
BY DEF LateInv, WithinPolicy

LEMMA LateNext ==
  ASSUME IInv, [Next]_vars
  PROVE  LateInv'
<1> USE DEF memory, backend
<1>0. TypeOK /\ ApplyInv /\ LateInv
  BY DEF IInv
<1>1. CASE Refuse \/ BeginApply
  BY <1>0, <1>1, LateFrame DEF Refuse, BeginApply
<1>2. CASE SendPacket \/ LateWrite
  BY <1>2 DEF SendPacket, LateWrite, LateInv, None
<1>3. CASE PacketFails \/ (Crash /\ inFlight /\ sent < Len(Packets))
  <2>1. /\ inFlight /\ sent < Len(Packets) /\ Unacknowledged(Packets[sent + 1])
        /\ inFlight' = FALSE /\ experimental' = experimental /\ known' \subseteq known
    BY <1>3 DEF PacketFails, Crash
  <2> SUFFICES ASSUME NEW p \in late'
               PROVE  /\ p.reg \notin known'
                      /\ WithinPolicy(p.reg, p.val)'
                      /\ \A z \in Zones : p.reg = Rpm(z) =>
                           \A y \in Zones : ec'[Power(y)].fan = "manual"
    BY <2>1 DEF LateInv
  <2>2. /\ Pending(p) /\ ec' \in {ec, EcAfter(ec, Packets[sent + 1])}
        /\ ec' # ec => p = Packets[sent + 1]
    BY <2>1, Outcomes
  <2>3. /\ IsWrite(p) /\ p.reg \notin known /\ WithinPolicy(p.reg, p.val)
        /\ \A z \in Zones : p.reg = Rpm(z) => \A y \in Zones : ec[Power(y)].fan = "manual"
    BY <2>2, PendingPacket
  <2>4. WithinPolicy(p.reg, p.val)'
    BY <2>1, <2>3 DEF WithinPolicy
  <2>5. ASSUME NEW z \in Zones, p.reg = Rpm(z), NEW y \in Zones
        PROVE  ec'[Power(y)].fan = "manual"
    <3>1. Power(y) \in Registers /\ Power(y) # p.reg
      BY <2>5, RegistersDiffer
    <3>2. ec'[Power(y)] = ec[Power(y)]
      BY <1>0, <2>2, <2>3, <3>1, WriteKeepsEc DEF TypeOK
    <3> QED BY <2>3, <2>5, <3>2
  <2> QED BY <2>1, <2>3, <2>4, <2>5
<1>4. CASE ApplyOk
  <2>1. inFlight /\ sent = Len(Packets) /\ todo # <<>>
    BY <1>0, <1>4 DEF ApplyOk, ApplyInv
  <2>2. Len(Packets) # 0
    <3>1. Len(Packets) \in 1..4
      BY <2>1, RunningOperation, PacketsWellFormed DEF Packets, WellFormed
    <3> QED BY <3>1
  <2>3. late = {}
    BY <1>0, <2>1, <2>2 DEF LateInv
  <2> QED BY <1>4, <2>3 DEF ApplyOk, LateInv
<1>5. CASE Crash /\ ~(inFlight /\ sent < Len(Packets))
  <2>1. UNCHANGED <<ec, late, experimental>> /\ known' = {} /\ inFlight' = FALSE
    BY <1>5 DEF Crash
  <2> QED BY <1>0, <2>1, LateFrame
<1>6. CASE Serve
  BY <1>0, <1>6, LateFrame DEF Serve, Query, Operate, SetFanRule, SetKbdRule, HandleLine
<1>7. CASE Reapplied \/ Accept \/ WouldBlock \/ EndConnection \/ PollPower \/ SkipPoll
             \/ Automated \/ Save \/ WriteFile \/ Shutdown \/ Stop
  <2>1. UNCHANGED <<ec, late, experimental, known, inFlight, sent>>
    BY <1>7 DEF Reapplied, Accept, WouldBlock, BeginTurn, EndConnection, PollPower,
                SkipPoll, Automated, Save, WriteFile, Shutdown, Stop
  <2> QED BY <1>0, <2>1, LateFrame
<1>8. CASE Signal \/ Replug \/ UNCHANGED vars
  <2>1. UNCHANGED <<ec, late, experimental, known, inFlight, sent>>
    BY <1>8 DEF Signal, Replug, vars
  <2> QED BY <1>0, <2>1, LateFrame
<1>9. CASE Start
  <2>1. UNCHANGED <<ec, late>> /\ known' = {} /\ inFlight' = FALSE
    BY <1>9 DEF Start
  <2> QED BY <1>0, <2>1, LateFrame
<1> QED BY <1>1, <1>2, <1>3, <1>4, <1>5, <1>6, <1>7, <1>8, <1>9 DEF Next, DaemonStep, ClientStep, OwnStep, Apply

-----------------------------------------------------------------------------
(* What the daemon believes *)

\* A step that neither learns of a register nor disturbs one the daemon relies
\* on, and changes no setting, keeps the belief.
LEMMA BeliefFrame ==
  ASSUME BeliefMatchesEc, known' \subseteq known,
         \A r \in known' : ec'[r] = ec[r],
         UNCHANGED <<fan_mode, profile>>,
         state'.battery_health = state.battery_health,
         state'.kbd_brightness = state.kbd_brightness,
         state'.kbd_effect = state.kbd_effect, state'.logo = state.logo
  PROVE  BeliefMatchesEc'
<1> USE DEF BeliefMatchesEc
<1>1. FanBelief'
  BY DEF FanBelief
<1>2. BhoBelief'
  BY DEF BhoBelief
<1>3. LightBelief'
  BY DEF LightBelief
<1> QED BY <1>1, <1>2, <1>3

\* What the daemon and the EC hold when an operation has gone through.
LEMMA Applied ==
  ASSUME IInv, ApplyOk
  PROVE  LET o == Head(todo) IN
         /\ o \in RequestedOperations /\ Context \in EcContexts
         /\ IsSet(o, Context, ec)
         /\ fan_mode' = IF o.op = "fan" THEN o.mode ELSE fan_mode
         /\ profile' = IF o.op = "profile" THEN o.profile ELSE profile
         /\ state' = IF o.op = "fan" /\ pc = "failsafe" THEN state ELSE Persist(state, o)
         /\ known' = known \cup Touched(o, Context) /\ ec' = ec
<1> USE DEF IInv
<1>1. todo # <<>> /\ inFlight /\ sent = Len(Packets)
  BY DEF ApplyOk, ApplyInv
<1>2. Head(todo) \in RequestedOperations /\ Context \in EcContexts
  BY <1>1, HeadTail, ContextType DEF TypeOK
<1>3. pc = "failsafe" => Head(todo) = FanOp(FanAuto) /\ Head(todo).op = "fan"
  BY <1>1 DEF ApplyInv, FanOp
<1>4. validate_operation(Head(todo), experimental)
  BY <1>1, <1>3, AutoAllowed DEF ApplyInv
<1>5. Holds(ec, operation_packets(Head(todo), Context))
  BY <1>1 DEF ApplyInv, Holds, Packets
<1>6. IsSet(Head(todo), Context, ec)
  BY <1>2, <1>4, <1>5, Settled
<1> QED BY <1>2, <1>3, <1>6 DEF ApplyOk

LEMMA FanBeliefApplied ==
  ASSUME IInv, ApplyOk
  PROVE  FanBelief'
<1> DEFINE o == Head(todo)
<1>0. /\ o \in RequestedOperations /\ Context \in EcContexts
      /\ IsSet(o, Context, ec)
      /\ known' = known \cup Touched(o, Context) /\ ec' = ec
      /\ fan_mode' = IF o.op = "fan" THEN o.mode ELSE fan_mode
      /\ profile' = IF o.op = "profile" THEN o.profile ELSE profile
  BY Applied
<1>1. FanBelief /\ Context.profile = profile /\ Context.fan = fan_mode.fan
  BY DEF IInv, BeliefMatchesEc, Context
<1> HIDE DEF o
<1>2. CASE o.op = "fan"
  <2>1. \A z \in Zones : Boost(z) \notin Touched(o, Context)
    BY <1>0, <1>2, TouchedBy, RegistersDiffer DEF Zones
  <2>2. \A z \in Zones :
          /\ ec[Power(z)] = [mode |-> mode_wire_value(profile), fan |-> o.mode.fan]
          /\ o.mode.fan = "manual" => ec[Rpm(z)] = o.mode.rpm \div 100
    BY <1>0, <1>1, <1>2 DEF IsSet
  <2>3. fan_mode' = o.mode /\ profile' = profile
    BY <1>0, <1>2
  <2> QED BY <1>0, <1>1, <2>1, <2>2, <2>3 DEF FanBelief
<1>3. CASE o.op = "profile"
  <2>1. \A z \in Zones : Rpm(z) \notin Touched(o, Context)
    BY <1>0, <1>3, TouchedBy, RegistersDiffer DEF Zones
  <2>2. \A z \in Zones :
          /\ ec[Power(z)] = [mode |-> mode_wire_value(o.profile), fan |-> fan_mode.fan]
          /\ \A b \in boosts(o.profile) : ec[Boost(z)] = b[z]
    BY <1>0, <1>1, <1>3 DEF IsSet
  <2>3. fan_mode' = fan_mode /\ profile' = o.profile
    BY <1>0, <1>3
  <2> QED BY <1>0, <1>1, <2>1, <2>2, <2>3 DEF FanBelief
<1>4. CASE o.op \notin {"fan", "profile"}
  <2>1. Touched(o, Context) \subseteq Leds
    BY <1>0, <1>4, TouchedBy, OperationFields DEF Leds
  <2>2. \A z \in Zones : Touched(o, Context) \cap {Power(z), Rpm(z), Boost(z)} = {}
    BY <2>1, RegistersDiffer
  <2>3. fan_mode' = fan_mode /\ profile' = profile
    BY <1>0, <1>4
  <2> QED BY <1>0, <1>1, <2>2, <2>3 DEF FanBelief
<1> QED BY <1>2, <1>3, <1>4

LEMMA LedBeliefApplied ==
  ASSUME IInv, ApplyOk
  PROVE  BhoBelief' /\ LightBelief'
<1> DEFINE o == Head(todo)
<1>0. /\ o \in RequestedOperations /\ Context \in EcContexts
      /\ IsSet(o, Context, ec)
      /\ known' = known \cup Touched(o, Context) /\ ec' = ec
      /\ state' = IF o.op = "fan" /\ pc = "failsafe" THEN state ELSE Persist(state, o)
  BY Applied
<1>1. BhoBelief /\ LightBelief /\ state \in PersistedStates
  BY DEF IInv, BeliefMatchesEc, TypeOK
<1> HIDE DEF o
<1>2. CASE o.op \in {"fan", "profile"}
  <2>1. Touched(o, Context) \cap Leds = {}
    BY <1>0, <1>2, TouchedBy, RegistersDiffer DEF Zones
  <2>2. /\ state'.battery_health = state.battery_health
        /\ state'.kbd_brightness = state.kbd_brightness
        /\ state'.kbd_effect = state.kbd_effect /\ state'.logo = state.logo
    BY <1>0, <1>1, <1>2 DEF Persist, PersistedStates
  <2> QED BY <1>0, <1>1, <2>1, <2>2 DEF BhoBelief, LightBelief, Leds
<1>3. CASE o.op \in {"bho_limit", "bho_off"}
  <2>1. Touched(o, Context) = {Bho}
    BY <1>0, <1>3, TouchedBy
  <2>2. /\ state'.kbd_brightness = state.kbd_brightness
        /\ state'.kbd_effect = state.kbd_effect /\ state'.logo = state.logo
        /\ state'.battery_health = IF o.op = "bho_off" THEN BhoOff ELSE BhoLimit(o.limit)
    BY <1>0, <1>1, <1>3 DEF Persist, PersistedStates
  <2>3. LightBelief'
    BY <1>0, <1>1, <2>1, <2>2, RegistersDiffer DEF LightBelief
  <2>4. BhoBelief'
    BY <1>0, <1>3, <2>2 DEF IsSet, BhoBelief, BhoOff, BhoLimit
  <2> QED BY <2>3, <2>4
<1>4. CASE o.op \in {"kbd", "effect", "logo"}
  <2>1. /\ Bho \notin Touched(o, Context)
        /\ Brightness \in Touched(o, Context) <=> o.op = "kbd"
        /\ Matrix \in Touched(o, Context) <=> o.op = "effect"
        /\ LogoState \in Touched(o, Context) <=> o.op = "logo"
        /\ LogoEffect \in Touched(o, Context) => o.op = "logo"
    BY <1>0, <1>4, TouchedBy, RegistersDiffer
  <2>2. /\ state'.battery_health = state.battery_health
        /\ state'.kbd_brightness =
             IF o.op = "kbd" THEN Some(o.percent) ELSE state.kbd_brightness
        /\ state'.kbd_effect = IF o.op = "effect" THEN Some(o.effect) ELSE state.kbd_effect
        /\ state'.logo = IF o.op = "logo" THEN Some(o.logo) ELSE state.logo
    BY <1>0, <1>1, <1>4 DEF Persist, PersistedStates
  <2>3. BhoBelief'
    BY <1>0, <1>1, <2>1, <2>2 DEF BhoBelief
  <2>4. /\ o.op = "kbd" => ec[Brightness] = (o.percent * 255) \div 100
        /\ o.op = "effect" => ec[Matrix] = o.effect
        /\ o.op = "logo" => /\ ec[LogoState] = IF o.logo = "off" THEN "off" ELSE "on"
                            /\ o.logo # "off" => ec[LogoEffect] = o.logo
    BY <1>0 DEF IsSet
  <2>5. CASE o.op = "kbd"
    BY <1>0, <1>1, <2>1, <2>2, <2>3, <2>4, <2>5 DEF LightBelief, Some
  <2>6. CASE o.op = "effect"
    BY <1>0, <1>1, <2>1, <2>2, <2>3, <2>4, <2>6 DEF LightBelief, Some
  <2>7. CASE o.op = "logo"
    BY <1>0, <1>1, <2>1, <2>2, <2>3, <2>4, <2>7 DEF LightBelief, Some
  <2> QED BY <1>4, <2>3, <2>5, <2>6, <2>7
<1> QED BY <1>0, <1>2, <1>3, <1>4, OperationFields

LEMMA BeliefNext ==
  ASSUME IInv, [Next]_vars
  PROVE  BeliefMatchesEc'
<1> USE DEF memory, backend
<1>0. TypeOK /\ ApplyInv /\ BeliefMatchesEc
  BY DEF IInv
<1>1. CASE Refuse \/ BeginApply
  BY <1>0, <1>1, BeliefFrame DEF Refuse, BeginApply
<1>2. CASE SendPacket \/ PacketFails \/ LateWrite
  <2>1. PICK p : Pending(p) /\ ec' \in {ec, EcAfter(ec, p)}
    BY <1>2, Outcomes DEF SendPacket, PacketFails, LateWrite, Pending
  <2>2. IsWrite(p) /\ p.reg \notin known
    BY <2>1, PendingPacket
  <2>3. \A r \in Registers : r # p.reg => EcAfter(ec, p)[r] = ec[r]
    BY <1>0, <2>2, WriteKeepsEc DEF TypeOK
  <2>4. UNCHANGED <<known, fan_mode, profile, state>>
    BY <1>2 DEF SendPacket, PacketFails, LateWrite
  <2>5. \A r \in known' : ec'[r] = ec[r]
    BY <1>0, <2>1, <2>2, <2>3, <2>4 DEF TypeOK
  <2> QED BY <1>0, <2>4, <2>5, BeliefFrame
<1>3. CASE ApplyOk
  BY <1>3, FanBeliefApplied, LedBeliefApplied DEF BeliefMatchesEc
<1>4. CASE Serve
  <2>1. PICK r \in Requests : Query(r) \/ Operate(r) \/ SetFanRule(r) \/ SetKbdRule(r)
    BY <1>4 DEF Serve
  <2>2. UNCHANGED <<fan_mode, profile, ec, known>>
    BY <2>1 DEF Query, Operate, SetFanRule, SetKbdRule, HandleLine
  <2>3. /\ state'.battery_health = state.battery_health
        /\ state'.kbd_brightness = state.kbd_brightness
        /\ state'.kbd_effect = state.kbd_effect /\ state'.logo = state.logo
    BY <1>0, <2>1 DEF Query, Operate, SetFanRule, SetKbdRule, TypeOK, PersistedStates
  <2> QED BY <1>0, <2>2, <2>3, BeliefFrame
<1>5. CASE Start \/ Crash
  BY <1>5 DEF Start, Crash, BeliefMatchesEc, FanBelief, BhoBelief, LightBelief
<1>6. CASE Reapplied \/ Accept \/ WouldBlock \/ EndConnection \/ PollPower \/ SkipPoll
             \/ Automated \/ Save \/ WriteFile \/ Shutdown \/ Stop
  <2>1. UNCHANGED <<fan_mode, profile, state, ec, known>>
    BY <1>6 DEF Reapplied, Accept, WouldBlock, BeginTurn, EndConnection, PollPower,
                SkipPoll, Automated, Save, WriteFile, Shutdown, Stop
  <2> QED BY <1>0, <2>1, BeliefFrame
<1>7. CASE Signal \/ Replug \/ UNCHANGED vars
  <2>1. UNCHANGED <<fan_mode, profile, state, ec, known>>
    BY <1>7 DEF Signal, Replug, vars
  <2> QED BY <1>0, <2>1, BeliefFrame
<1> QED BY <1>1, <1>2, <1>3, <1>4, <1>5, <1>6, <1>7 DEF Next, DaemonStep, ClientStep, OwnStep, Apply

\* The invariant holds of every behaviour.
THEOREM Invariance == Spec => []IInv
<1>1. Init => IInv
  BY InitInv
<1>2. IInv /\ [Next]_vars => IInv'
  <2> SUFFICES ASSUME IInv, [Next]_vars PROVE IInv'
    OBVIOUS
  <2>1. TypeOK'
    BY TypeNext DEF IInv
  <2> QED BY <2>1, ApplyNext, QuietNext, LateNext, FailsafeNext, BeliefNext DEF IInv
<1> QED BY <1>1, <1>2, PTL DEF Spec

\* Every variable keeps its type: no operation, rule or file makes the EC hold
\* a value a register cannot.
THEOREM TypeCorrect == Spec => []TypeOK
<1>1. IInv => TypeOK
  BY DEF IInv
<1> QED BY <1>1, Invariance, PTL

\* What `status` reports of a register the daemon has set is what the EC holds,
\* on every device and under every mix of refused and failed operations.
THEOREM BeliefCorrect == Spec => []BeliefMatchesEc
<1>1. IInv => BeliefMatchesEc
  BY DEF IInv
<1> QED BY <1>1, Invariance, PTL

\* A daemon that stopped leaves no zone manual whose power register it knew.
THEOREM FailsafeCorrect == Spec => []FailsafeHolds
<1>1. IInv => FailsafeHolds
  <2> SUFFICES ASSUME IInv, pc = "stopped", NEW z \in Zones, Power(z) \in known
               PROVE  ec[Power(z)].fan = "auto"
    BY DEF FailsafeHolds
  <2>1. fan_mode = FanAuto
    BY DEF IInv, FailsafeInv
  <2>2. ec[Power(z)] = [mode |-> mode_wire_value(profile), fan |-> fan_mode.fan]
    BY DEF IInv, BeliefMatchesEc, FanBelief
  <2> QED BY <2>1, <2>2, FanModeFields
<1> QED BY <1>1, Invariance, PTL

-----------------------------------------------------------------------------
(* What is written, and when *)

\* Only a pending packet changes the EC, and only the register it names.
LEMMA OnlyPackets ==
  ASSUME IInv, [Next]_vars, NEW r \in Registers, ec'[r] # ec[r]
  PROVE  \E p : Pending(p) /\ p.reg = r /\ p.val = ec'[r]
<1> USE DEF memory, backend
<1>1. CASE SendPacket \/ PacketFails \/ LateWrite \/ Crash
  <2>1. PICK p : Pending(p) /\ ec' = EcAfter(ec, p)
    BY <1>1, Outcomes DEF SendPacket, PacketFails, LateWrite, Crash, Pending
  <2>2. IsWrite(p)
    BY <2>1, PendingPacket
  <2>3. /\ EcAfter(ec, p)[p.reg] = p.val
        /\ r # p.reg => EcAfter(ec, p)[r] = ec[r]
    BY <2>2, WriteKeepsEc DEF IInv, TypeOK
  <2> QED BY <2>1, <2>3
<1>2. CASE Refuse \/ BeginApply \/ ApplyOk
  BY <1>2 DEF Refuse, BeginApply, ApplyOk
<1>3. CASE Serve
  BY <1>3 DEF Serve, Query, Operate, SetFanRule, SetKbdRule, HandleLine
<1>4. CASE Reapplied \/ Accept \/ WouldBlock \/ EndConnection \/ PollPower \/ SkipPoll
             \/ Automated \/ Save \/ WriteFile \/ Shutdown \/ Stop
  BY <1>4 DEF Reapplied, Accept, WouldBlock, BeginTurn, EndConnection, PollPower,
              SkipPoll, Automated, Save, WriteFile, Shutdown, Stop
<1>5. CASE Start \/ Signal \/ Replug \/ UNCHANGED vars
  BY <1>5 DEF Start, Signal, Replug, vars
<1> QED BY <1>1, <1>2, <1>3, <1>4, <1>5 DEF Next, DaemonStep, ClientStep, OwnStep, Apply

\* A packet comes to wait in the EC only when the running operation sent it.
LEMMA OnlySent ==
  ASSUME IInv, [Next]_vars, NEW p \in late' \ late
  PROVE  Pending(p)
<1> USE DEF memory, backend
<1>1. CASE PacketFails \/ (Crash /\ inFlight /\ sent < Len(Packets))
  <2>1. inFlight /\ sent < Len(Packets) /\ Unacknowledged(Packets[sent + 1])
    BY <1>1 DEF PacketFails, Crash
  <2> QED BY <2>1, Outcomes
<1>2. CASE Crash /\ ~(inFlight /\ sent < Len(Packets))
  BY <1>2 DEF Crash
<1>3. CASE Refuse \/ BeginApply \/ SendPacket \/ ApplyOk \/ Start \/ LateWrite \/ Signal \/ Replug
           \/ UNCHANGED vars
  BY <1>3 DEF Refuse, BeginApply, SendPacket, ApplyOk, Start, LateWrite, Signal, Replug, vars, None
<1>4. CASE Serve \/ Reapplied \/ Accept \/ WouldBlock \/ EndConnection \/ PollPower \/ SkipPoll
           \/ Automated \/ Save \/ WriteFile \/ Shutdown \/ Stop
  BY <1>4 DEF Serve, Query, Operate, SetFanRule, SetKbdRule, HandleLine, Reapplied, Accept,
         WouldBlock, BeginTurn, EndConnection, PollPower, SkipPoll, Automated, Save,
         WriteFile, Shutdown, Stop
<1> QED BY <1>1, <1>2, <1>3, <1>4 DEF Next, DaemonStep, ClientStep, OwnStep, Apply

\* No value outside the policy is ever written to the EC: not for a client, nor
\* for a rule or a setting of a hand-edited state file; and what --experimental
\* opens is sent by no process without it, though the EC may execute a packet
\* late, when the process that sent it is gone.
THEOREM PolicyCorrect == Spec => WritesWithinPolicy
<1>1. ASSUME IInv, [Next]_vars, NEW r \in Registers, ec'[r] # ec[r]
      PROVE  /\ WithinPolicy(r, ec'[r])
             /\ OptedIn(r) \/ \E p \in late : p.reg = r /\ p.val = ec'[r]
  <2>1. PICK p : Pending(p) /\ p.reg = r /\ p.val = ec'[r]
    BY <1>1, OnlyPackets
  <2>2. WithinPolicy(r, ec'[r])
    BY <1>1, <2>1, PendingPacket
  <2>3. p \notin late => OptedIn(r)
    BY <1>1, <2>1, SentIsOptedIn
  <2> QED BY <2>1, <2>2, <2>3
<1>2. ASSUME IInv, [Next]_vars, NEW p \in late' \ late
      PROVE  OptedIn(p.reg)
  BY <1>2, OnlySent, SentIsOptedIn
<1>3. IInv /\ [Next]_vars =>
        /\ \A r \in Registers :
             ec'[r] # ec[r] =>
               /\ WithinPolicy(r, ec'[r])
               /\ OptedIn(r) \/ \E p \in late : p.reg = r /\ p.val = ec'[r]
        /\ \A p \in late' \ late : OptedIn(p.reg)
  BY <1>1, <1>2
<1> QED BY <1>3, Invariance, PTL DEF Spec, WritesWithinPolicy

\* A fan target reaches the EC only while both zones are manual.
THEOREM TargetCorrect == Spec => TargetOnlyWhenManual
<1>1. IInv /\ [Next]_vars =>
        \A z \in Zones : ec'[Rpm(z)] # ec[Rpm(z)] =>
          \A y \in Zones : ec[Power(y)].fan = "manual"
  <2> SUFFICES ASSUME IInv, [Next]_vars, NEW z \in Zones, ec'[Rpm(z)] # ec[Rpm(z)],
                      NEW y \in Zones
               PROVE  ec[Power(y)].fan = "manual"
    OBVIOUS
  <2>1. PICK p : Pending(p) /\ p.reg = Rpm(z)
    BY OnlyPackets, RegistersDiffer
  <2> QED BY <2>1, PendingPacket
<1> QED BY <1>1, Invariance, PTL DEF Spec, TargetOnlyWhenManual

-----------------------------------------------------------------------------
(* The link to the EC *)

\* A packet without an acknowledgement ends the job of the link.
LEMMA LinkFailed ==
  ASSUME inFlight, sent < Len(Packets), Unacknowledged(Packets[sent + 1]),
         inFlight' = FALSE, sent' = 0
  PROVE  Link!Failed
BY DEF Link!Failed, Unacknowledged, Some, None

\* The steps of the loop that leave the EC to itself.
Between ==
  \/ Serve \/ Reapplied \/ Accept \/ WouldBlock \/ EndConnection \/ PollPower
  \/ SkipPoll \/ Automated \/ Save \/ WriteFile \/ Shutdown \/ Stop

LEMMA BetweenOperations ==
  ASSUME IInv, Between
  PROVE  ~inFlight /\ UNCHANGED <<inFlight, sent, ec, late, fan_mode, profile, experimental>>
<1> USE DEF memory, backend
<1>1. \/ todo = <<>>
      \/ pc \in {"loop", "poll", "save", "write"}
  BY DEF Between, Serve, Query, Operate, SetFanRule, SetKbdRule, HandleLine, Reapplied, Accept,
         WouldBlock, BeginTurn, EndConnection, PollPower, SkipPoll, Automated, Save,
         WriteFile, Shutdown, Stop
<1>2. UNCHANGED <<inFlight, sent, ec, late, fan_mode, profile, experimental>>
  BY DEF Between, Serve, Query, Operate, SetFanRule, SetKbdRule, HandleLine, Reapplied, Accept,
         WouldBlock, BeginTurn, EndConnection, PollPower, SkipPoll, Automated, Save,
         WriteFile, Shutdown, Stop
<1> QED BY <1>1, <1>2 DEF IInv, ApplyInv, QuietInv

LEMMA LinkNext ==
  ASSUME IInv, [Next]_vars
  PROVE  [Link!Next]_(Link!vars)
<1> USE DEF memory, backend
<1>0. TypeOK /\ ApplyInv /\ QuietInv
  BY DEF IInv
<1>1. CASE Refuse
  BY <1>1 DEF Refuse, Link!vars
<1>2. CASE BeginApply
  <2>1. Head(todo) \in RequestedOperations /\ Context \in EcContexts
    BY <1>0, <1>2, HeadTail, ContextType DEF BeginApply, TypeOK
  <2>2. Packets' = Packets /\ WellFormed(Packets)
    BY <1>2, <2>1, PacketsWellFormed DEF BeginApply, Packets, Context
  <2>3. Packets # <<>> /\ \A i \in 1..Len(Packets) : IsWrite(Packets[i])
    BY <2>2 DEF WellFormed
  <2>4. Link!Begin
    BY <1>2, <2>2, <2>3 DEF BeginApply, Link!Begin
  <2> QED BY <2>4 DEF Link!Next
<1>3. CASE SendPacket
  <2>1. Packets' = Packets
    BY <1>3 DEF SendPacket, Packets, Context
  <2>2. Link!Acknowledged
    BY <1>3, <2>1 DEF SendPacket, Link!Acknowledged, None
  <2> QED BY <2>2 DEF Link!Next
<1>4. CASE PacketFails \/ (Crash /\ inFlight /\ sent < Len(Packets))
  <2>1. Link!Failed
    BY <1>4, LinkFailed DEF PacketFails, Crash
  <2> QED BY <2>1 DEF Link!Next
<1>5. CASE ApplyOk \/ (Crash /\ inFlight /\ ~(sent < Len(Packets)))
  <2>1. inFlight /\ todo # <<>> /\ inFlight' = FALSE /\ sent' = 0 /\ UNCHANGED <<ec, late>>
    BY <1>0, <1>5 DEF ApplyOk, Crash, ApplyInv
  <2>2. Len(Packets) \in 1..4
    BY <2>1, RunningOperation, PacketsWellFormed DEF Packets, WellFormed
  <2>3. sent = Len(Packets)
    <3>1. CASE ApplyOk
      BY <3>1 DEF ApplyOk
    <3>2. CASE ~(sent < Len(Packets))
      <4>1. sent <= Len(Packets) /\ sent \in 0..4
        BY <1>0, <2>1 DEF ApplyInv, TypeOK
      <4> QED BY <2>2, <3>2, <4>1
    <3> QED BY <1>5, <3>1, <3>2
  <2>4. Packets # <<>>
    BY <2>2
  <2>5. Link!Finished
    BY <2>1, <2>3, <2>4 DEF Link!Finished
  <2> QED BY <2>5 DEF Link!Next
<1>6. CASE Crash /\ ~inFlight
  BY <1>6 DEF Crash, Link!vars
<1>7. CASE LateWrite
  <2>1. UNCHANGED <<inFlight, sent, Packets>>
    BY <1>7 DEF LateWrite, Packets, Context
  <2>2. Link!LateWrite
    BY <1>7, <2>1 DEF LateWrite, Link!LateWrite, None
  <2> QED BY <2>2 DEF Link!Next
<1>8. CASE Start
  <2>1. ~inFlight
    BY <1>0, <1>8 DEF Start, Running, ApplyInv, QuietInv
  <2> QED BY <1>8, <2>1 DEF Start, Link!vars
<1>9. CASE Between
  BY <1>9, BetweenOperations DEF Link!vars
<1>10. CASE Signal \/ Replug \/ UNCHANGED vars
  <2>1. UNCHANGED <<inFlight, sent, ec, late, Packets>>
    BY <1>10 DEF Signal, Replug, vars, Packets, Context
  <2> QED BY <2>1 DEF Link!vars
<1> QED BY <1>1, <1>2, <1>3, <1>4, <1>5, <1>6, <1>7, <1>8, <1>9, <1>10
        DEF Next, DaemonStep, ClientStep, OwnStep, Apply, Between

\* The daemon uses the link as EcLink has it, on every device and whatever fails.
THEOREM LinkUsed == Spec => UsesLink
<1>1. Init => Link!Init
  BY InitInv DEF IInv, TypeOK, Init, Link!Init, None
<1>2. IInv /\ [Next]_vars => [Link!Next]_(Link!vars)
  BY LinkNext
<1> QED BY <1>1, <1>2, Invariance, PTL DEF Spec, UsesLink, Link!Spec

-----------------------------------------------------------------------------
(* The state file *)

InSync ==
  \/ saveFailed
  \/ file = Some(state)
  \/ unread /\ state = Factory

\* The operations that leave the settings as they are.
Settling(s) == {o \in RequestedOperations : Persist(s, o) = s}

\* Settings that differ from the file are marked dirty until they are saved;
\* what is applied at start-up is what they say already.
FileInv ==
  /\ pc \in {"loop", "failsafe", "stopped"} => InSync
  /\ pc \in {"serve", "poll", "automate", "save"} => dirty \/ InSync
  /\ pc = "reapply" => InSync /\ todo \in Seq(Settling(state))

LEMMA OptionMember ==
  ASSUME NEW S, NEW opt \in Option(S), NEW x \in opt
  PROVE  opt = Some(x) /\ x \in S
BY DEF Option, Some, None

\* Reapplying the settings sets nothing else.
LEMMA ReapplySettles ==
  ASSUME NEW s \in PersistedStates
  PROVE  reapply_persisted(s) \in Seq(Settling(s))
<1>1. /\ s.profile \in Option(Profiles) /\ s.fan \in Option(FanModes)
      /\ s.kbd_brightness \in Option(U8) /\ s.kbd_effect \in Option(LightingEffects)
      /\ s.logo \in Option(LogoModes) /\ s.battery_health \in BatteryHealths
  BY DEF PersistedStates
<1>2. /\ s = [s EXCEPT !.profile = s.profile] /\ s = [s EXCEPT !.fan = s.fan]
      /\ s = [s EXCEPT !.kbd_brightness = s.kbd_brightness]
      /\ s = [s EXCEPT !.kbd_effect = s.kbd_effect] /\ s = [s EXCEPT !.logo = s.logo]
      /\ s = [s EXCEPT !.battery_health = s.battery_health]
  BY DEF PersistedStates
<1>3. ASSUME NEW p \in s.profile PROVE ProfileOp(p) \in Settling(s)
  BY <1>1, <1>2, OptionMember, OperationTypes DEF Settling, Persist, ProfileOp
<1>4. ASSUME NEW m \in s.fan PROVE FanOp(m) \in Settling(s)
  BY <1>1, <1>2, OptionMember, OperationTypes DEF Settling, Persist, FanOp
<1>5. ASSUME NEW b \in s.kbd_brightness PROVE KbdOp(b) \in Settling(s)
  BY <1>1, <1>2, OptionMember, OperationTypes DEF Settling, Persist, KbdOp
<1>6. ASSUME NEW e \in s.kbd_effect PROVE EffectOp(e) \in Settling(s)
  BY <1>1, <1>2, OptionMember, OperationTypes DEF Settling, Persist, EffectOp
<1>7. ASSUME NEW l \in s.logo PROVE LogoOp(l) \in Settling(s)
  BY <1>1, <1>2, OptionMember, OperationTypes DEF Settling, Persist, LogoOp
<1>8. /\ {ProfileOp(p) : p \in s.profile} \in Option(Settling(s))
      /\ {FanOp(m) : m \in s.fan} \in Option(Settling(s))
      /\ {KbdOp(b) : b \in s.kbd_brightness} \in Option(Settling(s))
      /\ {EffectOp(e) : e \in s.kbd_effect} \in Option(Settling(s))
      /\ {LogoOp(l) : l \in s.logo} \in Option(Settling(s))
  BY <1>1, <1>3, <1>4, <1>5, <1>6, <1>7 DEF Option
<1>9. BhoOps(s.battery_health) \in Option(Settling(s))
  <2>1. CASE s.battery_health = BhoUnset
    BY <2>1, NoneIsOption DEF BhoOps, BhoUnset
  <2>2. CASE s.battery_health = BhoOff
    <3>1. BhoOffOp \in Settling(s)
      BY <2>2, <1>2, OperationTypes DEF Settling, Persist, BhoOffOp
    <3> QED
      BY <2>2, <3>1, SomeIsOption DEF BhoOps, BhoOff
  <2>3. ASSUME NEW n \in U8, s.battery_health = BhoLimit(n)
        PROVE  BhoOps(s.battery_health) \in Option(Settling(s))
    <3>1. BhoLimitOp(n) \in Settling(s)
      BY <2>3, <1>2, OperationTypes DEF Settling, Persist, BhoLimitOp
    <3> QED
      BY <2>3, <3>1, SomeIsOption DEF BhoOps, BhoLimit
  <2> QED
    BY <1>1, <2>1, <2>2, <2>3 DEF BatteryHealths, BhoLimit
<1>10. \A a, b, c, d, e, f \in Seq(Settling(s)) :
         a \o b \o c \o d \o e \o f \in Seq(Settling(s))
  OBVIOUS
<1> QED BY <1>8, <1>9, <1>10, OpSeqType DEF reapply_persisted

\* What a start loads is what the file says, or the factory settings.
LEMMA LoadedIsInSync ==
  ASSUME NEW f \in Option(PersistedStates), file = f, NEW read \in BOOLEAN, CanRead(read),
         NEW s \in Loaded(read)
  PROVE  /\ s \in PersistedStates
         /\ file = Some(s) \/ (~read /\ s = Factory)
<1>1. CASE ~read
  BY <1>1, StateTypes DEF Loaded, Some
<1>2. CASE read
  <2>1. s \in f
    BY <1>2 DEF Loaded
  <2>2. f = Some(s) /\ s \in PersistedStates
    BY <2>1, OptionMember
  <2> QED BY <2>2
<1> QED BY <1>1, <1>2

LEMMA FileNext ==
  ASSUME IInv, FileInv, [Next]_vars
  PROVE  FileInv'
<1> USE DEF memory, backend
<1>1. CASE Refuse \/ BeginApply \/ SendPacket \/ PacketFails
  <2>1. /\ UNCHANGED <<pc, state, dirty, file, unread, saveFailed>> /\ todo # <<>>
        /\ todo' = todo \/ todo' = Tail(todo)
    BY <1>1 DEF Refuse, BeginApply, SendPacket, PacketFails, IInv, ApplyInv
  <2>2. pc = "reapply" => todo' \in Seq(Settling(state))
    BY <2>1, HeadTail DEF FileInv
  <2> QED BY <2>1, <2>2 DEF FileInv, InSync, Settling
<1>2. CASE ApplyOk
  <2>1. /\ UNCHANGED <<pc, file, unread, saveFailed>> /\ todo # <<>> /\ todo' = Tail(todo)
        /\ IF pc = "failsafe" THEN UNCHANGED <<state, dirty>>
                              ELSE state' = Persist(state, Head(todo)) /\ dirty' = TRUE
    BY <1>2 DEF ApplyOk, IInv, ApplyInv
  <2>2. CASE pc = "reapply"
    <3>1. Head(todo) \in Settling(state) /\ Tail(todo) \in Seq(Settling(state))
      BY <2>1, <2>2, HeadTail DEF FileInv
    <3>2. state' = state
      BY <2>1, <2>2, <3>1 DEF Settling
    <3> QED BY <2>1, <2>2, <3>1, <3>2 DEF FileInv, InSync, Settling
  <2>3. CASE pc = "failsafe"
    BY <2>1, <2>3 DEF FileInv, InSync
  <2>4. CASE pc \notin {"reapply", "failsafe"}
    BY <2>1, <2>4 DEF FileInv, IInv, QuietInv
  <2> QED BY <2>2, <2>3, <2>4
<1>3. CASE Reapplied
  BY <1>3 DEF Reapplied, FileInv, InSync
<1>4. CASE Accept \/ WouldBlock \/ EndConnection \/ PollPower \/ SkipPoll \/ Automated
           \/ Shutdown \/ Stop
  <2>1. UNCHANGED <<state, dirty, file, unread, saveFailed>>
    BY <1>4 DEF Accept, WouldBlock, BeginTurn, EndConnection, PollPower, SkipPoll, Automated,
                Shutdown, Stop
  <2>2. \/ pc = "loop" /\ pc' \in {"serve", "poll", "failsafe"}
        \/ pc \in {"serve", "poll", "automate"} /\ pc' \in {"poll", "automate", "save"}
        \/ pc = "failsafe" /\ pc' = "stopped"
    BY <1>4 DEF Accept, WouldBlock, BeginTurn, EndConnection, PollPower, SkipPoll, Automated,
                Shutdown, Stop
  <2> QED BY <2>1, <2>2 DEF FileInv, InSync
<1>5. CASE Serve
  <2>1. /\ pc = "serve" /\ UNCHANGED <<pc, file, unread, saveFailed>>
        /\ dirty' = TRUE \/ UNCHANGED <<state, dirty>>
    BY <1>5 DEF Serve, Query, Operate, SetFanRule, SetKbdRule, HandleLine
  <2> QED BY <2>1 DEF FileInv, InSync
<1>6. CASE Save
  BY <1>6 DEF Save, FileInv, InSync
<1>7. CASE WriteFile
  BY <1>7 DEF WriteFile, FileInv, InSync
<1>8. CASE Start
  <2>1. /\ file' = file /\ file \in Option(PersistedStates)
        /\ pc' = "reapply" /\ todo' = reapply_persisted(state')
    BY <1>8 DEF Start, IInv, TypeOK
  <2>2. /\ state' \in PersistedStates
        /\ file = Some(state') \/ (unread' /\ state' = Factory)
    <3>1. PICK read \in BOOLEAN : CanRead(read) /\ state' \in Loaded(read) /\ unread' = ~read
      BY <1>8 DEF Start
    <3> QED BY <2>1, <3>1, LoadedIsInSync
  <2>3. todo' \in Seq(Settling(state'))
    BY <2>1, <2>2, ReapplySettles
  <2> QED BY <2>1, <2>2, <2>3 DEF FileInv, InSync, Settling
<1>9. CASE Crash
  BY <1>9 DEF Crash, FileInv
<1>10. CASE Signal \/ LateWrite \/ Replug \/ UNCHANGED vars
  <2>1. UNCHANGED <<pc, todo, state, dirty, file, unread, saveFailed>>
    BY <1>10 DEF Signal, LateWrite, Replug, vars
  <2> QED BY <2>1 DEF FileInv, InSync, Settling
<1> QED BY <1>1, <1>2, <1>3, <1>4, <1>5, <1>6, <1>7, <1>8, <1>9, <1>10
        DEF Next, DaemonStep, ClientStep, OwnStep, Apply

\* daemon_unix.rs:51-54: at the head of a turn and when the daemon stops the file
\* holds the settings, unless its last write failed or this process read none and
\* has changed nothing since, whatever clients, rules and a start over any file,
\* readable or not, did before (an invariant of daemon_faults).
THEOREM FileCorrect == Spec => []FileInSync
<1>1. Init => FileInv
  <2> SUFFICES ASSUME Init PROVE FileInv
    OBVIOUS
  <2> QED BY DEF Init, FileInv, InSync
<1>2. IInv /\ FileInv /\ [Next]_vars => FileInv'
  BY FileNext
<1>3. FileInv => FileInSync
  BY DEF FileInv, InSync, FileInSync
<1> QED BY <1>1, <1>2, <1>3, Invariance, PTL DEF Spec

-----------------------------------------------------------------------------
(* What the daemon keeps as long as every packet is acknowledged and no crash
   cuts an operation off; each theorem names what it asks of the environment *)

\* Every packet gets through, nothing cuts an operation off, and the daemon
\* finds the fans as firmware leaves them.
SoundLink ==
  /\ FaultyLink = FALSE /\ Crashes = FALSE
  /\ \A e \in InitialEcs, z \in Zones : e[Power(z)].fan = "auto"

\* The daemon is started with the same policy each time, its file can be
\* read and written, and the first one finds the performance mode it assumes.
SteadyStarts ==
  /\ \A x, y \in ExperimentalModes : x = y
  /\ SaveFails = FALSE /\ LoadFails = FALSE
  /\ \A e \in InitialEcs, z \in Zones : e[Power(z)].mode = mode_wire_value(Balanced)

-----------------------------------------------------------------------------
(* The power registers *)

\* The packets that write a zone's power register, and what they write.
LEMMA PowerPackets ==
  ASSUME NEW o \in RequestedOperations, NEW c \in EcContexts, NEW z \in Zones,
         NEW i \in 1..Len(operation_packets(o, c)), operation_packets(o, c)[i].reg = Power(z)
  PROVE  \/ /\ o.op = "fan"
            /\ operation_packets(o, c)[i].val = [mode |-> mode_wire_value(c.profile),
                                                 fan |-> o.mode.fan]
         \/ /\ o.op = "profile"
            /\ operation_packets(o, c)[i].val = [mode |-> mode_wire_value(o.profile),
                                                 fan |-> c.fan]
<1> USE DEF set_power_mode, set_fan_rpm, set_boost, Write
<1>0. Power(z) \in Touched(o, c)
  BY DEF Touched
<1>1. CASE o.op = "fan"
  <2>1. operation_packets(o, c) = FanPackets(o.mode, c) /\ o.mode.fan \in FanFlags
    BY <1>1, OperationFields, FanModeFields DEF operation_packets
  <2>2. CASE o.mode.fan = "manual"
    <3>1. operation_packets(o, c) =
            << set_power_mode("cpu", mode_wire_value(c.profile), "manual"),
               set_power_mode("gpu", mode_wire_value(c.profile), "manual"),
               set_fan_rpm("cpu", o.mode.rpm), set_fan_rpm("gpu", o.mode.rpm) >>
      BY <2>1, <2>2 DEF FanPackets
    <3>2. i \in 1..4
      BY <3>1
    <3> QED BY <1>1, <2>2, <3>1, <3>2, RegistersDiffer DEF Zones
  <2>3. CASE o.mode.fan = "auto"
    <3>1. operation_packets(o, c) =
            << set_power_mode("cpu", mode_wire_value(c.profile), "auto"),
               set_power_mode("gpu", mode_wire_value(c.profile), "auto") >>
      BY <2>1, <2>3 DEF FanPackets
    <3>2. i \in 1..2
      BY <3>1
    <3> QED BY <1>1, <2>3, <3>1, <3>2
  <2> QED BY <2>1, <2>2, <2>3 DEF FanFlags
<1>2. CASE o.op = "profile"
  <2>1. operation_packets(o, c) = ProfilePackets(o.profile, c) /\ o.profile \in Profiles
    BY <1>2, OperationFields DEF operation_packets
  <2>2. CASE boosts(o.profile) = None
    <3>1. operation_packets(o, c) =
            << set_power_mode("cpu", mode_wire_value(o.profile), c.fan),
               set_power_mode("gpu", mode_wire_value(o.profile), c.fan) >>
      BY <2>1, <2>2 DEF ProfilePackets
    <3>2. i \in 1..2
      BY <3>1
    <3> QED BY <1>2, <3>1, <3>2
  <2>3. CASE boosts(o.profile) # None
    <3>1. PICK l \in [Zones -> BoostLevels] :
            ProfilePackets(o.profile, c) =
              << set_power_mode("cpu", mode_wire_value(o.profile), c.fan),
                 set_power_mode("gpu", mode_wire_value(o.profile), c.fan),
                 set_boost("cpu", l["cpu"]), set_boost("gpu", l["gpu"]) >>
      BY <2>1, <2>3, PinnedPackets
    <3>2. i \in 1..4
      BY <2>1, <3>1
    <3> QED BY <1>2, <2>1, <3>1, <3>2, RegistersDiffer DEF Zones
  <2> QED BY <2>2, <2>3
<1>3. CASE o.op \notin {"fan", "profile"}
  <2>1. Touched(o, c) \subseteq Leds
    BY <1>3, TouchedBy, OperationFields DEF Leds
  <2> QED BY <1>0, <2>1, RegistersDiffer
<1> QED BY <1>1, <1>2, <1>3

\* A packet that went through leaves a zone's power register as it was, or as
\* the running operation wants it.
LEMMA PowerSent ==
  ASSUME IInv, SendPacket, NEW z \in Zones
  PROVE  \/ ec'[Power(z)] = ec[Power(z)]
         \/ /\ Head(todo).op = "fan"
            /\ ec'[Power(z)] = [mode |-> mode_wire_value(profile), fan |-> Head(todo).mode.fan]
         \/ /\ Head(todo).op = "profile"
            /\ ec'[Power(z)] = [mode |-> mode_wire_value(Head(todo).profile),
                                fan |-> fan_mode.fan]
<1> DEFINE p == Packets[sent + 1]
<1>1. /\ Head(todo) \in RequestedOperations /\ Context \in EcContexts
      /\ sent + 1 \in 1..Len(Packets) /\ IsWrite(p)
  BY RunningOperation, NextPacket DEF SendPacket, IInv
<1>2. ec' = EcAfter(ec, p) /\ IsEcState(ec) /\ Power(z) \in Registers
  BY RegistersDiffer DEF SendPacket, IInv, TypeOK
<1>3. /\ EcAfter(ec, p)[p.reg] = p.val
      /\ p.reg # Power(z) => EcAfter(ec, p)[Power(z)] = ec[Power(z)]
  BY <1>1, <1>2, WriteKeepsEc
<1>4. CASE p.reg = Power(z)
  BY <1>1, <1>2, <1>3, <1>4, PowerPackets DEF Packets, Context
<1> QED BY <1>2, <1>3, <1>4

-----------------------------------------------------------------------------
(* The fans *)

\* Between operations both zones are as the daemon believes; only a fan
\* operation may be half-way through changing that, and it will end.
StopInv ==
  /\ late = {} /\ pc # "crashed"
  /\ \A z \in Zones : \/ ec[Power(z)].fan = fan_mode.fan
                      \/ inFlight /\ Head(todo).op = "fan"
  /\ pc = "stopped" \/ (pc = "failsafe" /\ todo = <<>>) => fan_mode.fan = "auto"

LEMMA StopNext ==
  ASSUME SoundLink, IInv, StopInv, [Next]_vars
  PROVE  StopInv'
<1> USE DEF memory, backend
<1>0. TypeOK /\ ApplyInv /\ QuietInv /\ FailsafeInv
  BY DEF IInv
<1>1. CASE Refuse
  BY <1>0, <1>1 DEF Refuse, StopInv, QuietInv
<1>2. CASE BeginApply
  BY <1>2 DEF BeginApply, StopInv
<1>3. CASE SendPacket
  <2>1. UNCHANGED <<pc, todo, inFlight, fan_mode>> /\ inFlight /\ late' = {}
    BY <1>3 DEF SendPacket, None
  <2>2. ASSUME NEW z \in Zones
        PROVE  ec'[Power(z)].fan = fan_mode.fan \/ Head(todo).op = "fan"
    BY <1>3, <2>1, PowerSent DEF StopInv
  <2> QED BY <2>1, <2>2 DEF StopInv
<1>4. CASE PacketFails \/ Crash \/ LateWrite
  BY <1>4 DEF PacketFails, Crash, LateWrite, SoundLink, StopInv
<1>5. CASE ApplyOk
  <2>1. inFlight /\ todo # <<>> /\ ~inFlight' /\ UNCHANGED <<pc, ec, late>>
    BY <1>0, <1>5 DEF ApplyOk, ApplyInv
  <2>2. pc # "stopped"
    BY <1>0, <2>1 DEF QuietInv
  <2>3. \A z \in Zones : ec[Power(z)].fan = fan_mode'.fan
    <3>1. CASE Head(todo).op = "fan"
      BY <1>5, <3>1, Applied DEF IsSet
    <3>2. CASE Head(todo).op # "fan"
      BY <1>5, <3>2 DEF ApplyOk, StopInv
    <3> QED BY <3>1, <3>2
  <2>4. pc = "failsafe" => fan_mode'.fan = "auto"
    BY <1>0, <1>5, <2>1, FanModeFields DEF ApplyInv, ApplyOk, FanOp
  <2> QED BY <2>1, <2>2, <2>3, <2>4 DEF StopInv
<1>6. CASE Between
  <2>1. ~inFlight /\ UNCHANGED <<inFlight, ec, late, fan_mode>>
    BY <1>6, BetweenOperations
  <2>2. CASE Shutdown
    <3>1. fan_mode.fan \in FanFlags
      BY <1>0, FanModeFields DEF TypeOK
    <3> QED BY <2>1, <2>2, <3>1 DEF Shutdown, failsafe_ops, StopInv, FanFlags
  <2>3. CASE Stop
    BY <2>1, <2>3 DEF Stop, StopInv
  <2>4. CASE ~Shutdown /\ ~Stop
    <3>1. pc' \notin {"stopped", "failsafe", "crashed"}
      BY <1>6, <2>4 DEF Between, Serve, Query, Operate, SetFanRule, SetKbdRule, HandleLine,
             Reapplied, Accept, WouldBlock, BeginTurn, EndConnection, PollPower, SkipPoll,
             Automated, Save, WriteFile
    <3> QED BY <2>1, <3>1 DEF StopInv
  <2> QED BY <2>2, <2>3, <2>4
<1>7. CASE Start
  <2>1. pc = "stopped" /\ ~inFlight
    BY <1>0, <1>7 DEF Start, Running, StopInv, QuietInv, ApplyInv
  <2>2. \A z \in Zones : ec[Power(z)].fan = "auto"
    BY <2>1 DEF StopInv
  <2> QED BY <1>7, <2>2, FanModeFields DEF Start, StopInv, None
<1>8. CASE Signal \/ Replug \/ UNCHANGED vars
  BY <1>8 DEF Signal, Replug, vars, StopInv
<1> QED BY <1>1, <1>2, <1>3, <1>4, <1>5, <1>6, <1>7, <1>8
        DEF Next, DaemonStep, ClientStep, OwnStep, Apply, Between

LEMMA StopInit == SoundLink /\ Init => StopInv
BY FanModeFields DEF SoundLink, Init, StopInv, None

\* README.md:60-62, daemon.rs:292: after a clean stop no fan zone is manual,
\* whatever clients, rules and state files asked for before.
THEOREM StopCorrect ==
  ASSUME SoundLink
  PROVE  Spec => []StoppedMeansAutomatic
<1>1. Init => StopInv
  BY StopInit
<1>2. IInv /\ StopInv /\ [Next]_vars => StopInv'
  BY StopNext
<1>3. IInv /\ StopInv => StoppedMeansAutomatic
  <2> SUFFICES ASSUME IInv, StopInv, pc = "stopped", NEW z \in Zones
               PROVE  ec[Power(z)].fan = "auto"
    BY DEF StoppedMeansAutomatic
  <2>1. ~inFlight
    BY DEF IInv, ApplyInv, QuietInv
  <2> QED BY <2>1 DEF StopInv
<1> QED BY <1>1, <1>2, <1>3, Invariance, PTL DEF Spec

-----------------------------------------------------------------------------
(* The performance mode *)

\* The next thing to be applied is a profile, and nothing will refuse it.
ProfileNext ==
  /\ todo # <<>> /\ Head(todo).op = "profile"
  /\ inFlight \/ (pc = "reapply" /\ validate_operation(Head(todo), experimental))

\* A profile the daemon has set is one the next start sets again.
Remembered ==
  /\ state.profile = Some(profile)
  /\ \A x \in ExperimentalModes : validate_operation(ProfileOp(profile), x)

\* The EC's mode byte is the one of the daemon's profile, also when a start
\* finds another one there: the persisted profile is the first thing applied.
ModeInv ==
  /\ saveFailed = FALSE
  /\ Running => experimental \in ExperimentalModes
  /\ \A z \in Zones : ec[Power(z)].mode = mode_wire_value(profile) \/ ProfileNext
  /\ profile = Balanced \/ Remembered

LEMMA SameProfile ==
  ASSUME NEW s \in PersistedStates, NEW o \in RequestedOperations, o.op # "profile"
  PROVE  Persist(s, o).profile = s.profile
BY OperationFields DEF Persist, PersistedStates

LEMMA ProfileAccepted ==
  ASSUME NEW o \in RequestedOperations, o.op = "profile", NEW x, validate_operation(o, x)
  PROVE  validate_operation(ProfileOp(o.profile), x)
BY DEF validate_operation, ProfileOp

\* A persisted profile is the first operation of a start.
LEMMA ProfileFirst ==
  ASSUME NEW s \in PersistedStates, NEW p \in Profiles, s.profile = Some(p)
  PROVE  reapply_persisted(s) # <<>> /\ Head(reapply_persisted(s)) = ProfileOp(p)
<1>1. OpSeq({ProfileOp(q) : q \in s.profile}) = <<ProfileOp(p)>>
  <2>1. {ProfileOp(q) : q \in s.profile} = {ProfileOp(p)}
    BY DEF Some
  <2> QED BY <2>1 DEF OpSeq, None
<1>2. /\ {FanOp(m) : m \in s.fan} \in Option(RequestedOperations)
      /\ {KbdOp(b) : b \in s.kbd_brightness} \in Option(RequestedOperations)
      /\ {EffectOp(e) : e \in s.kbd_effect} \in Option(RequestedOperations)
      /\ {LogoOp(l) : l \in s.logo} \in Option(RequestedOperations)
  BY OperationTypes DEF PersistedStates, Option
<1>3. BhoOps(s.battery_health) \in Option(RequestedOperations)
  BY SomeIsOption, NoneIsOption, OperationTypes
  DEF PersistedStates, BatteryHealths, BhoOps, BhoUnset, BhoOff
<1>4. \A a, b, c, d, e \in Seq(RequestedOperations) :
        /\ <<ProfileOp(p)>> \o a \o b \o c \o d \o e # <<>>
        /\ Head(<<ProfileOp(p)>> \o a \o b \o c \o d \o e) = ProfileOp(p)
  <2> DEFINE Starts(q) == q \in Seq(RequestedOperations) /\ Len(q) >= 1 /\ q[1] = ProfileOp(p)
  <2>1. Starts(<<ProfileOp(p)>>)
    BY OperationTypes
  <2>2. \A q, a \in Seq(RequestedOperations) : Starts(q) => Starts(q \o a)
    OBVIOUS
  <2>3. \A q \in Seq(RequestedOperations) : Starts(q) => q # <<>> /\ Head(q) = ProfileOp(p)
    OBVIOUS
  <2>4. \A q : Starts(q) => q \in Seq(RequestedOperations)
    OBVIOUS
  <2> HIDE DEF Starts
  <2>10. ASSUME NEW q, Starts(q)
         PROVE  q # <<>> /\ Head(q) = ProfileOp(p)
    BY <2>3, <2>4, <2>10
  <2> SUFFICES ASSUME NEW a \in Seq(RequestedOperations), NEW b \in Seq(RequestedOperations),
                      NEW c \in Seq(RequestedOperations), NEW d \in Seq(RequestedOperations),
                      NEW e \in Seq(RequestedOperations)
               PROVE  /\ <<ProfileOp(p)>> \o a \o b \o c \o d \o e # <<>>
                      /\ Head(<<ProfileOp(p)>> \o a \o b \o c \o d \o e) = ProfileOp(p)
    OBVIOUS
  <2>5. Starts(<<ProfileOp(p)>> \o a)
    BY <2>1, <2>2, <2>4
  <2>6. Starts(<<ProfileOp(p)>> \o a \o b)
    BY <2>2, <2>4, <2>5
  <2>7. Starts(<<ProfileOp(p)>> \o a \o b \o c)
    BY <2>2, <2>4, <2>6
  <2>8. Starts(<<ProfileOp(p)>> \o a \o b \o c \o d)
    BY <2>2, <2>4, <2>7
  <2>9. Starts(<<ProfileOp(p)>> \o a \o b \o c \o d \o e)
    BY <2>2, <2>4, <2>8
  <2> QED BY <2>9, <2>10, Zenon
<1> DEFINE fan    == OpSeq({FanOp(m) : m \in s.fan})
           bho    == OpSeq(BhoOps(s.battery_health))
           kbd    == OpSeq({KbdOp(b) : b \in s.kbd_brightness})
           effect == OpSeq({EffectOp(e) : e \in s.kbd_effect})
           logo   == OpSeq({LogoOp(l) : l \in s.logo})
<1>5. {fan, bho, kbd, effect, logo} \subseteq Seq(RequestedOperations)
  BY <1>2, <1>3, OpSeqType
<1>6. reapply_persisted(s) = <<ProfileOp(p)>> \o fan \o bho \o kbd \o effect \o logo
  BY <1>1 DEF reapply_persisted
<1> HIDE DEF fan, bho, kbd, effect, logo
<1> QED BY <1>4, <1>5, <1>6

\* A start puts back the profile the daemon had set before.
LEMMA ModeAtStart ==
  ASSUME SteadyStarts, IInv, FileInv, StopInv, ModeInv, Start
  PROVE  ModeInv'
<1>1. /\ pc = "stopped" /\ ~inFlight /\ todo = <<>> /\ saveFailed = FALSE
      /\ file \in Option(PersistedStates)
  BY DEF Start, Running, StopInv, ModeInv, IInv, TypeOK, QuietInv, ApplyInv
<1>2. /\ pc' = "reapply" /\ profile' = Balanced /\ ec' = ec
      /\ todo' = reapply_persisted(state') /\ saveFailed' = FALSE
      /\ experimental' \in ExperimentalModes
  BY DEF Start
<1>3. \A z \in Zones : ec[Power(z)].mode = mode_wire_value(profile)
  BY <1>1 DEF ModeInv, ProfileNext
<1>4. CASE profile = Balanced
  BY <1>2, <1>3, <1>4 DEF ModeInv
<1>5. CASE Remembered
  <2>1. profile \in Profiles /\ state \in PersistedStates
    BY DEF IInv, TypeOK
  <2>2. state # Factory
    BY <1>5 DEF Remembered, Factory, DefaultState, Some, None
  <2>3. file = Some(state)
    BY <1>1, <2>2 DEF FileInv, InSync
  <2>4. state' = state
    <3>1. PICK read \in BOOLEAN : CanRead(read) /\ state' \in Loaded(read)
      BY DEF Start
    <3>2. read
      BY <2>3, <3>1 DEF CanRead, SteadyStarts, Some, None
    <3> QED BY <2>3, <3>1, <3>2 DEF Loaded, Some
  <2>5. todo' # <<>> /\ Head(todo') = ProfileOp(profile)
    BY <1>2, <1>5, <2>1, <2>4, ProfileFirst DEF Remembered
  <2>6. ProfileNext'
    BY <1>2, <1>5, <2>5 DEF Remembered, ProfileNext, ProfileOp
  <2> QED BY <1>2, <2>6 DEF ModeInv
<1> QED BY <1>4, <1>5 DEF ModeInv

LEMMA ModeNext ==
  ASSUME SoundLink, SteadyStarts, IInv, FileInv, StopInv, ModeInv, [Next]_vars
  PROVE  ModeInv'
<1> USE DEF memory, backend
<1>0. TypeOK /\ ApplyInv /\ QuietInv
  BY DEF IInv
<1>1. CASE Refuse
  <2>1. /\ ~ProfileNext /\ Running
        /\ UNCHANGED <<pc, saveFailed, experimental, profile, state, ec>>
    BY <1>0, <1>1 DEF Refuse, ProfileNext, Running, QuietInv
  <2> QED BY <2>1 DEF ModeInv, Running, Remembered
<1>2. CASE BeginApply
  <2>1. /\ ProfileNext => ProfileNext'
        /\ UNCHANGED <<pc, saveFailed, experimental, profile, state, ec>>
    BY <1>2 DEF BeginApply, ProfileNext
  <2> QED BY <2>1 DEF ModeInv, Running, Remembered
<1>3. CASE SendPacket
  <2>1. /\ UNCHANGED <<pc, saveFailed, experimental, profile, state, todo, inFlight>>
        /\ inFlight /\ todo # <<>>
    BY <1>0, <1>3 DEF SendPacket, ApplyInv
  <2>2. ASSUME NEW z \in Zones
        PROVE  ec'[Power(z)].mode = mode_wire_value(profile) \/ ProfileNext'
    <3>1. Head(todo).op = "profile" => ProfileNext'
      BY <2>1 DEF ProfileNext
    <3>2. Head(todo).op # "profile" => ec[Power(z)].mode = mode_wire_value(profile)
      BY DEF ModeInv, ProfileNext
    <3>3. \/ ec'[Power(z)] = ec[Power(z)]
          \/ Head(todo).op = "fan" /\ ec'[Power(z)].mode = mode_wire_value(profile)
          \/ Head(todo).op = "profile"
      BY <1>3, PowerSent
    <3> QED BY <3>1, <3>2, <3>3
  <2> QED BY <2>1, <2>2 DEF ModeInv, Running, Remembered
<1>4. CASE PacketFails \/ Crash \/ LateWrite
  BY <1>4 DEF PacketFails, Crash, LateWrite, SoundLink, StopInv
<1>5. CASE ApplyOk
  <2>1. /\ inFlight /\ todo # <<>> /\ Running
        /\ UNCHANGED <<pc, saveFailed, experimental, ec>>
    BY <1>0, <1>5 DEF ApplyOk, ApplyInv, QuietInv, Running
  <2>2. Head(todo) \in RequestedOperations /\ validate_operation(Head(todo), experimental)
    BY <2>1, RunningOperation
  <2>3. CASE Head(todo).op = "profile"
    <3>1. pc # "failsafe"
      BY <1>0, <2>1, <2>3 DEF ApplyInv, FanOp
    <3>2. profile' = Head(todo).profile /\ state' = Persist(state, Head(todo))
      BY <1>5, <2>3, <3>1 DEF ApplyOk
    <3>3. state'.profile = Some(profile')
      BY <1>0, <2>3, <3>2 DEF Persist, TypeOK, PersistedStates
    <3>4. validate_operation(ProfileOp(profile'), experimental)
      BY <2>2, <2>3, <3>2, ProfileAccepted
    <3>5. Remembered'
      BY <2>1, <3>3, <3>4 DEF Remembered, SteadyStarts, ModeInv
    <3>6. \A z \in Zones : ec[Power(z)].mode = mode_wire_value(profile')
      BY <1>5, <2>3, <3>2, Applied DEF IsSet
    <3> QED BY <2>1, <3>5, <3>6 DEF ModeInv, Running
  <2>4. CASE Head(todo).op # "profile"
    <3>1. profile' = profile /\ state' \in {state, Persist(state, Head(todo))}
      BY <1>5, <2>4 DEF ApplyOk
    <3>2. state'.profile = state.profile
      BY <1>0, <2>2, <2>4, <3>1, SameProfile DEF TypeOK
    <3>3. ~ProfileNext
      BY <2>4 DEF ProfileNext
    <3> QED BY <2>1, <3>1, <3>2, <3>3 DEF ModeInv, Running, Remembered
  <2> QED BY <2>3, <2>4
<1>6. CASE Between
  <2>1. ~inFlight /\ UNCHANGED <<inFlight, ec, profile, experimental>>
    BY <1>6, BetweenOperations
  <2>2. state'.profile = state.profile
    BY <1>0, <1>6 DEF Between, Serve, Query, Operate, SetFanRule, SetKbdRule, HandleLine,
             Reapplied, Accept, WouldBlock, BeginTurn, EndConnection, PollPower, SkipPoll,
             Automated, Save, WriteFile, Shutdown, Stop, TypeOK, PersistedStates
  <2>3. ~ProfileNext /\ Running
    BY <1>6, <2>1 DEF ProfileNext, Running, Between, Serve, Query, Operate, SetFanRule,
             SetKbdRule, HandleLine, Reapplied, Accept, WouldBlock, BeginTurn, EndConnection,
             PollPower, SkipPoll, Automated, Save, WriteFile, Shutdown, Stop
  <2>4. saveFailed' = FALSE
    BY <1>6 DEF Between, Serve, Query, Operate, SetFanRule, SetKbdRule, HandleLine,
             Reapplied, Accept, WouldBlock, BeginTurn, EndConnection, PollPower, SkipPoll,
             Automated, Save, WriteFile, Shutdown, Stop, SteadyStarts, ModeInv
  <2> QED BY <2>1, <2>2, <2>3, <2>4 DEF ModeInv, Remembered
<1>7. CASE Start
  BY <1>7, ModeAtStart
<1>8. CASE Signal \/ Replug \/ UNCHANGED vars
  <2>1. UNCHANGED <<pc, saveFailed, experimental, profile, state, ec, todo, inFlight>>
    BY <1>8 DEF Signal, Replug, vars
  <2> QED BY <2>1 DEF ModeInv, Running, Remembered, ProfileNext
<1> QED BY <1>1, <1>2, <1>3, <1>4, <1>5, <1>6, <1>7, <1>8
        DEF Next, DaemonStep, ClientStep, OwnStep, Apply, Between

\* Neither operation changes the half of the register that is the other's.
LEMMA KeepsTheOther ==
  ASSUME SoundLink, IInv, StopInv, ModeInv, [Next]_vars, inFlight, NEW z \in Zones
  PROVE  /\ Head(todo).op = "fan" => ec'[Power(z)].mode = ec[Power(z)].mode
         /\ Head(todo).op = "profile" => ec'[Power(z)].fan = ec[Power(z)].fan
<1> USE DEF memory, backend
<1>1. /\ Head(todo).op = "fan" => ec[Power(z)].mode = mode_wire_value(profile)
      /\ Head(todo).op = "profile" => ec[Power(z)].fan = fan_mode.fan
  BY DEF ModeInv, ProfileNext, StopInv
<1>2. CASE SendPacket
  BY <1>1, <1>2, PowerSent
<1>3. CASE PacketFails \/ Crash \/ LateWrite
  BY <1>3 DEF PacketFails, Crash, LateWrite, SoundLink, StopInv
<1>4. CASE Refuse \/ BeginApply \/ ApplyOk \/ Start \/ Signal \/ Replug \/ UNCHANGED vars
  BY <1>4 DEF Refuse, BeginApply, ApplyOk, Start, Signal, Replug, vars
<1>5. CASE Between
  BY <1>5, BetweenOperations
<1> QED BY <1>2, <1>3, <1>4, <1>5 DEF Next, DaemonStep, ClientStep, OwnStep, Apply, Between

\* lib.rs:146-149, protocol.rs:462-464: a fan operation, the failsafe among
\* them, leaves the performance mode alone, and a profile the manual flag,
\* through any number of restarts.
THEOREM NeitherResetsCorrect ==
  ASSUME SoundLink, SteadyStarts
  PROVE  Spec => NeitherResetsTheOther
<1>1. Init => StopInv /\ FileInv /\ ModeInv
  <2> SUFFICES ASSUME Init PROVE StopInv /\ FileInv /\ ModeInv
    OBVIOUS
  <2>1. StopInv
    BY StopInit
  <2>3. FileInv
    BY DEF Init, FileInv, InSync
  <2>4. ModeInv
    BY DEF Init, ModeInv, SteadyStarts, Running
  <2> QED BY <2>1, <2>3, <2>4
<1>2. IInv /\ StopInv /\ FileInv /\ ModeInv /\ [Next]_vars => StopInv' /\ FileInv' /\ ModeInv'
  BY StopNext, FileNext, ModeNext
<1>3. IInv /\ StopInv /\ ModeInv /\ [Next]_vars =>
        (inFlight =>
           \A z \in Zones :
             /\ Head(todo).op = "fan" => ec'[Power(z)].mode = ec[Power(z)].mode
             /\ Head(todo).op = "profile" => ec'[Power(z)].fan = ec[Power(z)].fan)
  BY KeepsTheOther
<1> QED BY <1>1, <1>2, <1>3, Invariance, PTL DEF Spec, NeitherResetsTheOther

=============================================================================
