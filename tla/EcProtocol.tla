----------------------------- MODULE EcProtocol -----------------------------
(***************************************************************************)
(* The wire protocol (src/src/protocol.rs) at the level of registers.  The *)
(* embedded controller (EC) is a set of registers, one per command and     *)
(* target; a packet is a write of one register.  operation_packets gives   *)
(* the packets of an accepted operation in the order they are sent.        *)
(***************************************************************************)
EXTENDS RazerPolicy, Sequences

Power(z)   == <<"power", z>>      \* 0x0d/0x02: mode byte and manual-fan flag
Rpm(z)     == <<"rpm", z>>        \* 0x0d/0x01: fan target in hundreds of RPM
Boost(z)   == <<"boost", z>>      \* 0x0d/0x07: power level of the Custom mode
Bho        == <<"bho", "battery">>       \* 0x07/0x12: enable bit and threshold
Brightness == <<"brightness", "kbd">>    \* 0x03/0x03: 0-255
Matrix     == <<"effect", "kbd">>        \* 0x03/0x0a: matrix effect
LogoState  == <<"state", "logo">>        \* 0x03/0x00: on or off
LogoEffect == <<"effect", "logo">>       \* 0x03/0x02: static or breathing

Registers == (({"power", "rpm", "boost"}) \X Zones)
               \cup {Bho, Brightness, Matrix, LogoState, LogoEffect}

\* The values a register can hold; one byte where the wire has one.
Values(r) ==
  CASE r[1] = "power"      -> [mode : {0, 1, 4}, fan : FanFlags]
    [] r[1] = "rpm"        -> U8
    [] r[1] = "boost"      -> BoostLevels
    [] r = Bho             -> [limiter : {"on", "off"}, threshold : U8]
    [] r = Brightness      -> U8
    [] r = Matrix          -> LightingEffects
    [] r = LogoState       -> {"on", "off"}
    [] r = LogoEffect      -> {"static", "breathing"}

IsEcState(e) == /\ e = [r \in Registers |-> e[r]]
                /\ \A r \in Registers : e[r] \in Values(r)

\* A packet, and what the EC does with one it executes.
Write(r, v)    == [reg |-> r, val |-> v]
EcAfter(e, p)  == [e EXCEPT ![p.reg] = p.val]
IsWrite(p)     == p.reg \in Registers /\ p.val \in Values(p.reg)

-----------------------------------------------------------------------------
set_power_mode(z, mode, fan) == Write(Power(z), [mode |-> mode, fan |-> fan])
set_boost(z, level)             == Write(Boost(z), level)

\* A plausible slip: the RPM itself where the wire has hundreds of RPM.
set_fan_rpm_raw(z, rpm)         == Write(Rpm(z), rpm)
set_fan_rpm(z, rpm)             == Write(Rpm(z), (rpm \div 100) % 256)

set_keyboard_brightness(percent) == Write(Brightness, ((percent * 255) \div 100) % 256)

set_battery_health(limiter, threshold) ==
  Write(Bho, [limiter |-> limiter, threshold |-> threshold % 128])

\* EcContext: what the encoding of other operations depends on.
EcContexts == [profile : Profiles, fan : FanFlags]

-----------------------------------------------------------------------------
(* One operator per arm of operation_packets *)

\* Plausible slips: the context's mode byte forgotten, the GPU zone left behind,
\* and each zone's target sent along with its mode.
FanPacketsResetMode(mode, context) ==
  << set_power_mode("cpu", 0, mode.fan), set_power_mode("gpu", 0, mode.fan) >>

FanPacketsOneZone(mode, context) ==
  LET byte == mode_wire_value(context.profile)
  IN  IF mode.fan = "manual"
        THEN << set_power_mode("cpu", byte, "manual"), set_power_mode("gpu", byte, "manual"),
                set_fan_rpm("cpu", mode.rpm), set_fan_rpm("gpu", mode.rpm) >>
        ELSE << set_power_mode("cpu", byte, "auto") >>

FanPacketsInterleaved(mode, context) ==
  LET byte == mode_wire_value(context.profile)
  IN  << set_power_mode("cpu", byte, mode.fan), set_fan_rpm("cpu", mode.rpm),
         set_power_mode("gpu", byte, mode.fan), set_fan_rpm("gpu", mode.rpm) >>

\* Both zones are flipped to manual before either target is written.
FanPackets(mode, context) ==
  LET byte == mode_wire_value(context.profile)
  IN  IF mode.fan = "manual"
        THEN << set_power_mode("cpu", byte, "manual"), set_power_mode("gpu", byte, "manual"),
                set_fan_rpm("cpu", mode.rpm), set_fan_rpm("gpu", mode.rpm) >>
        ELSE << set_power_mode("cpu", byte, "auto"), set_power_mode("gpu", byte, "auto") >>

\* A plausible slip: the manual flag of the context forgotten.
ProfilePacketsResetFan(profile, context) ==
  LET byte == mode_wire_value(profile)
  IN  << set_power_mode("cpu", byte, "auto"), set_power_mode("gpu", byte, "auto") >>

ProfilePackets(profile, context) ==
  LET byte  == mode_wire_value(profile)
      flag  == context.fan
      level == CHOOSE b \in boosts(profile) : TRUE
  IN  IF boosts(profile) = None
        THEN << set_power_mode("cpu", byte, flag), set_power_mode("gpu", byte, flag) >>
        ELSE << set_power_mode("cpu", byte, flag), set_power_mode("gpu", byte, flag),
                set_boost("cpu", level["cpu"]), set_boost("gpu", level["gpu"]) >>

\* A plausible slip: the LED of a logo that was off is not switched on.
LogoPacketsEffectOnly(mode) ==
  IF mode = "off" THEN << Write(LogoState, "off") >> ELSE << Write(LogoEffect, mode) >>

LogoPackets(mode) ==
  IF mode = "off" THEN << Write(LogoState, "off") >>
                  ELSE << Write(LogoState, "on"), Write(LogoEffect, mode) >>

\* Disabling the optimizer always sends 80 along with the cleared flag.
operation_packets(o, context) ==
  CASE o.op = "fan"       -> FanPackets(o.mode, context)
    [] o.op = "bho_limit" -> << set_battery_health("on", o.limit) >>
    [] o.op = "bho_off"   -> << set_battery_health("off", 80) >>
    [] o.op = "profile"   -> ProfilePackets(o.profile, context)
    [] o.op = "kbd"       -> << set_keyboard_brightness(o.percent) >>
    [] o.op = "effect"    -> << Write(Matrix, o.effect) >>
    [] o.op = "logo"      -> LogoPackets(o.logo)

\* The registers an operation writes.
Touched(o, context) ==
  {operation_packets(o, context)[i].reg : i \in 1..Len(operation_packets(o, context))}
=============================================================================
