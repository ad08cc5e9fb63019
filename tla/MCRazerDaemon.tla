--------------------------- MODULE MCRazerDaemon ---------------------------
(***************************************************************************)
(* Small instances of RazerDaemon for TLC.                                 *)
(***************************************************************************)
EXTENDS RazerDaemon

Ops(S) == {OperationReq(o) : o \in S}

\* The EC as firmware leaves it: automatic fans, Balanced.
FreshEc ==
  [r \in Registers |->
     CASE r[1] = "power" -> [mode |-> 0, fan |-> "auto"]
       [] r[1] = "rpm"   -> 30
       [] r[1] = "boost" -> "low"
       [] r = Bho        -> [limiter |-> "on", threshold |-> 70]
       [] r = Brightness -> 255
       [] r = Matrix     -> [name |-> "spectrum"]
       [] r = LogoState  -> "on"
       [] r = LogoEffect -> "static"]
MCInitialEcs == {FreshEc}

\* As the factory settings leave it.
SettledEcs == {[FreshEc EXCEPT ![Bho].threshold = 80, ![Brightness] = 102]}

-----------------------------------------------------------------------------
(* Fans, profiles and the fan rules *)

FanRequests ==
  Ops({FanOp(FanAuto), FanOp(FanManual(3550)), ProfileOp(Silent)})
    \cup {AutomationReq("ac", Some(FanManual(3550))), AutomationReq("ac", None),
          KbdAutomationReq("battery", Some(20)), QueryReq}

FanFiles == {None, Some([DefaultState EXCEPT !.fan = Some(FanManual(2000)),
                                             !.profile = Some(Gaming),
                                             !.battery_health = BhoOff])}

\* The first start: no state file, so nothing is applied to the EC.
NoFile == {None}

-----------------------------------------------------------------------------
(* A faulty link, crashes, a hand-edited state file *)

FaultRequests ==
  Ops({FanOp(FanManual(3550)), ProfileOp(Silent)})

\* Every value but the last is outside the policy.
HandEditedFiles ==
  {Some([DefaultState EXCEPT
                 !.fan            = Some(FanManual(65535)),
                 !.battery_health = BhoLimit(255),
                 !.profile        = Some(Custom("boost", "boost")),
                 !.kbd_brightness = Some(200),
                 !.fan_on_ac      = Some(FanManual(1999)),
                 !.fan_on_battery = Some(FanAuto)])}

-----------------------------------------------------------------------------
(* Lighting on a faulty link, with a client that never stops sending *)

LightRequests ==
  Ops({LogoOp("breathing"), FanOp(FanManual(3550))}) \cup {KbdAutomationReq("ac", Some(101))}

\* The logo and keyboard settings are applied at every start.
LightFiles ==
  {Some([DefaultState EXCEPT !.logo = Some("off"), !.kbd_brightness = Some(33)])}
=============================================================================
