--------------------------- MODULE MCHidExchange ---------------------------
(***************************************************************************)
(* Small instances of HidExchange for TLC.                                 *)
(***************************************************************************)
EXTENDS HidExchange

FreshEc ==
  [r \in Registers |->
     CASE r[1] = "power" -> [mode |-> 0, fan |-> "auto"]
       [] r[1] = "rpm"   -> 30
       [] r[1] = "boost" -> "low"
       [] r = Bho        -> [limiter |-> "on", threshold |-> 70]
       [] r = Brightness -> 255
       [] r = Matrix     -> [name |-> "spectrum"]
       [] r = LogoState  -> "on"
       [] r = LogoEffect -> "static"]
MCInitialEcs == {FreshEc}

AnyContext == [profile |-> Gaming, fan |-> "auto"]

\* Four packets of which two pairs share a command, and a single one.
MCJobs == {operation_packets(o, AnyContext) : o \in {FanOp(FanManual(3500)), BhoLimitOp(60)}}

\* One of each kind: a broken frame, a corrupted one of each status, and the
\* reply to another program.
OneEach ==
  {b \in NoiseAssumed :
     /\ b.command = Command(Power("cpu"))
     /\ <<b.form, b.echo, b.checksum>> \in { <<"broken", "ours", "fits">>,
                                             <<"whole", "ours", "neither">>,
                                             <<"whole", "other", "fits">> }}
=============================================================================
