--------------------------- MODULE SwitchControl ---------------------------
(***************************************************************************)
(* A switch, its slider and the daemon behind them: the fan group          *)
(* (desktop/src/app/pages/cooling.rs) and the battery page (battery.rs).   *)
(*                                                                         *)
(* The switch sends a request at once, the slider when it has rested for   *)
(* 300 ms.  Each request runs in a worker thread of its own with its own   *)
(* connection, so requests may overtake each other.  The window is seeded  *)
(* from the daemon once and never corrected afterwards.                    *)
(***************************************************************************)
EXTENDS Integers, Sequences, SequencesExt

CONSTANTS
  Positions,    (* the slider's range                                      *)
  Default,      (* where it stands when the daemon reports no value        *)
  Step,         (* the slider snaps to multiples of this, 1 for no snap    *)
  MaxWorkers,   (* bound: the user waits while so many requests run        *)
  Overtaking,   (* whether requests overtake each other                    *)
  Disturbed     (* requests fail, the daemon stops, others set it, and the
                   window is closed                                        *)

\* Half a step rounds up.
Snap(v) == ((v + (Step \div 2)) \div Step) * Step

ASSUME ControlAssumption ==
  /\ Positions \subseteq Nat /\ Default \in Positions
  /\ Step \in Nat \ {0} /\ \A v \in Positions : Snap(v) \in Positions
  /\ MaxWorkers \in Nat /\ Overtaking \in BOOLEAN /\ Disturbed \in BOOLEAN

\* A request, and what the daemon has been set to: off ("fan auto", "bho off")
\* or on with a value ("fan manual 3800", "bho 60").
Off      == {}
On(v)    == {v}
Settings == {Off} \cup {On(v) : v \in Positions}

VARIABLES
  open,        (* the window is there                                      *)
  sensitive,   (* its pages are: the last poll reached the daemon          *)
  snapshot,    (* a poll's answer on its way, {} when there is none        *)
  on,          (* the switch                                               *)
  value,       (* the slider                                               *)
  timer,       (* what the pending debounce timer will send, {} for none   *)
  workers,     (* requests on their way, in the order they were started    *)
  asked,       (* history: the last of them since the window was seeded    *)
  setting,     (* the daemon: what it is set to                            *)
  up           (*             it can be reached                            *)

widgets == <<on, value, timer>>
daemon  == <<setting, up>>
vars    == <<open, sensitive, snapshot, widgets, workers, asked, daemon>>

TypeOK ==
  /\ open \in BOOLEAN /\ sensitive \in BOOLEAN /\ on \in BOOLEAN /\ up \in BOOLEAN
  /\ snapshot \in SUBSET BOOLEAN
  /\ value \in Positions
  /\ timer \in Settings /\ setting \in Settings
  /\ workers \in Seq(Settings)
  /\ asked \subseteq Settings

\* A plausible slip: without a value from the daemon the slider stands at 0.
SeedFromZero(reached) ==
  LET seen == IF reached THEN setting ELSE Off
  IN  /\ on' = (seen # Off)
      /\ value' = IF seen # Off THEN CHOOSE v \in seen : TRUE ELSE 0
      /\ sensitive' = reached
      /\ timer' = {} /\ asked' = {} /\ snapshot' = {}

\* Snapshot::fetch_blocking, then group() and Poller::start: the widgets show
\* what the daemon says, and seeding them sends nothing.
Seed(reached) ==
  LET seen == IF reached THEN setting ELSE Off
  IN  /\ on' = (seen # Off)
      /\ value' = IF seen # Off THEN CHOOSE v \in seen : TRUE ELSE Default
      /\ sensitive' = reached
      /\ timer' = {} /\ asked' = {} /\ snapshot' = {}

Init ==
  /\ open = FALSE /\ sensitive = FALSE /\ snapshot = {}
  /\ on = FALSE /\ value = Default /\ timer = {}
  /\ workers = <<>> /\ asked = {}
  /\ setting \in Settings /\ up = TRUE

Open ==
  /\ ~open /\ open' = TRUE
  /\ Seed(up)
  /\ UNCHANGED <<workers, daemon>>

\* The process ends; what its workers have written is still served.
Close ==
  /\ Disturbed /\ open /\ open' = FALSE
  /\ timer' = {} /\ snapshot' = {}
  /\ UNCHANGED <<sensitive, on, value, workers, asked, daemon>>

-----------------------------------------------------------------------------
(* The main loop: handlers run one at a time *)

\* client::send: a worker of its own for each request.
Send(line) == workers' = Append(workers, line) /\ asked' = {line}

UserActs == open /\ sensitive /\ Len(workers) < MaxWorkers

\* The switch leaves the timer alone.
Toggle ==
  /\ UserActs
  /\ on' = ~on
  /\ Send(IF on' THEN On(value) ELSE Off)
  /\ UNCHANGED <<open, sensitive, snapshot, value, timer, daemon>>

\* A plausible slip: a pending timer is left to fire.
MovedOnce(v) ==
  /\ v # value
  /\ value' = Snap(v)
  /\ timer' = IF on /\ timer = {} THEN On(Snap(v)) ELSE timer
  /\ UNCHANGED <<open, sensitive, snapshot, on, workers, asked, daemon>>

\* value_changed: the snapped value is set first, and starts the timer anew
\* when the switch is on.
Moved(v) ==
  /\ v # value
  /\ value' = Snap(v)
  /\ timer' = IF on THEN On(Snap(v)) ELSE timer
  /\ UNCHANGED <<open, sensitive, snapshot, on, workers, asked, daemon>>

\* A plausible slip: the rows stay sensitive when the switch is off.
SlideWhileOff(v) == UserActs /\ Moved(v)

\* The rows are insensitive while the switch is off (set_manual_sensitive).
Slide(v) == UserActs /\ on /\ Moved(v)

TimerFires ==
  /\ open /\ timer # {}
  /\ Len(workers) <= MaxWorkers
  /\ Send(timer) /\ timer' = {}
  /\ UNCHANGED <<open, sensitive, snapshot, on, value, daemon>>

\* The poll of the status, and its answer some time later: nothing but the
\* pages' sensitivity follows it.
Poll ==
  /\ open /\ snapshot = {} /\ snapshot' = {up}
  /\ UNCHANGED <<open, sensitive, widgets, workers, asked, daemon>>

Polled ==
  /\ \E reached \in snapshot : sensitive' = reached
  /\ snapshot' = {}
  /\ UNCHANGED <<open, widgets, workers, asked, daemon>>

-----------------------------------------------------------------------------
(* The workers and the daemon *)

\* A request is served; the daemon may refuse it or fail to apply it.
Serve(i) ==
  /\ up /\ (Overtaking \/ i = 1)
  /\ setting' \in {workers[i]} \cup IF Disturbed THEN {setting} ELSE {}
  /\ workers' = RemoveAt(workers, i)
  /\ UNCHANGED <<open, sensitive, snapshot, widgets, asked, up>>

\* No connection: the error is shown, the widgets stay as they are.
WorkerFails(i) ==
  /\ Disturbed
  /\ workers' = RemoveAt(workers, i)
  /\ UNCHANGED <<open, sensitive, snapshot, widgets, asked, daemon>>

\* The tray, razer-control ctl, a rule, a restart of the daemon.
OtherClient ==
  /\ Disturbed /\ up
  /\ setting' \in Settings
  /\ UNCHANGED <<open, sensitive, snapshot, widgets, workers, asked, up>>

StopsOrStarts ==
  /\ Disturbed
  /\ up' = ~up
  /\ UNCHANGED <<open, sensitive, snapshot, widgets, workers, asked, setting>>

-----------------------------------------------------------------------------
Gui    == Open \/ Close \/ Toggle \/ (\E v \in Positions : Slide(v)) \/ TimerFires \/ Poll \/ Polled
Worker == \E i \in 1..Len(workers) : Serve(i) \/ WorkerFails(i)

Next == Gui \/ Worker \/ OtherClient \/ StopsOrStarts

Spec == Init /\ [][Next]_vars

-----------------------------------------------------------------------------
\* ui.rs:74-90, cooling.rs:78-118: with the switch on and nothing pending, the
\* last request that was sent is the value shown, whatever the order of slides,
\* timers and switching.
LastRequestIsShown ==
  open /\ on /\ timer = {} /\ asked # {} => asked = {On(value)}

\* ui.rs:74-90: a timer that fires never sends a value the slider has left.
TimerIsShown == timer \subseteq {value}

\* cooling.rs:34 ("Off lets the system manage cooling"): once requests and
\* timers have come to rest, the daemon is set to what the window shows.
RestMeansShown ==
  open /\ timer = {} /\ workers = <<>> => setting = IF on THEN On(value) ELSE Off
=============================================================================
