--------------------------- MODULE KeyboardLight ---------------------------
(***************************************************************************)
(* The keyboard's brightness between three who set it: the two brightness  *)
(* rows and the idle dimmer of the lighting page                           *)
(* (desktop/src/app/pages/lighting.rs) and the daemon's own rule for a     *)
(* change of the power source (src/src/daemon.rs).                         *)
(*                                                                         *)
(* A row's request is a chain of three calls, the dimmer's restore another *)
(* one, and each call is answered some time after the one before it: what  *)
(* an earlier call read may be out of date when the last one acts on it.   *)
(***************************************************************************)
EXTENDS Integers, FiniteSets

CONSTANTS
  Levels,      (* brightness a row may be set to                           *)
  Shipped,     (* the rules of a fresh install, by power source            *)
  Fallback,    (* what a restore sends when `status` has no rule: 60       *)
  MaxTicks,    (* bound: ticks of the dimmer under way at once             *)
  Faults       (* the mishaps that may happen, of Mishaps                  *)

Sources == {"ac", "battery"}

\* What may go wrong between the page and the daemon: a request is answered
\* "err ..." or by an empty line, its reply is lost after it took effect, the
\* daemon cannot be reached, the window is closed, a tick starts while another
\* is under way, something changes while a chain or a restore relies on it, or
\* changes back before the daemon's loop has seen it.
Mishaps == {"refused", "lost", "unreachable", "closed", "overlap", "change"}

ASSUME LightAssumption ==
  /\ Levels \subseteq 0..100 /\ Fallback \in 0..100
  /\ Shipped \in [Sources -> Levels]
  /\ MaxTicks \in Nat \ {0} /\ Faults \subseteq Mishaps

VARIABLES
  (* the page *)
  open,      (* the window is there                                        *)
  row,       (* the two sliders                                            *)
  sensitive, (* `status` was answered when it was built: it can be used    *)
  timer,     (* the sources whose debounce timer is running                *)
  chain,     (* the rows' chains under way                                 *)
  idleOff,   (* the switch of the idle rule                                *)
  dimmed,    (* its flag: the rule has turned the lights off               *)
  ticks,     (* its ticks under way, by slot                               *)
  (* the daemon *)
  rules,     (* kbd_on_ac and kbd_on_battery                               *)
  kbd,       (* the brightness it last applied                             *)
  polled,    (* the power source its loop last saw                         *)
  (* the world *)
  supply,    (* the power source                                           *)
  idle,      (* the session has been idle for the threshold                *)
  (* history *)
  dark,      (* the last brightness applied was the dimmer's 0             *)
  missed,    (* the last rule the daemon was to apply failed               *)
  calm       (* no mishap has happened                                     *)

page   == <<open, row, sensitive, timer, chain>>
dimmer == <<idleOff, dimmed, ticks>>
lit    == <<kbd, dark, missed>>
daemon == <<rules, polled, lit>>
vars   == <<page, dimmer, daemon, supply, idle, calm>>

Percents == Levels \cup {0, Fallback}

\* A chain: the rule is sent, telemetry is read, the brightness is sent.
Chains == [source : Sources, percent : Percents, at : {"rule", "telemetry", "apply"}]

\* A tick: the idle counter is read and the main loop decides (ask), a worker
\* sends 0 (dim) or reads telemetry and status and sends the rule's brightness
\* (restore), and the main loop takes its outcome (done).
NoTick == [at |-> "none"]
Tasks ==
  {NoTick, [at |-> "ask"], [at |-> "dim"], [at |-> "source"]}
    \cup [at : {"status"}, source : Sources]
    \cup [at : {"restore"}, percent : Percents]
    \cup [at : {"done"}, ok : BOOLEAN, dims : BOOLEAN]

TypeOK ==
  /\ open \in BOOLEAN /\ sensitive \in BOOLEAN /\ idleOff \in BOOLEAN /\ dimmed \in BOOLEAN
  /\ row \in [Sources -> Percents]
  /\ timer \subseteq Sources
  /\ chain \subseteq Chains /\ \A c, d \in chain : c.source = d.source => c = d
  /\ ticks \in [1..MaxTicks -> Tasks]
  /\ rules \in [Sources -> SUBSET Percents]
  /\ kbd \in Percents
  /\ polled \in Sources /\ supply \in Sources
  /\ idle \in BOOLEAN /\ dark \in BOOLEAN /\ missed \in BOOLEAN /\ calm \in BOOLEAN

\* The daemon as a fresh install runs it on mains; the window not yet open.
Init ==
  /\ open = FALSE /\ sensitive = FALSE /\ row = Shipped /\ timer = {} /\ chain = {}
  /\ idleOff = FALSE /\ dimmed = FALSE /\ ticks = [i \in 1..MaxTicks |-> NoTick]
  /\ rules = [s \in Sources |-> {Shipped[s]}] /\ kbd = Shipped["ac"]
  /\ polled = "ac" /\ supply = "ac"
  /\ idle = FALSE /\ dark = FALSE /\ missed = FALSE /\ calm = TRUE

Mishap(kind) == kind \in Faults /\ calm' = FALSE

\* A restore has read the power source, or the rule, and will act on it; a chain
\* has made its rule known and will act on the power source.
Restoring == \E i \in 1..MaxTicks : ticks[i].at \in {"status", "restore"}
Applying  == \E c \in chain : c.at # "rule"

\* A change of what somebody relies on is a mishap to him.
Changes(relied) == IF relied THEN Mishap("change") ELSE UNCHANGED calm

-----------------------------------------------------------------------------
(* The daemon's side of a call *)

Apply(percent, byDimmer) == kbd' = percent /\ dark' = byDimmer /\ missed' = FALSE

\* "kbd brightness": it takes effect and the client learns of it, it is
\* refused, it takes effect and the reply is lost, or it never arrives.
\* heard is what is_ok() says: any reply is Ok, one that says "err" too.
Brightness(percent, byDimmer, heard) ==
  \/ heard /\ Apply(percent, byDimmer) /\ UNCHANGED calm
  \/ heard /\ Mishap("refused") /\ UNCHANGED lit
  \/ ~heard /\ Mishap("lost") /\ Apply(percent, byDimmer)
  \/ ~heard /\ "unreachable" \in Faults /\ UNCHANGED <<lit, calm>>

\* A plausible slip: the rule of the source the loop saw before.
PollPrevious ==
  /\ polled # supply /\ polled' = supply
  /\ \/ \E b \in rules[polled] \ {kbd} : Apply(b, FALSE)
     \/ rules[polled] \subseteq {kbd} /\ missed' = FALSE /\ UNCHANGED <<kbd, dark>>
  /\ UNCHANGED <<page, dimmer, rules, supply, idle, calm>>

\* Daemon::on_power_change, the keyboard's half: the rule of the new source is
\* applied unless that is the brightness already.  It may be refused or fail;
\* the loop has stored the source and does not try again.
Poll ==
  /\ polled # supply /\ polled' = supply
  /\ \/ \E b \in rules[supply] \ {kbd} : Apply(b, FALSE)
     \/ rules[supply] \subseteq {kbd} /\ missed' = FALSE /\ UNCHANGED <<kbd, dark>>
     \/ /\ ~(rules[supply] \subseteq {kbd}) /\ "refused" \in Faults
        /\ missed' = TRUE /\ UNCHANGED <<kbd, dark>>
  /\ UNCHANGED <<page, dimmer, rules, supply, idle, calm>>

-----------------------------------------------------------------------------
(* The window and the brightness rows *)

\* A plausible slip: the brightness shown in the EC's units.
SeededRowRaw(s) == (kbd * 255) \div 100

\* A row shows its source's rule, without one the brightness there is.
SeededRow(s) == IF rules[s] # {} THEN CHOOSE b \in rules[s] : TRUE ELSE kbd

\* keyboard_group, idle_group: rows and switch are seeded, the switch from the
\* GUI's own file; dimmed starts FALSE.  Without an answer to `status` the rows
\* show 60 and both groups stay insensitive.
Open ==
  /\ ~open /\ open' = TRUE
  /\ \/ sensitive' = TRUE /\ row' = [s \in Sources |-> SeededRow(s)]
     \/ /\ "unreachable" \in Faults
        /\ sensitive' = FALSE /\ row' = [s \in Sources |-> Fallback]
  /\ timer' = {} /\ dimmed' = FALSE
  /\ UNCHANGED <<chain, idleOff, ticks, daemon, supply, idle, calm>>

\* The process ends, and its workers with it.
Close ==
  /\ open /\ Mishap("closed")
  /\ open' = FALSE /\ timer' = {} /\ chain' = {}
  /\ ticks' = [i \in 1..MaxTicks |-> NoTick]
  /\ UNCHANGED <<row, sensitive, idleOff, dimmed, daemon, supply, idle>>

\* value_changed: the timer starts anew.  Bound: a row is moved again before its
\* timer fires, or once what it sent has come through.
Slide(s, v) ==
  /\ open /\ sensitive /\ v # row[s]
  /\ \A c \in chain : c.source # s
  /\ row' = [row EXCEPT ![s] = v] /\ timer' = timer \cup {s}
  /\ UNCHANGED <<open, sensitive, chain, dimmer, daemon, supply, idle, calm>>

TimerFires(s) ==
  /\ s \in timer /\ timer' = timer \ {s}
  /\ chain' = chain \cup {[source |-> s, percent |-> row[s], at |-> "rule"]}
  /\ UNCHANGED <<open, row, sensitive, dimmer, daemon, supply, idle, calm>>

\* The chain goes on to its next call, or ends.
GoesOn(c, call) == chain' = (chain \ {c}) \cup {[c EXCEPT !.at = call]}
Ends(c)         == chain' = chain \ {c}

\* A plausible slip: the rule kept for the other source.
SendRuleSwapped(c) ==
  LET other == CHOOSE s \in Sources : s # c.source
  IN  /\ rules' = [rules EXCEPT ![other] = {c.percent}] /\ Changes(Restoring)
      /\ GoesOn(c, "telemetry")

\* "kbd-automation": done is called with the reply; when there is one, the
\* second worker starts.
SendRule(c) ==
  \/ /\ rules' = [rules EXCEPT ![c.source] = {c.percent}] /\ Changes(Restoring)
     /\ GoesOn(c, "telemetry")
  \/ Mishap("refused") /\ GoesOn(c, "telemetry") /\ UNCHANGED rules
  \/ Mishap("unreachable") /\ Ends(c) /\ UNCHANGED rules

\* The row's brightness is applied only when its source is the current one
\* (and not when telemetry cannot be had).
ReadPower(c) ==
  \/ c.source = supply /\ GoesOn(c, "apply") /\ UNCHANGED calm
  \/ c.source # supply /\ Ends(c) /\ UNCHANGED calm
  \/ Mishap("unreachable") /\ Ends(c)

ChainStep ==
  /\ \E c \in chain :
       \/ c.at = "rule" /\ SendRule(c) /\ UNCHANGED lit
       \/ c.at = "telemetry" /\ ReadPower(c) /\ UNCHANGED <<rules, lit>>
       \/ /\ c.at = "apply" /\ Ends(c) /\ UNCHANGED rules
          /\ \/ Brightness(c.percent, FALSE, TRUE)
             \/ Mishap("unreachable") /\ UNCHANGED lit
  /\ UNCHANGED <<open, row, sensitive, timer, dimmer, polled, supply, idle>>

-----------------------------------------------------------------------------
(* The idle dimmer *)

\* Writing the GUI's file is all the switch does.
SwitchIdle ==
  /\ open /\ sensitive /\ idleOff' = ~idleOff
  /\ UNCHANGED <<page, dimmed, ticks, daemon, supply, idle, calm>>

Step(i, task) == ticks' = [ticks EXCEPT ![i] = task]

\* Every 30 s, while the switch is on; no tick waits for the one before it.
Tick(i) ==
  /\ open /\ idleOff /\ ticks[i] = NoTick
  /\ Step(i, [at |-> "ask"])
  /\ IF \E j \in 1..MaxTicks : ticks[j] # NoTick THEN Mishap("overlap") ELSE UNCHANGED calm
  /\ UNCHANGED <<page, idleOff, dimmed, daemon, supply, idle>>

\* A plausible slip: dimmed again on every tick, restored on none.
DecideOnce(i) ==
  /\ ticks[i].at = "ask"
  /\ Step(i, IF idle THEN [at |-> "dim"] ELSE NoTick)
  /\ UNCHANGED <<page, idleOff, dimmed, daemon, supply, idle, calm>>

\* session_idle_seconds against the threshold, and back on the main loop the
\* flag; no bus, no method: no answer.
Decide(i) ==
  /\ ticks[i].at = "ask"
  /\ \/ idle /\ ~dimmed /\ Step(i, [at |-> "dim"])
     \/ ~idle /\ dimmed /\ Step(i, [at |-> "source"])
     \/ (idle <=> dimmed) /\ Step(i, NoTick)
     \/ "unreachable" \in Faults /\ Step(i, NoTick)
  /\ UNCHANGED <<page, idleOff, dimmed, daemon, supply, idle, calm>>

Dim(i) ==
  /\ ticks[i].at = "dim"
  /\ \E heard \in BOOLEAN :
       /\ Brightness(0, TRUE, heard)
       /\ Step(i, [at |-> "done", ok |-> heard, dims |-> TRUE])
  /\ UNCHANGED <<page, idleOff, dimmed, rules, polled, supply, idle>>

\* The restore's first request: which source's rule; mains when unknown.
ReadSource(i) ==
  /\ ticks[i].at = "source"
  /\ \/ Step(i, [at |-> "status", source |-> supply]) /\ UNCHANGED calm
     \/ Mishap("unreachable") /\ Step(i, [at |-> "status", source |-> "ac"])
  /\ UNCHANGED <<page, idleOff, dimmed, daemon, supply, idle>>

\* Its second: that rule's brightness.
ReadRule(i) ==
  /\ ticks[i].at = "status"
  /\ \/ /\ Step(i, [at |-> "restore", percent |->
                      IF rules[ticks[i].source] = {} THEN Fallback
                      ELSE CHOOSE b \in rules[ticks[i].source] : TRUE])
        /\ UNCHANGED calm
     \/ Mishap("unreachable") /\ Step(i, [at |-> "restore", percent |-> Fallback])
  /\ UNCHANGED <<page, idleOff, dimmed, daemon, supply, idle>>

Restore(i) ==
  /\ ticks[i].at = "restore"
  /\ \E heard \in BOOLEAN :
       /\ Brightness(ticks[i].percent, FALSE, heard)
       /\ Step(i, [at |-> "done", ok |-> heard, dims |-> FALSE])
  /\ UNCHANGED <<page, idleOff, dimmed, rules, polled, supply, idle>>

\* A plausible slip: the flag flips when the request has been sent.
FinishAnyway(i) ==
  /\ ticks[i].at = "done"
  /\ dimmed' = ticks[i].dims
  /\ Step(i, NoTick)
  /\ UNCHANGED <<page, idleOff, daemon, supply, idle, calm>>

\* The flag flips when the request got an answer.
Finish(i) ==
  /\ ticks[i].at = "done"
  /\ dimmed' = IF ticks[i].ok THEN ticks[i].dims ELSE dimmed
  /\ Step(i, NoTick)
  /\ UNCHANGED <<page, idleOff, daemon, supply, idle, calm>>

TickStep(i) ==
  Decide(i) \/ Dim(i) \/ ReadSource(i) \/ ReadRule(i) \/ Restore(i) \/ Finish(i)

-----------------------------------------------------------------------------
(* The world *)

Replug ==
  /\ supply' \in Sources \ {supply}
  /\ Changes(polled # supply \/ Restoring \/ Applying)
  /\ UNCHANGED <<page, dimmer, daemon, idle>>

\* The user goes, or comes back.
GoOrReturn ==
  /\ idle' = ~idle
  /\ UNCHANGED <<page, dimmer, daemon, supply, calm>>

-----------------------------------------------------------------------------
Rows == \E s \in Sources : TimerFires(s) \/ \E v \in Levels : Slide(s, v)

Next ==
  \/ Open \/ Close \/ Rows \/ ChainStep
  \/ SwitchIdle \/ \E i \in 1..MaxTicks : Tick(i) \/ TickStep(i)
  \/ Poll \/ Replug \/ GoOrReturn

Spec == Init /\ [][Next]_vars

\* The glib timer ticks for as long as the window is there, workers get their
\* turn, and a daemon that can be reached again and again is reached one day.
Fairness ==
  \A i \in 1..MaxTicks :
    /\ WF_vars(Tick(i)) /\ WF_vars(TickStep(i))
    /\ SF_vars(Decide(i) /\ ticks'[i] # NoTick)
    /\ SF_vars(Dim(i) /\ dark') /\ SF_vars(Restore(i) /\ ~dark')

LiveSpec == Spec /\ Fairness

-----------------------------------------------------------------------------
Resting == chain = {} /\ timer = {} /\ \A i \in 1..MaxTicks : ticks[i] = NoTick

\* lighting.rs:248-250, 297-298: lights the rule turned off are never
\* forgotten: its flag is set, so that the next activity turns them on,
\* whatever the daemon, the rows and the power source did meanwhile.
DarkIsRemembered == calm /\ open /\ Resting /\ dark => dimmed

\* lighting.rs:44-46, 252-255: once everything has come to rest and the daemon
\* has seen the power source, lit keys have the brightness of the rule for it;
\* unless that rule failed, for it is not tried again.
LitAsRuled ==
  calm /\ Resting /\ polled = supply /\ ~dark /\ ~missed => kbd \in rules[supply]

\* lighting.rs:55-58: a row that has come to rest shows the rule the daemon
\* keeps for its source.
RowIsKept ==
  calm /\ open /\ sensitive /\ Resting => \A s \in Sources : rules[s] = {row[s]}

\* lighting.rs:248-250: with the rule on, lights it turned off come back when
\* the user does, also when the daemon could not be reached for a while.
LightsReturn ==
  (dark /\ calm /\ open /\ idleOff /\ ~idle)
    ~> (~dark \/ ~calm \/ ~open \/ ~idleOff \/ idle)
=============================================================================
