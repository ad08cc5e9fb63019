--------------------------- MODULE ChoiceControl ---------------------------
(***************************************************************************)
(* A choice among a few kinds, one of which may have a detail of its own,  *)
(* that sends a request whenever it changes:                               *)
(*   - the performance mode, Custom with its power levels                  *)
(*     (desktop/src/app/pages/performance.rs),                             *)
(*   - the keyboard effect, Static with its colour, and the logo           *)
(*     (lighting.rs), the fan rules (automation.rs): no detail,            *)
(*   - the graphics mode (display.rs), whose requests go to an external    *)
(*     tool and which goes back to the mode it had when one fails.         *)
(***************************************************************************)
EXTENDS Integers, Sequences, SequencesExt, FiniteSets

CONSTANTS
  Controls,    (* the controls, see Control                                *)
  MaxWorkers   (* bound: the user waits while so many requests run         *)

\* kinds, the first of them shown when the daemon's setting is none of them;
\* those that may be shown and not chosen; the kind that has a detail (None for
\* none); the details, the first of them shown when there is none; settings other
\* clients may make that the widgets cannot show; the kinds shown when the window
\* opens without an answer (none when its widgets are then locked); whether a
\* failed request puts the widgets back, which none with a detail does.
IsControl(c) ==
  /\ DOMAIN c = {"kinds", "locked", "detailed", "details", "foreign", "unanswered", "reverts"}
  /\ c.locked \subseteq Range(c.kinds) /\ c.unanswered \subseteq Range(c.kinds)
  /\ 1 \in DOMAIN c.kinds /\ 1 \in DOMAIN c.details
  /\ c.reverts \in BOOLEAN
  /\ c.reverts => c.foreign = {} /\ c.detailed \notin Range(c.kinds)

ASSUME ChoiceAssumption ==
  /\ \A c \in Controls : IsControl(c)
  /\ MaxWorkers \in Nat \ {0}

VARIABLES
  control,   (* which control this is                                      *)
  open,      (* the window is there                                        *)
  kind, detail,   (* the widgets                                           *)
  applied,   (* reverting controls: last_applied                           *)
  workers,   (* requests under way, in the order they were sent, and
                answered ones the main loop has not taken yet; "unheard"
                ones are those of a window that was closed                 *)
  setting,   (* what the daemon, or the tool, is set to                    *)
  asked,     (* history: the last request since the window was opened      *)
  calm       (* history: no mishap, after which the widgets may show
                another setting than there is until the next request       *)

widgets == <<kind, detail, applied>>
vars    == <<control, open, widgets, workers, setting, asked, calm>>

-----------------------------------------------------------------------------
(* The controls of the GUI *)

None == "none"

\* performance.rs: the levels are pairs, one per power level of CPU and GPU.
PerformanceModes(levels) ==
  [kinds   |-> <<"balanced", "silent", "gaming", "custom">>, locked |-> {}, detailed |-> "custom",
   details |-> levels, foreign |-> {}, unanswered |-> {}, reverts |-> FALSE]

\* lighting.rs: "unset" shows as Static, a colour that is no swatch as the first.
KeyboardEffects(swatches) ==
  [kinds   |-> <<"static", "off", "spectrum", "wave">>, locked |-> {}, detailed |-> "static",
   details |-> swatches, foreign |-> {<<"unset">>, <<"static", "other">>},
   unanswered |-> {}, reverts |-> FALSE]

Logo ==
  [kinds   |-> <<"static", "off", "breathing">>, locked |-> {}, detailed |-> None,
   details |-> <<None>>, foreign |-> {<<"unset">>}, unanswered |-> {}, reverts |-> FALSE]

\* automation.rs: any manual speed shows as the quiet one, and the rows are not
\* locked without --experimental.
FanRules ==
  [kinds   |-> <<"quiet", "off", "auto">>, locked |-> {}, detailed |-> None, details |-> <<None>>, foreign |-> {<<"manual 3000">>}, unanswered |-> {"off"}, reverts |-> FALSE]

\* display.rs: locked when no tool was found.
GraphicsModes ==
  [kinds   |-> <<"hybrid", "dedicated", "integrated">>, locked |-> {}, detailed |-> None,
   details |-> <<None>>, foreign |-> {}, unanswered |-> {}, reverts |-> TRUE]

\* Under supergfxctl the dedicated mode may be the one there is, and a failed
\* switch goes back to it, but its row is locked.
SuperGfxModes == [GraphicsModes EXCEPT !.locked = {"dedicated"}]

-----------------------------------------------------------------------------
Kinds   == Range(control.kinds)
Details == Range(control.details)

\* A setting, which is also the request for it: a kind, and its detail.
Setting(k, d) == IF k = control.detailed THEN <<k, d>> ELSE <<k>>
Settings == {Setting(k, d) : k \in Kinds, d \in Details}
Shown    == Setting(kind, detail)

TypeOK ==
  /\ control \in Controls /\ open \in BOOLEAN /\ calm \in BOOLEAN
  /\ kind \in Kinds /\ detail \in Details /\ applied \in Kinds
  /\ workers \in Seq([ask : Settings, at : {"sent", "unheard", "ok", "err"}])
  /\ setting \in Settings \cup control.foreign
  /\ asked \subseteq Settings

Init ==
  /\ control \in Controls
  /\ open = FALSE
  /\ kind = control.kinds[1] /\ detail = control.details[1] /\ applied = kind
  /\ workers = <<>> /\ asked = {} /\ calm = TRUE
  /\ setting \in Settings \cup control.foreign

-----------------------------------------------------------------------------
(* The window *)

\* A plausible slip: a setting the widgets cannot show taken all the same.
SeedUnchecked ==
  /\ kind' = setting[1] /\ detail' = control.details[1] /\ applied' = kind'

\* A plausible slip: the detail not taken from the daemon.
SeedKindOnly ==
  /\ kind' = IF setting \in Settings THEN setting[1] ELSE control.kinds[1]
  /\ detail' = control.details[1]
  /\ applied' = kind'

\* The widgets are set from `status` before any handler is connected; what
\* they cannot show ("unset", a colour that is no preset, another fan speed)
\* appears as their first choice.  The tool is asked for its mode (detect).
Seed ==
  /\ kind' = IF setting \in Settings THEN setting[1] ELSE control.kinds[1]
  /\ detail' = IF setting \in Settings /\ Len(setting) = 2 THEN setting[2]
               ELSE control.details[1]
  /\ applied' = kind'

\* A window whose first `status' got no answer and that lets the user act all
\* the same shows a setting nobody made until the user makes one.
Open ==
  /\ ~open /\ open' = TRUE
  /\ \/ Seed /\ calm' = (setting \in Settings /\ workers = <<>>)
     \/ /\ kind' \in control.unanswered /\ calm' = FALSE
        /\ detail' = control.details[1] /\ applied' = kind'
  /\ asked' = {}
  /\ UNCHANGED <<control, workers, setting>>

Running == {i \in DOMAIN workers : workers[i].at \in {"sent", "unheard"}}

\* What the workers have written is still served; nobody hears of it.
Close ==
  /\ open /\ open' = FALSE
  /\ \E kept \in [1..Cardinality(Running) -> Running] :
       /\ \A i, j \in DOMAIN kept : i < j => kept[i] < kept[j]
       /\ workers' = [i \in DOMAIN kept |-> [workers[kept[i]] EXCEPT !.at = "unheard"]]
  /\ UNCHANGED <<control, widgets, setting, asked, calm>>

UserActs == open /\ Len(workers) < MaxWorkers

Send(request) ==
  /\ workers' = Append(workers, [ask |-> request, at |-> "sent"])
  /\ asked' = {request}

\* A plausible slip: the guard that keeps a reverted choice from being sent
\* lost, or the new kind sent with the old one still chosen.
ChooseOld(k) ==
  /\ UserActs /\ k \notin control.locked \cup {kind} /\ kind' = k
  /\ Send(Shown)
  /\ calm' = (calm /\ ~(control.reverts /\ workers # <<>>))
  /\ UNCHANGED <<control, open, detail, applied, setting>>

\* toggled, selected_notify: the radio that goes off is ignored.  The graphics
\* mode is not sent when it is the one last applied; choosing another while a
\* switch is under way is a mishap.
Choose(k) ==
  /\ UserActs /\ k \notin control.locked \cup {kind} /\ kind' = k
  /\ IF control.reverts /\ applied = k
       THEN UNCHANGED <<workers, asked>>
       ELSE Send(Setting(k, detail))
  /\ calm' = (calm /\ ~(control.reverts /\ workers # <<>>))
  /\ UNCHANGED <<control, open, detail, applied, setting>>

\* The colour and the levels are sent at once when they matter, and are kept
\* for later when they do not.
ChooseDetail(d) ==
  /\ UserActs /\ d # detail /\ detail' = d
  /\ IF kind = control.detailed THEN Send(Setting(kind, d)) ELSE UNCHANGED <<workers, asked>>
  /\ UNCHANGED <<control, open, kind, applied, setting, calm>>

-----------------------------------------------------------------------------
(* The workers *)

Answered(i, outcome) ==
  workers' = IF workers[i].at = "unheard" THEN RemoveAt(workers, i)
             ELSE [workers EXCEPT ![i].at = outcome]

\* Requests are served in any order: one that overtakes another is a mishap.
Served(i) ==
  /\ setting' = workers[i].ask /\ Answered(i, "ok")
  /\ calm' = (calm /\ \A j \in Running : i <= j)
  /\ UNCHANGED <<control, open, widgets, asked>>

\* The daemon refuses it or cannot be reached, the tool fails or the user
\* closes the polkit dialog.
Failed(i) ==
  /\ Answered(i, "err")
  /\ calm' = (calm /\ control.reverts)
  /\ UNCHANGED <<control, open, widgets, setting, asked>>

\* A plausible slip: the mode taken as applied whatever the outcome.
DeliveredAnyway(i) ==
  /\ workers[i].at \in {"ok", "err"}
  /\ workers' = RemoveAt(workers, i)
  /\ applied' = IF control.reverts THEN workers[i].ask[1] ELSE applied
  /\ UNCHANGED <<control, open, kind, detail, setting, asked, calm>>

\* The main loop takes the outcome: nothing follows it but a toast, except for
\* the graphics mode, where success is noted and failure puts the radio back.
Delivered(i) ==
  /\ workers[i].at \in {"ok", "err"}
  /\ workers' = RemoveAt(workers, i)
  /\ applied' = IF control.reverts /\ workers[i].at = "ok" THEN workers[i].ask[1] ELSE applied
  /\ kind' = IF control.reverts /\ workers[i].at = "err" THEN applied ELSE kind
  /\ UNCHANGED <<control, open, detail, setting, asked, calm>>

Work == \E i \in Running : Served(i) \/ Failed(i)
Deliver == \E i \in DOMAIN workers : Delivered(i)

\* razer-control ctl, a rule of the daemon, the command line of the tool.
OtherClient ==
  /\ setting' \in (Settings \cup control.foreign) \ {setting}
  /\ calm' = (calm /\ ~open)
  /\ UNCHANGED <<control, open, widgets, workers, asked>>

-----------------------------------------------------------------------------
Next ==
  \/ Open \/ Close
  \/ \E k \in Kinds : Choose(k)
  \/ \E d \in Details : ChooseDetail(d)
  \/ Work \/ Deliver \/ OtherClient

Spec == Init /\ [][Next]_vars

-----------------------------------------------------------------------------
\* performance.rs:98-110, lighting.rs:162-172: the request sent last is the
\* one for what the widgets show, whatever details were picked meanwhile and
\* in whatever order the requests are served.
LastRequestIsShown ==
  ~control.reverts /\ asked # {} => asked = {Shown}

\* When no mishap happened and no request is under way, the window shows what
\* the daemon is set to; the graphics mode also after any number of failed
\* switches (display.rs:245-265).
RestShowsSetting == calm /\ open /\ workers = <<>> => setting = Shown

\* display.rs:262: what a failure puts back is the mode that is active.
AppliedIsActive ==
  calm /\ open /\ control.reverts /\ Running = {} =>
    \/ setting = <<applied>>
    \/ \E i \in DOMAIN workers : workers[i].at = "ok" /\ setting = workers[i].ask
=============================================================================
