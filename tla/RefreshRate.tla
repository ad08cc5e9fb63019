---------------------------- MODULE RefreshRate ----------------------------
(***************************************************************************)
(* The laptop display's refresh rate between the user, the rule that       *)
(* lowers it on battery (desktop/src/app/pages/display.rs), and the        *)
(* compositor, to which every request goes by a process of its own.  The   *)
(* rule learns of the power source from the poll loop (poll.rs), and that  *)
(* from the daemon's telemetry (src/src/telemetry.rs).                     *)
(***************************************************************************)
EXTENDS Integers, Sequences, FiniteSets, SequencesExt, Telemetry

CONSTANTS
  Listings,    (* what the display offers: sequences of modes, see IsMode  *)
  Adapters,    (* the kinds of the power supplies, in directory order      *)
  MaxWorkers   (* bound: the user waits while so many requests run         *)

\* A resolution and a rate in hundredths of a Hertz; its place is its id.
IsMode(m) == DOMAIN m = {"resolution", "rate"} /\ m.rate \in Nat

ASSUME RateAssumption ==
  /\ \A l \in Listings : /\ Len(l) \in Nat \ {0} /\ DOMAIN l = 1..Len(l)
                         /\ \A i \in DOMAIN l : IsMode(l[i])
  /\ Adapters # <<>> /\ MaxWorkers \in Nat \ {0}

VARIABLES
  modes,       (* the display's modes                                      *)
  active,      (* the one the compositor uses                              *)
  online,      (* the adapters that deliver power                          *)
  (* the page *)
  open,        (* the window is there                                      *)
  candidates,  (* the modes offered, by their place in modes               *)
  chosen,      (* the row's selection, by its place in candidates          *)
  rule,        (* the rule's switch, and its key in the GUI's file         *)
  last_power,  (* the power source the rule saw last, {} for none          *)
  poll,        (* the snapshot under way: its power field, or "none"       *)
  workers,     (* modes requested, in the order of the requests            *)
  calm         (* history: no mishap, after which the rate may be another
                  than the page and its rule want                          *)

External == {i \in DOMAIN Adapters : Adapters[i] # "Battery"}
Plugged  == online # {}

world == <<modes, active, online>>
page  == <<open, candidates, chosen, rule, last_power>>
vars  == <<world, page, poll, workers, calm>>

-----------------------------------------------------------------------------
(* The rates on offer *)

\* split_mode_label: the rate rounded for display, halves to even.
Hz(rate) ==
  LET whole == rate \div 100  rest == rate % 100
  IN  IF rest > 50 \/ (rest = 50 /\ whole % 2 = 1) THEN whole + 1 ELSE whole

\* A plausible slip: the rates sorted as they are listed.
rate_candidates_unsorted(current) ==
  SelectSeq([i \in DOMAIN modes |-> i],
            LAMBDA i : /\ modes[i].resolution = modes[current].resolution
                       /\ \A j \in 1..(i - 1) :
                            modes[j].resolution = modes[i].resolution
                              => Hz(modes[j].rate) # Hz(modes[i].rate))

\* A plausible slip: the rate kept in the place of the mode.
rate_candidates_rates(current) ==
  SetToSortSeq({Hz(modes[i].rate) : i \in DOMAIN modes}, <)

\* One mode per rounded rate at the current resolution, the first listed,
\* ascending.
rate_candidates(current) ==
  LET same  == {i \in DOMAIN modes : modes[i].resolution = modes[current].resolution}
      first == {i \in same : \A j \in same : j < i => Hz(modes[j].rate) # Hz(modes[i].rate)}
  IN  CHOOSE c \in [1..Cardinality(first) -> first] :
        /\ Range(c) = first
        /\ \A i, j \in DOMAIN c : i < j => Hz(modes[c[i]].rate) < Hz(modes[c[j]].rate)

\* The row's first selection: the current mode when it is on offer.
Initial(offered, current) ==
  IF current \in Range(offered) THEN CHOOSE i \in DOMAIN offered : offered[i] = current ELSE 1

-----------------------------------------------------------------------------
TypeOK ==
  /\ modes \in Listings /\ active \in DOMAIN modes
  /\ online \subseteq External
  /\ open \in BOOLEAN /\ rule \in BOOLEAN /\ calm \in BOOLEAN
  /\ candidates \in Seq(DOMAIN modes) /\ chosen \in DOMAIN candidates
  /\ last_power \in SUBSET BOOLEAN /\ Cardinality(last_power) <= 1
  /\ poll \in {"none", "ac", "battery", "unknown"}
  /\ workers \in Seq(DOMAIN modes) /\ Len(workers) <= MaxWorkers + 1

Init ==
  /\ modes \in Listings /\ active \in DOMAIN modes
  /\ online \in SUBSET External
  /\ open = FALSE /\ candidates = rate_candidates(active) /\ chosen = 1
  /\ rule \in BOOLEAN /\ last_power = {}
  /\ poll = "none" /\ workers = <<>> /\ calm = TRUE

\* What telemetry says when the files of some adapters cannot be read (a
\* battery has none), or, the same, when the daemon cannot be reached.
Reading(hidden) ==
  power(ac_from_supplies(
    [i \in DOMAIN Adapters |->
       [kind   |-> Adapters[i],
        online |-> IF i \in External \ hidden THEN {IF i \in online THEN "1" ELSE "0"}
                   ELSE {}]]))

\* An adapter that cannot be read beside one that can: a mishap.
Misread(hidden) == hidden # {} /\ hidden # External

On_ac(word) == IF word = "unknown" THEN {} ELSE {word = "ac"}

-----------------------------------------------------------------------------
(* The window *)

Deviates == workers # <<>> \/ active # candidates[chosen]

\* The rows are built from the compositor's list and the GUI's file, then the
\* rule gets the snapshot the pages were built from: it has seen none before.
\* A current mode hidden by another of the same rounded rate is a mishap: the
\* row then starts at the lowest rate.
Open ==
  /\ ~open /\ open' = TRUE
  /\ candidates' = rate_candidates(active)
  /\ chosen' = Initial(candidates', active)
  /\ \E hidden \in SUBSET External :
       /\ last_power' = On_ac(Reading(hidden))
       /\ calm' = (~Misread(hidden) /\ workers = <<>> /\ active \in Range(candidates'))
  /\ UNCHANGED <<world, rule, poll, workers>>

\* Nobody restores the rate of a window closed while the rule has lowered it;
\* processes that have been started go on.
Close ==
  /\ open /\ open' = FALSE /\ poll' = "none"
  /\ workers' \in {<<>>, workers}
  /\ calm' = (calm /\ ~Deviates)
  /\ UNCHANGED <<world, candidates, chosen, rule, last_power>>

Request(mode) == workers' = Append(workers, mode)

Choose(i) ==
  /\ open /\ i # chosen /\ Len(workers) < MaxWorkers
  /\ chosen' = i
  /\ Request(candidates[i])
  /\ UNCHANGED <<world, open, candidates, rule, last_power, poll, calm>>

\* The switch writes the file and nothing else: off while the rate is lowered,
\* the rate stays.
ToggleRule ==
  /\ open /\ rule' = ~rule
  /\ calm' = (calm /\ ~(rule /\ Deviates))
  /\ UNCHANGED <<world, open, candidates, chosen, last_power, poll, workers>>

-----------------------------------------------------------------------------
(* The poll loop and the rule *)

Poll(hidden) ==
  /\ open /\ poll = "none"
  /\ poll' = Reading(hidden)
  /\ calm' = (calm /\ ~Misread(hidden))
  /\ UNCHANGED <<world, page, workers>>

\* The subscription: an unknown source is passed over, the first one noted;
\* with the rule on, a change asks for the lowest rate or the chosen one.
Notify ==
  /\ poll # "none" /\ poll' = "none" /\ Len(workers) <= MaxWorkers
  /\ LET seen == On_ac(poll)
     IN  /\ last_power' = IF seen = {} THEN last_power ELSE seen
         /\ IF seen = {} \/ last_power = {} \/ seen = last_power \/ ~rule
              THEN UNCHANGED workers
              ELSE Request(candidates[IF seen = {TRUE} THEN chosen ELSE 1])
  /\ UNCHANGED <<world, open, candidates, chosen, rule, calm>>

\* One kscreen-doctor process ends: the mode is set, or is not.  One that
\* overtakes another, or that fails, is a mishap.
Apply(i) ==
  /\ active' = workers[i] /\ workers' = RemoveAt(workers, i)
  /\ calm' = (calm /\ i = 1)
  /\ UNCHANGED <<modes, online, page, poll>>

Fail(i) ==
  /\ workers' = RemoveAt(workers, i) /\ calm' = FALSE
  /\ UNCHANGED <<world, page, poll>>

-----------------------------------------------------------------------------
(* The world *)

Replug ==
  /\ \E i \in External :
       online' = IF i \in online THEN online \ {i} ELSE online \cup {i}
  /\ UNCHANGED <<modes, active, page, poll, workers, calm>>

\* The desktop's own settings.
OtherTool ==
  /\ active' \in DOMAIN modes \ {active}
  /\ calm' = (calm /\ ~open)
  /\ UNCHANGED <<modes, online, page, poll, workers>>

Work == \E i \in DOMAIN workers : Apply(i) \/ Fail(i)

Next ==
  \/ Open \/ Close \/ ToggleRule \/ Notify
  \/ \E hidden \in SUBSET External : Poll(hidden)
  \/ \E i \in DOMAIN candidates : Choose(i)
  \/ Work \/ Replug \/ OtherTool

Spec == Init /\ [][Next]_vars

\* The loop runs while the window is there and so do the processes; a source
\* that can be read again and again is read one day.
Fairness ==
  /\ WF_vars(Notify) /\ WF_vars(Work)
  /\ SF_vars(Poll({}))

LiveSpec == Spec /\ Fairness

-----------------------------------------------------------------------------
\* display.rs:109-111, 149: at rest the display has the rate the row shows, from
\* its first selection on (system.rs:267-268) unless that was a twin of the one
\* on offer; it has another only when the rule is on and has seen the battery,
\* and then the lowest.
RestRate ==
  calm /\ open /\ Deviates /\ workers = <<>> =>
    /\ rule /\ last_power = {FALSE}
    /\ \A i \in DOMAIN modes :
         modes[i].resolution = modes[active].resolution
           => Hz(modes[active].rate) <= Hz(modes[i].rate)

\* display.rs:148-149: unplugged for long enough, the display gets the lowest
\* rate, plugged in again the chosen one, also with two adapters of which one
\* delivers nothing (telemetry.rs:453-457).
RuleFollows ==
  LET on == open /\ calm /\ rule
  IN  /\ on /\ last_power = {TRUE} /\ ~Plugged
           ~> ~on \/ Plugged \/ active = candidates[1]
      /\ on /\ last_power = {FALSE} /\ Plugged
           ~> ~on \/ ~Plugged \/ active = candidates[chosen]
=============================================================================
