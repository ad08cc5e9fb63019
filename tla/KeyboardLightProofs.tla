------------------------ MODULE KeyboardLightProofs ------------------------
(***************************************************************************)
(* What holds of the keyboard's brightness for all levels, all rules and   *)
(* any number of ticks of the dimmer, under every mix of mishaps, and what *)
(* the page shows as long as no mishap has happened.                       *)
(***************************************************************************)
EXTENDS KeyboardLight, TLAPS

-----------------------------------------------------------------------------
(* The inductive invariant *)

\* A source's rule is set once and replaced, never taken away.
Ruled == \A s \in Sources : \E b \in Percents : rules[s] = {b}

\* Nothing is under way in a window that has not been opened.
ClosedInv ==
  ~open => /\ timer = {} /\ chain = {} /\ dark = FALSE
           /\ \A i \in 1..MaxTicks : ticks[i] = NoTick

\* A row on its way is in its timer or in its chain.
TimerInv == \A c \in chain : c.source \notin timer

\* A row at rest, in a page that can be used, shows the rule.
RowsInv ==
  /\ ~sensitive => timer = {} /\ chain = {}
  /\ sensitive => \A s \in Sources \ timer :
       rules[s] = {row[s]} \/ \E c \in chain : c.source = s /\ c.at = "rule"

\* What a chain carries is what its row shows; past its first call the daemon
\* keeps it as the rule, and before its last the source is the current one.
ChainInv ==
  \A c \in chain :
    /\ c.percent = row[c.source]
    /\ c.at # "rule" => rules[c.source] = {c.percent}
    /\ c.at = "apply" => c.source = supply

\* One tick at a time, and a restore has the current source's rule.
TicksInv ==
  /\ \A i, j \in 1..MaxTicks : ticks[i] # NoTick /\ ticks[j] # NoTick => i = j
  /\ \A i \in 1..MaxTicks :
       /\ ticks[i].at = "status" => ticks[i].source = supply
       /\ ticks[i].at = "restore" => rules[supply] = {ticks[i].percent}

\* Dark lights: the flag is set, or the tick that will set it has its answer;
\* one that will clear it has turned the lights on.
DarkInv ==
  dark => \/ \E i \in 1..MaxTicks : ticks[i].at = "done" /\ ticks[i].ok /\ ticks[i].dims
          \/ /\ dimmed
             /\ \A i \in 1..MaxTicks : ticks[i].at = "done" => ~ticks[i].ok

\* Lit keys: the brightness is the rule's, or a chain is about to set it, or the
\* rule has failed.
LitInv ==
  polled = supply /\ ~dark /\ ~missed =>
    kbd \in rules[supply] \/ \E c \in chain : c.source = supply /\ c.at # "rule"

CalmInv == ClosedInv /\ RowsInv /\ ChainInv /\ TicksInv /\ DarkInv /\ LitInv

IInv == TypeOK /\ Ruled /\ TimerInv /\ (calm => CalmInv)

-----------------------------------------------------------------------------
(* The tasks of the ticks *)

LEMMA TaskFields ==
  ASSUME NEW t \in Tasks
  PROVE  /\ t.at \in {"none", "ask", "dim", "source", "status", "restore", "done"}
         /\ t.at = "none" <=> t = NoTick
         /\ t.at = "status" => t.source \in Sources
         /\ t.at = "restore" => t.percent \in Percents
         /\ t.at = "done" => t.ok \in BOOLEAN /\ t.dims \in BOOLEAN
BY DEF Tasks, NoTick

LEMMA TaskTypes ==
  /\ {NoTick, [at |-> "ask"], [at |-> "dim"], [at |-> "source"]} \subseteq Tasks
  /\ \A s \in Sources : [at |-> "status", source |-> s] \in Tasks
  /\ \A b \in Percents : [at |-> "restore", percent |-> b] \in Tasks
  /\ \A ok, dims \in BOOLEAN : [at |-> "done", ok |-> ok, dims |-> dims] \in Tasks
BY DEF Tasks

\* A step of one tick leaves the others where they are.
LEMMA StepFacts ==
  ASSUME TypeOK, NEW i \in 1..MaxTicks, NEW task \in Tasks, Step(i, task)
  PROVE  /\ ticks' \in [1..MaxTicks -> Tasks]
         /\ ticks'[i] = task
         /\ \A j \in 1..MaxTicks : j # i => ticks'[j] = ticks[j]
BY DEF TypeOK, Step

LEMMA PercentTypes ==
  /\ 0 \in Percents /\ Fallback \in Percents /\ Levels \subseteq Percents
  /\ "ac" \in Sources /\ "battery" \in Sources
  /\ Shipped \in [Sources -> Percents]
BY LightAssumption DEF Percents, Sources

\* The one rule of a source.
LEMMA RuleFacts ==
  ASSUME Ruled, NEW s \in Sources
  PROVE  /\ rules[s] # {} /\ (CHOOSE b \in rules[s] : TRUE) \in Percents
         /\ rules[s] = {CHOOSE b \in rules[s] : TRUE}
<1>1. PICK b \in Percents : rules[s] = {b}
  BY DEF Ruled
<1> QED BY <1>1

-----------------------------------------------------------------------------
(* Types *)

LEMMA BrightnessTypes ==
  ASSUME TypeOK, NEW p \in Percents, NEW b \in BOOLEAN, NEW heard, Brightness(p, b, heard)
  PROVE  kbd' \in Percents /\ dark' \in BOOLEAN /\ missed' \in BOOLEAN /\ calm' \in BOOLEAN
BY DEF TypeOK, Brightness, Apply, Mishap, lit

\* A chain that goes on is still the only one of its source.
LEMMA ChainGoesOn ==
  ASSUME TypeOK, NEW c \in chain, NEW call \in {"telemetry", "apply"}, GoesOn(c, call)
  PROVE  /\ chain' \subseteq Chains
         /\ \A d, e \in chain' : d.source = e.source => d = e
         /\ \A d \in chain' : \E e \in chain : d.source = e.source
         /\ [source |-> c.source, percent |-> c.percent, at |-> call] \in chain'
         /\ \A d \in chain' : \/ d \in chain /\ d.source # c.source
                              \/ d = [source |-> c.source, percent |-> c.percent, at |-> call]
         /\ \A d \in chain : d.source # c.source => d \in chain'
<1> DEFINE next == [source |-> c.source, percent |-> c.percent, at |-> call]
<1>1. c \in Chains
  BY DEF TypeOK
<1>2. [c EXCEPT !.at = call] = next
  BY <1>1 DEF Chains
<1>3. next \in Chains /\ next.source = c.source
  BY <1>1 DEF Chains
<1>4. chain' = (chain \ {c}) \cup {next}
  BY <1>2 DEF GoesOn
<1>5. \A d \in chain \ {c} : d.source # c.source
  BY DEF TypeOK
<1> HIDE DEF next
<1>6. \A d \in chain' : (d \in chain /\ d.source # c.source) \/ d = next
  BY <1>4, <1>5
<1>7. \A d, e \in chain' : d.source = e.source => d = e
  BY <1>3, <1>6 DEF TypeOK
<1>8. chain' \subseteq Chains /\ next \in chain'
  BY <1>3, <1>4 DEF TypeOK
<1>9. \A d \in chain : d.source # c.source => d \in chain'
  BY <1>4
<1>10. \A d \in chain' : \E e \in chain : d.source = e.source
  BY <1>3, <1>6
<1> QED BY <1>6, <1>7, <1>8, <1>9, <1>10 DEF next

\* One that ends leaves the other source's.
LEMMA ChainEnds ==
  ASSUME TypeOK, NEW c \in chain, Ends(c)
  PROVE  /\ chain' \subseteq Chains
         /\ \A d, e \in chain' : d.source = e.source => d = e
         /\ \A d \in chain' : d \in chain /\ d.source # c.source
         /\ \A d \in chain : d.source # c.source => d \in chain'
BY DEF TypeOK, Ends

LEMMA TypeNext ==
  ASSUME TypeOK, Ruled, TimerInv, [Next]_vars
  PROVE  TypeOK' /\ Ruled' /\ TimerInv'
<1> USE DEF page, dimmer, daemon
<1>0. /\ UNCHANGED rules => Ruled'
      /\ UNCHANGED <<chain, timer>> => TimerInv'
  BY DEF Ruled, TimerInv
<1>1. CASE Open
  <2>1. row' \in [Sources -> Percents] /\ sensitive' \in BOOLEAN
    BY <1>1, RuleFacts, PercentTypes DEF Open, SeededRow
  <2> QED BY <1>0, <1>1, <2>1 DEF Open, TypeOK, TimerInv, lit
<1>2. CASE Close
  <2>1. ticks' \in [1..MaxTicks -> Tasks]
    BY <1>2, TaskTypes DEF Close
  <2> QED BY <1>0, <1>2, <2>1 DEF Close, TypeOK, TimerInv, Mishap, lit
<1>3. ASSUME NEW s \in Sources, NEW v \in Levels, Slide(s, v)
      PROVE  TypeOK' /\ Ruled' /\ TimerInv'
  <2>1. row' \in [Sources -> Percents] /\ timer' \subseteq Sources
    BY <1>3, PercentTypes DEF Slide, TypeOK
  <2> QED BY <1>0, <1>3, <2>1 DEF Slide, TypeOK, TimerInv, lit
<1>4. ASSUME NEW s \in Sources, TimerFires(s)
      PROVE  TypeOK' /\ Ruled' /\ TimerInv'
  <2> DEFINE new == [source |-> s, percent |-> row[s], at |-> "rule"]
  <2>1. new \in Chains /\ new.source = s
    BY DEF TypeOK, Chains
  <2>2. chain' = chain \cup {new} /\ timer' \subseteq Sources
    BY <1>4 DEF TimerFires, TypeOK
  <2> HIDE DEF new
  <2>3. \A c \in chain : c.source # s
    BY <1>4 DEF TimerFires, TimerInv
  <2>4. /\ chain' \subseteq Chains
        /\ \A d, e \in chain' : d.source = e.source => d = e
    BY <2>1, <2>2, <2>3 DEF TypeOK
  <2> QED BY <1>0, <1>4, <2>1, <2>2, <2>4 DEF TimerFires, TypeOK, TimerInv, lit
<1>5. CASE ChainStep
  <2>1. PICK c \in chain :
          \/ c.at = "rule" /\ SendRule(c) /\ UNCHANGED lit
          \/ c.at = "telemetry" /\ ReadPower(c) /\ UNCHANGED <<rules, lit>>
          \/ /\ c.at = "apply" /\ Ends(c) /\ UNCHANGED rules
             /\ \/ Brightness(c.percent, FALSE, TRUE)
                \/ Mishap("unreachable") /\ UNCHANGED lit
    BY <1>5 DEF ChainStep
  <2>2. GoesOn(c, "telemetry") \/ GoesOn(c, "apply") \/ Ends(c)
    BY <2>1 DEF SendRule, ReadPower
  <2>3. c.percent \in Percents /\ c.source \in Sources
    BY DEF TypeOK, Chains
  <2>4. /\ chain' \subseteq Chains
        /\ \A d, e \in chain' : d.source = e.source => d = e
        /\ \A d \in chain' : \E e \in chain : d.source = e.source
    <3>1. \A call \in {"telemetry", "apply"} : GoesOn(c, call) =>
            /\ chain' \subseteq Chains
            /\ \A d, e \in chain' : d.source = e.source => d = e
            /\ \A d \in chain' : \E e \in chain : d.source = e.source
      BY ChainGoesOn
    <3>2. CASE Ends(c)
      BY <3>2, ChainEnds
    <3> QED BY <2>2, <3>1, <3>2
  <2>5. rules' = rules \/ rules' = [rules EXCEPT ![c.source] = {c.percent}]
    BY <2>1 DEF SendRule
  <2>6. rules' \in [Sources -> SUBSET Percents] /\ Ruled'
    BY <2>3, <2>5 DEF TypeOK, Ruled
  <2>7. kbd' \in Percents /\ dark' \in BOOLEAN /\ missed' \in BOOLEAN /\ calm' \in BOOLEAN
    BY <2>1, <2>3, BrightnessTypes
    DEF SendRule, ReadPower, Changes, Mishap, TypeOK, lit
  <2>8. UNCHANGED <<open, row, sensitive, timer, dimmer, polled, supply, idle>>
    BY <1>5 DEF ChainStep
  <2> QED BY <2>4, <2>6, <2>7, <2>8 DEF TypeOK, TimerInv
<1>6. CASE SwitchIdle \/ GoOrReturn
  BY <1>0, <1>6 DEF SwitchIdle, GoOrReturn, TypeOK, lit
<1>7. ASSUME NEW i \in 1..MaxTicks, Tick(i) \/ TickStep(i)
      PROVE  TypeOK' /\ Ruled' /\ TimerInv'
  <2>1. UNCHANGED <<page, idleOff, rules, polled, supply, idle>>
    BY <1>7 DEF Tick, TickStep, Decide, Dim, ReadSource, ReadRule, Restore, Finish
  <2>2. dimmed' \in BOOLEAN
    BY <1>7, TaskFields DEF Tick, TickStep, Decide, Dim, ReadSource, ReadRule, Restore, Finish,
                            TypeOK
  <2>3. kbd' \in Percents /\ dark' \in BOOLEAN /\ missed' \in BOOLEAN /\ calm' \in BOOLEAN
    <3>1. CASE Dim(i)
      BY <3>1, BrightnessTypes, PercentTypes DEF Dim
    <3>2. CASE Restore(i)
      BY <3>2, BrightnessTypes, TaskFields DEF Restore, TypeOK
    <3> QED
      BY <1>7, <3>1, <3>2 DEF Tick, TickStep, Decide, ReadSource, ReadRule, Finish, TypeOK, Mishap, lit
  <2>4. \E task \in Tasks : Step(i, task)
    <3>1. CASE ReadRule(i)
      BY <3>1, TaskFields, TaskTypes, RuleFacts, PercentTypes DEF ReadRule, TypeOK
    <3>2. CASE Dim(i) \/ Restore(i)
      BY <3>2, TaskTypes DEF Dim, Restore
    <3>3. CASE ReadSource(i)
      BY <3>3, TaskTypes, PercentTypes DEF ReadSource, TypeOK
    <3> QED
      BY <1>7, <3>1, <3>2, <3>3, TaskTypes DEF Tick, TickStep, Decide, Finish
  <2>5. ticks' \in [1..MaxTicks -> Tasks]
    BY <2>4, StepFacts
  <2> QED BY <1>0, <2>1, <2>2, <2>3, <2>5 DEF TypeOK
<1>8. CASE Poll
  <2>1. kbd' \in Percents /\ dark' \in BOOLEAN /\ missed' \in BOOLEAN
    BY <1>8 DEF Poll, Apply, TypeOK
  <2> QED BY <1>0, <1>8, <2>1 DEF Poll, TypeOK
<1>9. CASE Replug
  BY <1>0, <1>9 DEF Replug, TypeOK, Changes, Mishap, lit
<1>10. CASE UNCHANGED vars
  BY <1>0, <1>10 DEF vars, TypeOK, lit
<1> QED BY <1>1, <1>2, <1>3, <1>4, <1>5, <1>6, <1>7, <1>8, <1>9, <1>10 DEF Next, Rows

-----------------------------------------------------------------------------
(* What a step without a mishap keeps *)

\* A request that is heard has taken effect, and one that is not has not.
LEMMA CalmBrightness ==
  ASSUME NEW p, NEW b, NEW heard \in BOOLEAN, Brightness(p, b, heard), calm'
  PROVE  /\ calm
         /\ heard => kbd' = p /\ dark' = b /\ missed' = FALSE
         /\ ~heard => UNCHANGED lit
BY DEF Brightness, Apply, Mishap

LEMMA CalmSlide ==
  ASSUME IInv, calm, CalmInv, NEW s \in Sources, NEW v \in Levels, Slide(s, v)
  PROVE  CalmInv'
<1> USE DEF CalmInv, dimmer, daemon, lit
<1>1. /\ open /\ sensitive /\ \A c \in chain : c.source # s
      /\ timer' = timer \cup {s}
      /\ \A t \in Sources : t # s => row'[t] = row[t]
      /\ UNCHANGED <<open, sensitive, chain, ticks, dimmed, rules, kbd, polled, supply, dark, missed>>
  BY DEF Slide, IInv, TypeOK
<1>2. RowsInv'
  BY <1>1 DEF RowsInv
<1>3. ChainInv'
  <2>1. \A c \in chain : c.source \in Sources
    BY DEF IInv, TypeOK, Chains
  <2> QED BY <1>1, <2>1 DEF ChainInv
<1> QED BY <1>1, <1>2, <1>3 DEF ClosedInv, TicksInv, DarkInv, LitInv

LEMMA CalmTimer ==
  ASSUME IInv, calm, CalmInv, NEW s \in Sources, TimerFires(s)
  PROVE  CalmInv'
<1> USE DEF CalmInv, dimmer, daemon, lit
<1> DEFINE new == [source |-> s, percent |-> row[s], at |-> "rule"]
<1>1. /\ s \in timer /\ timer' = timer \ {s} /\ chain' = chain \cup {new}
      /\ UNCHANGED <<open, row, sensitive, ticks, dimmed, rules, kbd, polled, supply, dark, missed>>
  BY DEF TimerFires
<1>2. new.source = s /\ new.percent = row[s] /\ new.at = "rule"
  OBVIOUS
<1> HIDE DEF new
<1>3. open /\ sensitive
  BY <1>1 DEF ClosedInv, RowsInv, IInv, TypeOK
<1>4. RowsInv'
  BY <1>1, <1>2, <1>3 DEF RowsInv
<1>5. ChainInv' /\ LitInv'
  BY <1>1, <1>2 DEF ChainInv, LitInv
<1> QED BY <1>1, <1>3, <1>4, <1>5 DEF ClosedInv, TicksInv, DarkInv

LEMMA CalmChain ==
  ASSUME IInv, calm, CalmInv, ChainStep, calm'
  PROVE  CalmInv'
<1> USE DEF CalmInv, dimmer
<1>0. TypeOK
  BY DEF IInv
<1>1. PICK c \in chain :
        \/ c.at = "rule" /\ SendRule(c) /\ UNCHANGED lit
        \/ c.at = "telemetry" /\ ReadPower(c) /\ UNCHANGED <<rules, lit>>
        \/ /\ c.at = "apply" /\ Ends(c) /\ UNCHANGED rules
           /\ \/ Brightness(c.percent, FALSE, TRUE)
              \/ Mishap("unreachable") /\ UNCHANGED lit
  BY DEF ChainStep
<1> DEFINE s == c.source
           p == c.percent
<1>2. /\ s \in Sources /\ open /\ sensitive
      /\ UNCHANGED <<open, row, sensitive, timer, ticks, dimmed, polled, supply>>
  BY <1>0 DEF Chains, ChainStep, RowsInv, ClosedInv, TypeOK
<1>3. /\ p = row[s]
      /\ c.at # "rule" => rules[s] = {p}
      /\ c.at = "apply" => s = supply
  BY DEF ChainInv
<1>4. \A t \in Sources \ timer :
        rules[t] = {row[t]} \/ \E d \in chain : d.source = t /\ d.at = "rule"
  BY <1>2 DEF RowsInv
<1> HIDE DEF s, p
<1>5. CASE c.at = "rule"
  <2> DEFINE next == [source |-> s, percent |-> p, at |-> "telemetry"]
  <2>1. /\ rules' = [rules EXCEPT ![s] = {p}] /\ ~Restoring
        /\ GoesOn(c, "telemetry") /\ UNCHANGED <<kbd, dark, missed>>
    BY <1>1, <1>5 DEF SendRule, Mishap, Changes, lit, s, p
  <2>2. /\ next \in chain'
        /\ \A d \in chain' : (d \in chain /\ d.source # s) \/ d = next
        /\ \A d \in chain : d.source # s => d \in chain'
    BY <1>0, <2>1, ChainGoesOn DEF s, p
  <2>3. next.source = s /\ next.percent = p /\ next.at = "telemetry"
    OBVIOUS
  <2> HIDE DEF next
  <2>4. rules'[s] = {p} /\ \A t \in Sources : t # s => rules'[t] = rules[t]
    BY <1>0, <1>2, <2>1 DEF TypeOK
  <2>5. \A d \in chain : d.source \in Sources
    BY <1>0 DEF TypeOK, Chains
  <2>6. RowsInv'
    BY <1>2, <1>3, <1>4, <2>2, <2>4 DEF RowsInv
  <2>7. ChainInv'
    BY <1>2, <1>3, <2>2, <2>3, <2>4, <2>5 DEF ChainInv
  <2>8. \A i \in 1..MaxTicks : ticks[i].at \notin {"status", "restore"}
    BY <2>1 DEF Restoring
  <2>9. LitInv'
    <3>1. CASE supply = s
      BY <1>2, <2>2, <2>3, <3>1 DEF LitInv
    <3>2. CASE supply # s
      BY <1>0, <1>2, <2>1, <2>2, <2>4, <3>2 DEF LitInv, TypeOK
    <3> QED BY <3>1, <3>2
  <2> QED BY <1>2, <2>1, <2>6, <2>7, <2>8, <2>9 DEF ClosedInv, TicksInv, DarkInv
<1>6. CASE c.at = "telemetry" /\ s = supply
  <2> DEFINE next == [source |-> s, percent |-> p, at |-> "apply"]
  <2>1. GoesOn(c, "apply") /\ UNCHANGED <<rules, kbd, dark, missed>>
    BY <1>1, <1>6 DEF ReadPower, Mishap, lit, s
  <2>2. /\ next \in chain'
        /\ \A d \in chain' : (d \in chain /\ d.source # s) \/ d = next
        /\ \A d \in chain : d.source # s => d \in chain'
    BY <1>0, <2>1, ChainGoesOn DEF s, p
  <2>3. next.source = s /\ next.percent = p /\ next.at = "apply"
    OBVIOUS
  <2> HIDE DEF next
  <2>4. RowsInv' /\ ChainInv' /\ LitInv'
    BY <1>2, <1>3, <1>4, <1>6, <2>1, <2>2, <2>3 DEF RowsInv, ChainInv, LitInv
  <2> QED BY <1>2, <2>1, <2>4 DEF ClosedInv, TicksInv, DarkInv
<1>7. CASE c.at = "telemetry" /\ s # supply
  <2>1. Ends(c) /\ UNCHANGED <<rules, kbd, dark, missed>>
    BY <1>1, <1>7 DEF ReadPower, Mishap, lit, s
  <2>2. /\ \A d \in chain' : d \in chain /\ d.source # s
        /\ \A d \in chain : d.source # s => d \in chain'
    BY <1>0, <2>1, ChainEnds DEF s
  <2>3. RowsInv' /\ ChainInv' /\ LitInv'
    BY <1>2, <1>3, <1>4, <1>7, <2>1, <2>2 DEF RowsInv, ChainInv, LitInv
  <2> QED BY <1>2, <2>1, <2>3 DEF ClosedInv, TicksInv, DarkInv
<1>8. CASE c.at = "apply"
  <2>1. Ends(c) /\ UNCHANGED rules /\ kbd' = p /\ dark' = FALSE
    <3>1. \/ Ends(c) /\ UNCHANGED rules /\ Brightness(c.percent, FALSE, TRUE)
          \/ Mishap("unreachable")
      BY <1>1, <1>8
    <3> QED BY <3>1, CalmBrightness DEF Mishap, p
  <2>2. /\ \A d \in chain' : d \in chain /\ d.source # s
        /\ \A d \in chain : d.source # s => d \in chain'
    BY <1>0, <2>1, ChainEnds DEF s
  <2>3. rules'[supply] = {kbd'}
    BY <1>3, <1>8, <2>1
  <2>4. RowsInv' /\ ChainInv' /\ LitInv'
    BY <1>2, <1>3, <1>4, <1>8, <2>1, <2>2, <2>3 DEF RowsInv, ChainInv, LitInv
  <2> QED BY <1>2, <2>1, <2>4 DEF ClosedInv, TicksInv, DarkInv
<1>9. c.at \in {"rule", "telemetry", "apply"}
  BY <1>0 DEF TypeOK, Chains
<1> QED BY <1>5, <1>6, <1>7, <1>8, <1>9

\* The rows and the chain when only ticks move.
LEMMA RowsFrame ==
  ASSUME CalmInv, UNCHANGED <<open, row, sensitive, timer, chain, rules, polled, supply>>
  PROVE  /\ RowsInv' /\ ChainInv'
         /\ UNCHANGED lit \/ kbd' \in rules[supply] \/ dark' => LitInv'
BY DEF CalmInv, RowsInv, ChainInv, LitInv, lit

LEMMA CalmTick ==
  ASSUME IInv, calm, CalmInv, NEW i \in 1..MaxTicks, Tick(i), calm'
  PROVE  CalmInv'
<1> USE DEF page, daemon, lit
<1>1. /\ open /\ UNCHANGED <<open, row, sensitive, timer, chain, rules, lit, polled, supply, dimmed>>
      /\ Step(i, [at |-> "ask"]) /\ \A j \in 1..MaxTicks : ticks[j] = NoTick
  BY DEF Tick, Mishap
<1>2. /\ ticks'[i] = [at |-> "ask"]
      /\ \A j \in 1..MaxTicks : j # i => ticks'[j] = NoTick
  BY <1>1, StepFacts, TaskTypes DEF IInv
<1>3. TicksInv'
  BY <1>2 DEF TicksInv, NoTick
<1>4. DarkInv'
  BY <1>1, <1>2 DEF CalmInv, DarkInv, NoTick
<1>5. ClosedInv'
  BY <1>1 DEF ClosedInv
<1> QED BY <1>1, <1>3, <1>4, <1>5, RowsFrame DEF CalmInv

LEMMA CalmTickStep ==
  ASSUME IInv, calm, CalmInv, NEW i \in 1..MaxTicks, TickStep(i), calm'
  PROVE  CalmInv'
<1> USE DEF page, daemon, lit
<1>0. TypeOK /\ Ruled /\ supply \in Sources
  BY DEF IInv, TypeOK
<1>1. UNCHANGED <<open, row, sensitive, timer, chain, rules, polled, supply>>
  BY DEF TickStep, Decide, Dim, ReadSource, ReadRule, Restore, Finish
<1>2. ticks[i] # NoTick /\ ticks[i] \in Tasks
  <2>1. ticks[i].at \in {"ask", "dim", "source", "status", "restore", "done"}
    BY DEF TickStep, Decide, Dim, ReadSource, ReadRule, Restore, Finish
  <2>2. ticks[i] \in Tasks
    BY <1>0 DEF TypeOK
  <2>3. NoTick.at = "none"
    BY DEF NoTick
  <2> QED BY <2>1, <2>2, <2>3
<1>3. \A j \in 1..MaxTicks : j # i => ticks[j] = NoTick
  BY <1>2 DEF CalmInv, TicksInv
<1>4. open /\ ClosedInv'
  BY <1>1, <1>2 DEF CalmInv, ClosedInv
<1>5. ASSUME NEW task \in Tasks, Step(i, task),
             task.at = "status" => task.source = supply,
             task.at = "restore" => rules[supply] = {task.percent}
      PROVE  /\ ticks'[i] = task /\ \A j \in 1..MaxTicks : j # i => ticks'[j] = NoTick
             /\ TicksInv'
  <2>1. ticks'[i] = task /\ \A j \in 1..MaxTicks : j # i => ticks'[j] = NoTick
    BY <1>0, <1>3, <1>5, StepFacts
  <2> QED BY <1>1, <1>5, <2>1 DEF TicksInv, NoTick
<1>6. CASE Decide(i) \/ ReadSource(i) \/ ReadRule(i)
  <2>1. UNCHANGED <<lit, dimmed>>
    BY <1>6 DEF Decide, ReadSource, ReadRule
  <2>2. \E task \in Tasks :
          /\ Step(i, task) /\ task.at # "done"
          /\ task.at = "status" => task.source = supply
          /\ task.at = "restore" => rules[supply] = {task.percent}
    <3>1. CASE Decide(i)
      BY <3>1, TaskTypes DEF Decide, NoTick
    <3>2. CASE ReadSource(i)
      BY <1>0, <3>2, TaskTypes DEF ReadSource, Mishap
    <3>3. CASE ReadRule(i)
      <4>1. Step(i, [at |-> "restore", percent |->
                      IF rules[ticks[i].source] = {} THEN Fallback
                      ELSE CHOOSE b \in rules[ticks[i].source] : TRUE])
        BY <3>3 DEF ReadRule, Mishap
      <4>2. ticks[i].source = supply
        BY <3>3 DEF ReadRule, CalmInv, TicksInv
      <4> DEFINE b == CHOOSE x \in rules[supply] : TRUE
      <4>3. rules[supply] = {b} /\ b \in Percents
        BY <1>0, RuleFacts
      <4>4. Step(i, [at |-> "restore", percent |-> b])
        BY <4>1, <4>2, <4>3
      <4> HIDE DEF b
      <4> QED BY <4>3, <4>4, TaskTypes
    <3> QED BY <1>6, <3>1, <3>2, <3>3
  <2>3. PICK task \in Tasks :
          /\ Step(i, task) /\ task.at # "done"
          /\ task.at = "status" => task.source = supply
          /\ task.at = "restore" => rules[supply] = {task.percent}
    BY <2>2
  <2>4. /\ ticks'[i] = task /\ \A j \in 1..MaxTicks : j # i => ticks'[j] = NoTick
        /\ TicksInv'
    BY <1>5, <2>3
  <2>5. ticks[i].at # "done"
    BY <1>6 DEF Decide, ReadSource, ReadRule
  <2>6. DarkInv'
    BY <1>3, <2>1, <2>3, <2>4, <2>5 DEF CalmInv, DarkInv, NoTick
  <2> QED BY <1>1, <1>4, <2>1, <2>4, <2>6, RowsFrame DEF CalmInv
<1>7. CASE Dim(i) \/ Restore(i)
  <2>1. PICK heard \in BOOLEAN, dims \in BOOLEAN :
          /\ Step(i, [at |-> "done", ok |-> heard, dims |-> dims])
          /\ heard => /\ dark' = dims
                      /\ ~dims => kbd' \in rules[supply]
          /\ ~heard => UNCHANGED lit
          /\ dimmed' = dimmed
    <3>1. CASE Dim(i)
      <4>1. PICK heard \in BOOLEAN :
              /\ Brightness(0, TRUE, heard)
              /\ Step(i, [at |-> "done", ok |-> heard, dims |-> TRUE])
        BY <3>1 DEF Dim
      <4>2. heard => dark' = TRUE
        BY <4>1, CalmBrightness
      <4>3. ~heard => UNCHANGED lit
        BY <4>1, CalmBrightness
      <4>4. dimmed' = dimmed
        BY <3>1 DEF Dim
      <4> QED BY <4>1, <4>2, <4>3, <4>4
    <3>2. CASE Restore(i)
      <4>1. PICK heard \in BOOLEAN :
              /\ Brightness(ticks[i].percent, FALSE, heard)
              /\ Step(i, [at |-> "done", ok |-> heard, dims |-> FALSE])
        BY <3>2 DEF Restore
      <4>2. rules[supply] = {ticks[i].percent}
        BY <3>2 DEF Restore, CalmInv, TicksInv
      <4>3. heard => dark' = FALSE /\ kbd' \in rules[supply]
        BY <4>1, <4>2, CalmBrightness
      <4>4. ~heard => UNCHANGED lit
        BY <4>1, CalmBrightness
      <4>5. dimmed' = dimmed
        BY <3>2 DEF Restore
      <4> QED BY <4>1, <4>3, <4>4, <4>5
    <3> QED BY <1>7, <3>1, <3>2
  <2> DEFINE task == [at |-> "done", ok |-> heard, dims |-> dims]
  <2>2. task \in Tasks /\ task.at = "done" /\ task.ok = heard /\ task.dims = dims
    BY TaskTypes
  <2>3. Step(i, task) /\ task.at \notin {"status", "restore"}
    BY <2>1
  <2> HIDE DEF task
  <2>4. /\ ticks'[i] = task /\ \A j \in 1..MaxTicks : j # i => ticks'[j] = NoTick
        /\ TicksInv'
    BY <1>5, <2>2, <2>3
  <2>5. ticks[i].at # "done" /\ \A j \in 1..MaxTicks : ticks[j].at # "done"
    <3>1. ticks[i].at \in {"dim", "restore"}
      BY <1>7 DEF Dim, Restore
    <3>2. NoTick.at # "done"
      BY DEF NoTick
    <3>3. ASSUME NEW j \in 1..MaxTicks PROVE ticks[j].at # "done"
      <4>1. j = i \/ ticks[j] = NoTick
        BY <1>3
      <4> QED BY <3>1, <3>2, <4>1
    <3> QED BY <3>1, <3>3
  <2>6. DarkInv'
    <3>1. \A j \in 1..MaxTicks : ticks'[j].at = "done" => j = i
      BY <2>4 DEF NoTick
    <3>2. CASE heard /\ dims
      BY <2>2, <2>4, <3>2 DEF DarkInv
    <3>3. CASE heard /\ ~dims
      BY <2>1, <3>3 DEF DarkInv
    <3>4. CASE ~heard
      BY <2>1, <2>2, <2>4, <2>5, <3>1, <3>4 DEF CalmInv, DarkInv
    <3> QED BY <3>2, <3>3, <3>4
  <2>7. LitInv'
    BY <1>1, <2>1, RowsFrame
  <2> QED BY <1>1, <1>4, <2>4, <2>6, <2>7, RowsFrame DEF CalmInv
<1>8. CASE Finish(i)
  <2>1. /\ ticks[i].at = "done" /\ Step(i, NoTick) /\ UNCHANGED lit
        /\ dimmed' = IF ticks[i].ok THEN ticks[i].dims ELSE dimmed
    BY <1>8 DEF Finish
  <2>2. /\ ticks'[i] = NoTick /\ \A j \in 1..MaxTicks : j # i => ticks'[j] = NoTick
        /\ TicksInv'
    BY <1>5, <2>1, TaskTypes DEF NoTick
  <2>3. dark => dimmed'
    <3>1. ASSUME NEW j \in 1..MaxTicks, ticks[j].at = "done" PROVE j = i
      BY <1>3, <3>1 DEF NoTick
    <3> QED BY <2>1, <3>1 DEF CalmInv, DarkInv
  <2>4. DarkInv'
    BY <2>1, <2>2, <2>3 DEF DarkInv, NoTick
  <2> QED BY <1>1, <1>4, <2>1, <2>2, <2>4, RowsFrame DEF CalmInv
<1> QED BY <1>6, <1>7, <1>8 DEF TickStep

LEMMA CalmRest ==
  ASSUME IInv, calm, CalmInv, Open \/ SwitchIdle \/ GoOrReturn \/ Poll \/ Replug, calm'
  PROVE  CalmInv'
<1> USE DEF page, dimmer, daemon, lit
<1>0. TypeOK /\ Ruled /\ supply \in Sources
  BY DEF IInv, TypeOK
<1>1. CASE Open
  <2>1. /\ ~open /\ open' /\ timer' = {} /\ chain' = {} /\ timer = {} /\ chain = {} /\ ~dark
        /\ sensitive' => row' = [s \in Sources |-> SeededRow(s)]
        /\ UNCHANGED <<ticks, rules, kbd, polled, supply, dark, missed>>
    BY <1>1 DEF Open, CalmInv, ClosedInv
  <2>2. sensitive' => \A s \in Sources : rules[s] = {row'[s]}
    BY <1>0, <2>1, RuleFacts DEF SeededRow
  <2> QED BY <2>1, <2>2 DEF CalmInv, ClosedInv, RowsInv, ChainInv, TicksInv, DarkInv, LitInv
<1>2. CASE SwitchIdle \/ GoOrReturn
  BY <1>2 DEF SwitchIdle, GoOrReturn, CalmInv, ClosedInv, RowsInv, ChainInv, TicksInv, DarkInv,
              LitInv
<1>3. CASE Poll
  <2>1. UNCHANGED <<open, row, sensitive, timer, chain, ticks, dimmed, rules, supply>>
    BY <1>3 DEF Poll
  <2>2. /\ missed' \/ kbd' \in rules[supply]
        /\ dark' = FALSE \/ dark' = dark
    <3>1. PICK b \in Percents : rules[supply] = {b}
      BY <1>0 DEF Ruled
    <3> QED BY <1>3, <3>1 DEF Poll, Apply
  <2>3. LitInv' /\ DarkInv'
    BY <2>1, <2>2 DEF CalmInv, DarkInv, LitInv
  <2> QED BY <2>1, <2>2, <2>3 DEF CalmInv, ClosedInv, RowsInv, ChainInv, TicksInv
<1>4. CASE Replug
  <2>1. /\ polled = supply /\ supply' # supply /\ ~Restoring /\ ~Applying
        /\ UNCHANGED <<open, row, sensitive, timer, chain, ticks, dimmed, rules, lit, polled>>
    BY <1>4 DEF Replug, Changes, Mishap
  <2>2. /\ \A c \in chain : c.at = "rule"
        /\ \A j \in 1..MaxTicks : ticks[j].at \notin {"status", "restore"}
    BY <2>1 DEF Restoring, Applying
  <2> QED BY <2>1, <2>2 DEF CalmInv, ClosedInv, RowsInv, ChainInv, TicksInv, DarkInv, LitInv
<1> QED BY <1>1, <1>2, <1>3, <1>4

LEMMA CalmNext ==
  ASSUME IInv, [Next]_vars, calm'
  PROVE  CalmInv'
<1>1. (calm /\ CalmInv) \/ UNCHANGED vars
  <2>1. [Next]_vars /\ calm' => calm
    BY DEF Next, vars, page, dimmer, daemon, Open, Close, Rows, TimerFires, Slide, ChainStep,
           SendRule, ReadPower, Brightness, SwitchIdle, Tick, TickStep, Decide, Dim, ReadSource,
           ReadRule, Restore, Finish, Poll, Replug, GoOrReturn, Changes, Mishap
  <2> QED BY <2>1 DEF IInv
<1>2. CASE UNCHANGED vars
  <2>1. calm /\ CalmInv
    BY <1>2 DEF vars, IInv
  <2> QED BY <1>2, <2>1 DEF vars, page, dimmer, daemon, lit, CalmInv, ClosedInv, RowsInv, ChainInv,
                            TicksInv, DarkInv, LitInv
<1>3. CASE Next /\ calm /\ CalmInv
  <2>1. ~Close
    BY DEF Close, Mishap
  <2> QED BY <1>3, <2>1, CalmSlide, CalmTimer, CalmChain, CalmTick, CalmTickStep, CalmRest
          DEF Next, Rows
<1> QED BY <1>1, <1>2, <1>3

LEMMA InitInv == Init => IInv
<1> SUFFICES ASSUME Init PROVE IInv
  OBVIOUS
<1>1. TypeOK /\ Ruled /\ TimerInv
  BY PercentTypes, TaskTypes DEF Init, TypeOK, Ruled, TimerInv
<1>2. ClosedInv /\ RowsInv /\ ChainInv
  BY DEF Init, ClosedInv, RowsInv, ChainInv
<1>3. TicksInv /\ DarkInv
  BY DEF Init, TicksInv, DarkInv, NoTick
<1>4. LitInv
  BY PercentTypes DEF Init, LitInv
<1> QED BY <1>1, <1>2, <1>3, <1>4 DEF IInv, CalmInv

LEMMA Invariance == Spec => []IInv
<1>1. IInv /\ [Next]_vars => IInv'
  BY TypeNext, CalmNext DEF IInv
<1> QED BY <1>1, InitInv, PTL DEF Spec

-----------------------------------------------------------------------------
(* What follows *)

\* Page, dimmer and daemon keep their types under every mix of mishaps, and a
\* row never has two chains under way.
THEOREM TypeCorrect == Spec => []TypeOK
<1>1. IInv => TypeOK
  BY DEF IInv
<1> QED BY <1>1, Invariance, PTL

\* lighting.rs:248-250, 297-298: the lights the idle rule turned off are never
\* forgotten, whatever the daemon, the rows and the power source did meanwhile.
THEOREM DarkCorrect == Spec => []DarkIsRemembered
<1>1. IInv => DarkIsRemembered
  BY DEF IInv, CalmInv, DarkInv, DarkIsRemembered, Resting, NoTick
<1> QED BY <1>1, Invariance, PTL

\* lighting.rs:44-46, 252-255: when everything has come to rest, lit keys have
\* the brightness of the rule for the power source, unless that rule was refused
\* or failed: the daemon does not try it again.
THEOREM LitCorrect == Spec => []LitAsRuled
<1>1. IInv => LitAsRuled
  BY DEF IInv, CalmInv, LitInv, LitAsRuled, Resting
<1> QED BY <1>1, Invariance, PTL

\* lighting.rs:55-58: a row at rest, in a page built with an answer of the
\* daemon, shows the rule the daemon keeps.
THEOREM RowCorrect == Spec => []RowIsKept
<1>1. IInv => RowIsKept
  BY DEF IInv, CalmInv, RowsInv, RowIsKept, Resting
<1> QED BY <1>1, Invariance, PTL
=============================================================================
