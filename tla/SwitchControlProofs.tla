------------------------ MODULE SwitchControlProofs ------------------------
(***************************************************************************)
(* What the window keeps about its own requests, for every slider range,   *)
(* any number of workers, and whatever becomes of their requests.          *)
(***************************************************************************)
EXTENDS SwitchControl, SequenceTheorems, TLAPS

\* What the widgets and the debounce timer know of each other.
IInv ==
  /\ TypeOK
  /\ TimerIsShown
  /\ LastRequestIsShown

-----------------------------------------------------------------------------
(* Requests *)

\* Every request is a setting.
LEMMA RequestTypes ==
  /\ Off \in Settings
  /\ \A v \in Positions : On(v) \in Settings
  /\ \A s \in Settings : s # Off => \E v \in Positions : s = On(v)
BY DEF Settings, Off, On

\* A served or failed request leaves the others as they were.
LEMMA OneRequestLess ==
  ASSUME NEW S, NEW s \in Seq(S), NEW i \in 1..Len(s)
  PROVE  RemoveAt(s, i) \in Seq(S)
<1>1. /\ \A k \in 1..(i - 1) : s[k] \in S
      /\ \A k \in (i + 1)..Len(s) : s[k] \in S
  OBVIOUS
<1>2. SubSeq(s, 1, i - 1) \in Seq(S) /\ SubSeq(s, i + 1, Len(s)) \in Seq(S)
  BY <1>1, SubSeqProperties
<1> QED BY <1>2, ConcatProperties DEF RemoveAt

-----------------------------------------------------------------------------
(* The invariant *)

LEMMA IInvInit == Init => IInv
<1> SUFFICES ASSUME Init PROVE IInv
  OBVIOUS
<1>1. workers \in Seq(Settings)
  BY EmptySeq DEF Init
<1>2. /\ open \in BOOLEAN /\ sensitive \in BOOLEAN /\ on \in BOOLEAN /\ up \in BOOLEAN
      /\ timer = Off /\ snapshot \subseteq BOOLEAN /\ asked = {} /\ setting \in Settings
  BY DEF Init, Off
<1>3. value \in Positions
  BY ControlAssumption DEF Init
<1>4. TypeOK
  BY <1>1, <1>2, <1>3, RequestTypes DEF TypeOK
<1> QED BY <1>2, <1>4 DEF IInv, TimerIsShown, LastRequestIsShown, Off

LEMMA TypeNext ==
  ASSUME IInv, [Next]_vars
  PROVE  TypeOK'
<1> USE DEF IInv, TypeOK
<1>1. CASE Open
  <2>1. setting # Off => (CHOOSE v \in setting : TRUE) \in Positions
    BY RequestTypes DEF On
  <2>2. value' \in Positions /\ timer' = Off /\ snapshot' = {} /\ asked' = {}
        /\ on' \in BOOLEAN /\ sensitive' \in BOOLEAN
    BY <1>1, <2>1, ControlAssumption DEF Open, Seed, Off
  <2> QED BY <1>1, <2>2, RequestTypes DEF Open, daemon
<1>2. CASE Close
  BY <1>2, RequestTypes DEF Close, daemon, Off
<1>3. CASE Toggle
  <2>1. PICK line \in Settings : workers' = Append(workers, line) /\ asked' = {line}
    BY <1>3, RequestTypes DEF Toggle, Send
  <2>2. workers' \in Seq(Settings)
    BY <2>1, AppendProperties
  <2> QED BY <1>3, <2>1, <2>2 DEF Toggle, daemon
<1>4. CASE \E v \in Positions : Slide(v)
  <2>1. PICK v \in Positions : Moved(v) /\ on
    BY <1>4 DEF Slide
  <2> QED BY <2>1, ControlAssumption, RequestTypes DEF Moved, daemon
<1>5. CASE TimerFires
  <2>1. workers' \in Seq(Settings) /\ asked' \subseteq Settings
    BY <1>5, AppendProperties DEF TimerFires, Send
  <2> QED BY <1>5, <2>1, RequestTypes DEF TimerFires, daemon, Off
<1>6. CASE Poll \/ Polled
  BY <1>6 DEF Poll, Polled, widgets, daemon
<1>7. CASE Worker
  <2>1. PICK i \in 1..Len(workers) : Serve(i) \/ WorkerFails(i)
    BY <1>7 DEF Worker
  <2>2. workers' \in Seq(Settings)
    BY <2>1, OneRequestLess DEF Serve, WorkerFails
  <2>3. setting' \in Settings
    BY <2>1 DEF Serve, WorkerFails, daemon
  <2> QED BY <2>1, <2>2, <2>3 DEF Serve, WorkerFails, widgets, daemon
<1>8. CASE OtherClient \/ StopsOrStarts \/ UNCHANGED vars
  BY <1>8 DEF OtherClient, StopsOrStarts, vars, widgets, daemon
<1> QED BY <1>1, <1>2, <1>3, <1>4, <1>5, <1>6, <1>7, <1>8 DEF Next, Gui

\* The switch sends the value shown, the slider moves only while the switch is
\* on and takes the timer with it, and nothing else touches either.
LEMMA IInvNext ==
  ASSUME IInv, [Next]_vars
  PROVE  IInv'
<1> USE DEF IInv, TimerIsShown, LastRequestIsShown
<1>1. CASE Open \/ Close
  BY <1>1, TypeNext DEF Open, Close, Seed
<1>2. CASE Toggle
  BY <1>2, TypeNext DEF Toggle, Send
<1>3. CASE \E v \in Positions : Slide(v)
  <2>1. PICK v \in Positions : on /\ Moved(v)
    BY <1>3 DEF Slide
  <2>2. value' = Snap(v) /\ timer' = {Snap(v)}
    BY <2>1 DEF Moved, On
  <2> QED BY <2>2, TypeNext
<1>4. CASE TimerFires
  <2>1. timer = On(value) /\ asked' = {timer} /\ timer' = {} /\ value' = value
    BY <1>4 DEF TimerFires, Send, On
  <2> QED BY <2>1, TypeNext DEF On
<1>5. CASE Poll \/ Polled
  BY <1>5, TypeNext DEF Poll, Polled, widgets, On
<1>6. CASE Worker
  <2>1. UNCHANGED <<open, on, value, timer, asked>>
    BY <1>6 DEF Worker, Serve, WorkerFails, widgets
  <2> QED BY <2>1, TypeNext DEF On
<1>7. CASE OtherClient \/ StopsOrStarts \/ UNCHANGED vars
  BY <1>7, TypeNext DEF OtherClient, StopsOrStarts, vars, widgets, On
<1> QED BY <1>1, <1>2, <1>3, <1>4, <1>5, <1>6, <1>7 DEF Next, Gui

\* cooling.rs, battery.rs: types of the window, the workers and the daemon.
THEOREM TypeCorrect == Spec => []TypeOK
<1>1. IInv => TypeOK
  BY DEF IInv
<1> QED BY <1>1, IInvInit, IInvNext, PTL DEF Spec

\* ui.rs:74-90: a timer that fires sends the value shown.
THEOREM TimerCorrect == Spec => []TimerIsShown
<1>1. IInv => TimerIsShown
  BY DEF IInv
<1> QED BY <1>1, IInvInit, IInvNext, PTL DEF Spec

\* cooling.rs:78-118: with the switch on and nothing pending, the last request
\* sent is the value shown.
THEOREM LastRequestCorrect == Spec => []LastRequestIsShown
<1>1. IInv => LastRequestIsShown
  BY DEF IInv
<1> QED BY <1>1, IInvInit, IInvNext, PTL DEF Spec
=============================================================================
