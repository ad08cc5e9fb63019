------------------------ MODULE ChoiceControlProofs ------------------------
(***************************************************************************)
(* Proofs about ChoiceControl, for every set of controls, any number of    *)
(* workers and any order in which requests are served.                     *)
(***************************************************************************)
EXTENDS ChoiceControl, SequenceTheorems, FiniteSetTheorems, TLAPS

\* What the widgets show depends on the kind, and on the detail only when the
\* kind has one.
LEMMA ShownFollows ==
  ASSUME UNCHANGED control,
         kind' = kind,
         detail' = detail \/ kind # control.detailed
  PROVE  Shown' = Shown
BY DEF Shown, Setting

\* performance.rs:98-145, lighting.rs:163-208, automation.rs:50-61: the request
\* sent last is the one for what the widgets show (the invariant of gui_choice),
\* whatever kinds and details were picked before it and whatever became of the
\* requests.  It is inductive: each way to change what is shown sends it.
THEOREM LastRequestCorrect == Spec => []LastRequestIsShown
<1>1. Init => LastRequestIsShown
  BY DEF Init, LastRequestIsShown
<1>2. LastRequestIsShown /\ [Next]_vars => LastRequestIsShown'
  <2> SUFFICES ASSUME LastRequestIsShown, [Next]_vars
               PROVE  LastRequestIsShown'
    OBVIOUS
  <2>1. UNCHANGED <<control, kind, asked>> /\ (detail' = detail \/ kind # control.detailed)
          => LastRequestIsShown'
    <3> SUFFICES ASSUME UNCHANGED <<control, kind, asked>>,
                        detail' = detail \/ kind # control.detailed
                 PROVE  LastRequestIsShown'
      OBVIOUS
    <3>1. Shown' = Shown
      BY ShownFollows
    <3> QED
      BY <3>1 DEF LastRequestIsShown
  <2>2. CASE Open
    BY <2>2 DEF Open, LastRequestIsShown
  <2>3. CASE Close
    BY <2>3, <2>1 DEF Close, widgets
  <2>4. ASSUME NEW k \in Kinds, Choose(k)
        PROVE  LastRequestIsShown'
    <3>1. CASE control.reverts
      BY <3>1, <2>4 DEF Choose, LastRequestIsShown
    <3>2. CASE ~control.reverts
      <4>1. asked' = {Setting(k, detail)} /\ UNCHANGED <<control, detail>> /\ kind' = k
        BY <3>2, <2>4 DEF Choose, Send
      <4>2. Shown' = Setting(k, detail)
        BY <4>1 DEF Shown, Setting
      <4> QED
        BY <4>1, <4>2 DEF LastRequestIsShown
    <3> QED
      BY <3>1, <3>2
  <2>5. ASSUME NEW d \in Details, ChooseDetail(d)
        PROVE  LastRequestIsShown'
    <3>1. CASE kind = control.detailed
      <4>1. asked' = {Setting(kind, d)} /\ UNCHANGED <<control, kind>> /\ detail' = d
        BY <3>1, <2>5 DEF ChooseDetail, Send
      <4>2. Shown' = Setting(kind, d)
        BY <4>1 DEF Shown, Setting
      <4> QED
        BY <4>1, <4>2 DEF LastRequestIsShown
    <3>2. CASE kind # control.detailed
      BY <3>2, <2>5, <2>1 DEF ChooseDetail
    <3> QED
      BY <3>1, <3>2
  <2>6. CASE Work
    BY <2>6, <2>1 DEF Work, Served, Failed, widgets
  <2>7. ASSUME NEW i \in DOMAIN workers, Delivered(i)
        PROVE  LastRequestIsShown'
    <3>1. CASE control.reverts
      BY <3>1, <2>7 DEF Delivered, LastRequestIsShown
    <3>2. CASE ~control.reverts
      BY <3>2, <2>7, <2>1 DEF Delivered
    <3> QED
      BY <3>1, <3>2
  <2>8. CASE OtherClient
    BY <2>8, <2>1 DEF OtherClient, widgets
  <2>9. CASE UNCHANGED vars
    BY <2>9, <2>1 DEF vars, widgets
  <2> QED
    BY <2>2, <2>3, <2>4, <2>5, <2>6, <2>7, <2>8, <2>9 DEF Next, Deliver
<1> QED
  BY <1>1, <1>2, PTL DEF Spec

-----------------------------------------------------------------------------
(* What the window shows at rest *)

\* Without a mishap every request is one of the window that is open.
HeardWorkers == [ask : Settings, at : {"sent", "ok", "err"}]

\* Without a mishap requests are served in their order and none fails: the
\* last one running will set what is shown, and when none runs it has.
InOrder ==
  /\ Running = {} => setting = Shown
  /\ \A i \in Running : (\A j \in Running : j <= i) => workers[i].ask = Shown

\* Without a mishap there is one switch at a time.
Single ==
  \/ workers = <<>> /\ setting = <<applied>> /\ kind = applied
  \/ /\ Len(workers) = 1
     /\ \/ workers[1].at = "sent" /\ setting = <<applied>> /\ workers[1].ask = <<kind>>
        \/ workers[1].at = "ok"   /\ setting = <<kind>>    /\ workers[1].ask = <<kind>>
        \/ workers[1].at = "err"  /\ setting = <<applied>>

\* The inductive invariant of RestCorrect and AppliedCorrect.
IInv ==
  /\ control \in Controls
  /\ calm /\ open =>
       /\ workers \in Seq(HeardWorkers)
       /\ kind \in Kinds /\ detail \in Details /\ applied \in Kinds
       /\ IF control.reverts THEN Single ELSE InOrder

\* The answer taken, those behind it move up.
LEMMA RemoveAtFacts ==
  ASSUME NEW S, NEW s \in Seq(S), NEW i \in 1..Len(s)
  PROVE  /\ RemoveAt(s, i) \in Seq(S)
         /\ Len(RemoveAt(s, i)) = Len(s) - 1
         /\ \A j \in 1..(Len(s) - 1) : RemoveAt(s, i)[j] = IF j < i THEN s[j] ELSE s[j + 1]
<1> DEFINE a == SubSeq(s, 1, i - 1)
           b == SubSeq(s, i + 1, Len(s))
<1>1. /\ \A k \in 1..(i - 1) : s[k] \in S
      /\ \A k \in (i + 1)..Len(s) : s[k] \in S
  OBVIOUS
<1>2. /\ a \in Seq(S) /\ Len(a) = i - 1
      /\ \A k \in 1..(i - 1) : a[k] = s[k]
  BY <1>1, SubSeqProperties
<1>3. /\ b \in Seq(S) /\ Len(b) = Len(s) - i
      /\ \A k \in 1..(Len(s) - i) : b[k] = s[i + k]
  BY <1>1, SubSeqProperties
<1>4. RemoveAt(s, i) = a \o b
  BY DEF RemoveAt
<1> HIDE DEF a, b
<1>5. /\ a \o b \in Seq(S) /\ Len(a \o b) = Len(a) + Len(b)
      /\ \A j \in 1..(Len(a) + Len(b)) : (a \o b)[j] = IF j <= Len(a) THEN a[j] ELSE b[j - Len(a)]
  BY <1>2, <1>3, ConcatProperties
<1>6. Len(s) \in Nat
  OBVIOUS
<1>7. ASSUME NEW j \in 1..(Len(s) - 1)
      PROVE  (a \o b)[j] = IF j < i THEN s[j] ELSE s[j + 1]
  <2>1. CASE j < i
    BY <2>1, <1>2, <1>3, <1>5, <1>6
  <2>2. CASE j >= i
    <3>1. (a \o b)[j] = b[j - i + 1] /\ j - i + 1 \in 1..(Len(s) - i)
      BY <2>2, <1>2, <1>3, <1>5, <1>6
    <3>2. b[j - i + 1] = s[i + (j - i + 1)] /\ i + (j - i + 1) = j + 1
      BY <3>1, <1>3, <1>6
    <3> QED
      BY <3>1, <3>2, <2>2
  <2>3. j < i \/ j >= i
    BY <1>6
  <2> QED
    BY <2>1, <2>2, <2>3
<1>8. Len(a \o b) = Len(s) - 1
  BY <1>2, <1>3, <1>5, <1>6
<1> QED
  BY <1>4, <1>5, <1>7, <1>8

\* What shows when the window opens is a choice; what reverts has no detail.
LEMMA ControlFacts ==
  ASSUME control \in Controls
  PROVE  /\ control.kinds[1] \in Kinds /\ control.details[1] \in Details
         /\ control.reverts => control.detailed \notin Kinds
BY ChoiceAssumption DEF IsControl, Kinds, Details, Range

\* The widgets seeded from a setting they can show do show it.
LEMMA SeedShows ==
  ASSUME control \in Controls, UNCHANGED control, setting \in Settings, Seed
  PROVE  /\ kind' \in Kinds /\ detail' \in Details /\ applied' = kind'
         /\ Shown' = setting
         /\ control.reverts => setting = <<kind'>>
<1>1. PICK k \in Kinds, d \in Details : setting = Setting(k, d)
  BY DEF Settings
<1>2. CASE k = control.detailed
  <2>1. setting = <<k, d>>
    BY <1>1, <1>2 DEF Setting
  <2>2. kind' = k /\ detail' = d
    BY <2>1 DEF Seed
  <2> QED
    BY <2>1, <2>2, <1>2, ControlFacts DEF Shown, Setting, Seed
<1>3. CASE k # control.detailed
  <2>1. setting = <<k>>
    BY <1>1, <1>3 DEF Setting
  <2>2. kind' = k /\ detail' = control.details[1]
    BY <2>1 DEF Seed
  <2> QED
    BY <2>1, <2>2, <1>3, ControlFacts DEF Shown, Setting, Seed
<1> QED
  BY <1>2, <1>3

\* A request sent last for what is then shown keeps the order right.
LEMMA AppendedIsLast ==
  ASSUME NEW new \in HeardWorkers, workers \in Seq(HeardWorkers),
         workers' = Append(workers, new), new.at = "sent", new.ask = Shown'
  PROVE  workers' \in Seq(HeardWorkers) /\ InOrder'
<1>1. /\ workers' \in Seq(HeardWorkers) /\ Len(workers') = Len(workers) + 1
      /\ workers'[Len(workers) + 1] = new
  OBVIOUS
<1>2. Len(workers) + 1 \in Running' /\ \A i \in Running' : i \in 1..(Len(workers) + 1)
  BY <1>1 DEF Running
<1>3. ASSUME NEW i \in Running', \A j \in Running' : j <= i
      PROVE  workers'[i].ask = Shown'
  <2>1. i = Len(workers) + 1
    BY <1>2, <1>3
  <2> QED
    BY <2>1, <1>1
<1> QED
  BY <1>1, <1>2, <1>3 DEF InOrder

\* An answer changes nothing but the request it is for, which no longer runs.
LEMMA AnsweredFacts ==
  ASSUME workers \in Seq(HeardWorkers),
         NEW i \in 1..Len(workers), NEW outcome \in {"ok", "err"},
         workers' = [workers EXCEPT ![i].at = outcome]
  PROVE  /\ workers' \in Seq(HeardWorkers)
         /\ Running' = Running \ {i}
         /\ \A j \in DOMAIN workers : workers'[j].ask = workers[j].ask
<1>1. workers[i] \in HeardWorkers
  OBVIOUS
<1>2. [workers[i] EXCEPT !.at = outcome] \in HeardWorkers
  BY <1>1 DEF HeardWorkers
<1>3. workers' = [workers EXCEPT ![i] = [workers[i] EXCEPT !.at = outcome]]
  OBVIOUS
<1>4. workers' \in Seq(HeardWorkers)
  BY <1>2, <1>3
<1>5. DOMAIN workers' = DOMAIN workers
  BY <1>3
<1>6. /\ workers'[i].at = outcome /\ workers'[i].ask = workers[i].ask
      /\ \A j \in DOMAIN workers : j # i => workers'[j] = workers[j]
  BY <1>1, <1>3 DEF HeardWorkers
<1> QED
  BY <1>4, <1>5, <1>6 DEF Running

\* Without a mishap a request that runs is not that of a closed window.
LEMMA RunningFacts ==
  ASSUME workers \in Seq(HeardWorkers), NEW i \in Running
  PROVE  i \in 1..Len(workers) /\ workers[i] \in HeardWorkers /\ workers[i].at = "sent"
<1>1. i \in DOMAIN workers /\ workers[i].at \in {"sent", "unheard"}
  BY DEF Running
<1>2. i \in 1..Len(workers) /\ workers[i] \in HeardWorkers
  BY <1>1
<1>3. workers[i].at # "unheard"
  BY <1>2 DEF HeardWorkers
<1> QED
  BY <1>1, <1>2, <1>3

\* The user picks another kind: a request more.
LEMMA ChooseStep ==
  ASSUME IInv, NEW k \in Kinds, Choose(k), calm', open'
  PROVE  IInv'
<1>0. calm /\ open /\ (control.reverts => workers = <<>>)
  BY DEF Choose, UserActs
<1>1. /\ control \in Controls /\ workers \in Seq(HeardWorkers)
      /\ detail \in Details /\ applied \in Kinds
      /\ UNCHANGED <<control, open, detail, applied, setting>> /\ kind' = k /\ k # kind
  BY <1>0 DEF IInv, Choose
<1>2. /\ Kinds' = Kinds /\ Details' = Details
      /\ Settings' = Settings /\ HeardWorkers' = HeardWorkers
  BY <1>1 DEF Kinds, Details, Settings, Setting, HeardWorkers
<1>3. Setting(k, detail) \in Settings
  BY <1>1 DEF Settings
<1>4. CASE control.reverts
  <2>1. workers = <<>> /\ setting = <<applied>> /\ kind = applied
    BY <1>0, <1>4 DEF IInv, Single
  <2>2. workers' = <<[ask |-> Setting(k, detail), at |-> "sent"]>>
    BY <1>1, <2>1, <1>4 DEF Choose, Send
  <2>3. Setting(k, detail) = <<k>>
    BY <1>1, <1>4, ControlFacts DEF Setting
  <2>4. workers' \in Seq(HeardWorkers)
    BY <2>2, <1>3 DEF HeardWorkers
  <2>5. Single'
    BY <2>1, <2>2, <2>3, <1>1 DEF Single
  <2> QED
    BY <2>4, <2>5, <1>1, <1>2, <1>4 DEF IInv
<1>5. CASE ~control.reverts
  <2> DEFINE new == [ask |-> Setting(k, detail), at |-> "sent"]
  <2>1. workers' = Append(workers, new)
    BY <1>5 DEF Choose, Send
  <2>2. new \in HeardWorkers
    BY <1>3 DEF HeardWorkers
  <2>3. Shown' = Setting(k, detail)
    BY <1>1 DEF Shown, Setting
  <2>4. workers' \in Seq(HeardWorkers) /\ InOrder'
    BY <1>1, <2>1, <2>2, <2>3, AppendedIsLast
  <2> QED
    BY <2>4, <1>1, <1>2, <1>5 DEF IInv
<1> QED
  BY <1>4, <1>5

\* The window opens: with no mishap it shows the setting, and nothing runs.
LEMMA OpenStep ==
  ASSUME IInv, Open, calm', open'
  PROVE  IInv'
<1>1. Seed /\ calm' = (setting \in Settings /\ workers = <<>>)
  BY DEF Open
<1>2. setting \in Settings /\ workers = <<>>
  BY <1>1
<1>3. UNCHANGED <<control, workers, setting>> /\ control \in Controls
  BY DEF Open, IInv
<1>4. /\ kind' \in Kinds /\ detail' \in Details /\ applied' = kind'
      /\ Shown' = setting
      /\ control.reverts => setting = <<kind'>>
  BY <1>1, <1>2, <1>3, SeedShows
<1>5. Kinds' = Kinds /\ Details' = Details
  BY <1>3 DEF Kinds, Details
<1>6. workers' \in Seq(HeardWorkers')
  BY <1>2, <1>3
<1>7. control.reverts => Single'
  BY <1>2, <1>3, <1>4 DEF Single
<1>8. Running' = {}
  BY <1>2, <1>3 DEF Running
<1>9. InOrder'
  BY <1>3, <1>4, <1>8 DEF InOrder
<1> QED
  BY <1>3, <1>4, <1>5, <1>6, <1>7, <1>9 DEF IInv

\* The user picks another detail: a request more when it matters.
LEMMA DetailStep ==
  ASSUME IInv, NEW d \in Details, ChooseDetail(d), calm', open'
  PROVE  IInv'
<1>1. /\ control \in Controls /\ workers \in Seq(HeardWorkers) /\ kind \in Kinds
      /\ applied \in Kinds /\ detail' = d
      /\ UNCHANGED <<control, open, kind, applied, setting>>
      /\ IF control.reverts THEN Single ELSE InOrder
  BY DEF IInv, ChooseDetail
<1>2. /\ Kinds' = Kinds /\ Details' = Details
      /\ Settings' = Settings /\ HeardWorkers' = HeardWorkers
  BY <1>1 DEF Kinds, Details, Settings, Setting, HeardWorkers
<1>3. CASE kind # control.detailed
  <2>1. UNCHANGED workers
    BY <1>3 DEF ChooseDetail
  <2>2. Shown' = Shown
    BY <1>1, <1>3, ShownFollows
  <2>3. Running' = Running
    BY <2>1 DEF Running
  <2>4. Single' = Single
    BY <1>1, <2>1 DEF Single
  <2>5. InOrder' = InOrder
    BY <1>1, <2>1, <2>2, <2>3 DEF InOrder
  <2> QED
    BY <1>1, <1>2, <2>1, <2>4, <2>5 DEF IInv
<1>4. CASE kind = control.detailed
  <2> DEFINE new == [ask |-> Setting(kind, d), at |-> "sent"]
  <2>1. workers' = Append(workers, new) /\ ~control.reverts
    BY <1>1, <1>4, ControlFacts DEF ChooseDetail, Send
  <2>2. Setting(kind, d) \in Settings
    BY <1>1 DEF Settings
  <2>3. new \in HeardWorkers
    BY <2>2 DEF HeardWorkers
  <2>4. Shown' = Setting(kind, d)
    BY <1>1 DEF Shown, Setting
  <2>5. workers' \in Seq(HeardWorkers) /\ InOrder'
    BY <1>1, <2>1, <2>3, <2>4, AppendedIsLast
  <2> QED
    BY <1>1, <1>2, <2>1, <2>5 DEF IInv
<1> QED
  BY <1>3, <1>4

\* The daemon or the tool serves a request.
LEMMA ServedStep ==
  ASSUME IInv, NEW i \in Running, Served(i), calm', open'
  PROVE  IInv'
<1>1. calm /\ open /\ \A j \in Running : i <= j
  BY DEF Served
<1>2. /\ control \in Controls /\ workers \in Seq(HeardWorkers) /\ kind \in Kinds
      /\ applied \in Kinds /\ detail \in Details
      /\ UNCHANGED <<control, open, kind, detail, applied>>
      /\ IF control.reverts THEN Single ELSE InOrder
  BY <1>1 DEF IInv, Served, widgets
<1>3. /\ Kinds' = Kinds /\ Details' = Details
      /\ Settings' = Settings /\ HeardWorkers' = HeardWorkers
      /\ Shown' = Shown
  BY <1>2 DEF Kinds, Details, Settings, Setting, HeardWorkers, Shown
<1>4. i \in 1..Len(workers) /\ workers[i] \in HeardWorkers /\ workers[i].at = "sent"
  BY <1>2, RunningFacts
<1>5. workers' = [workers EXCEPT ![i].at = "ok"] /\ setting' = workers[i].ask
  BY <1>4 DEF Served, Answered
<1>6. workers' \in Seq(HeardWorkers) /\ Running' = Running \ {i}
      /\ \A j \in DOMAIN workers : workers'[j].ask = workers[j].ask
  <2>1. workers \in Seq(HeardWorkers) /\ i \in 1..Len(workers) /\ "ok" \in {"ok", "err"}
    BY <1>2, <1>4
  <2> QED
    BY <2>1, <1>5, AnsweredFacts
<1>7. CASE control.reverts
  <2>1. Len(workers) = 1 /\ i = 1
    BY <1>2, <1>4, <1>7 DEF Single
  <2>2. workers[1].ask = <<kind>>
    <3>1. Single
      BY <1>2, <1>7
    <3>2. workers # <<>>
      BY <2>1
    <3>3. workers[1].at = "sent"
      BY <1>4, <2>1
    <3> QED
      BY <3>1, <3>2, <3>3 DEF Single
  <2>3. Len(workers') = 1 /\ workers'[1].at = "ok" /\ workers'[1].ask = workers[1].ask
    BY <1>2, <1>4, <1>5, <2>1 DEF HeardWorkers
  <2>4. Single'
    BY <1>2, <1>5, <2>1, <2>2, <2>3 DEF Single
  <2> QED
    BY <1>2, <1>3, <1>6, <1>7, <2>4 DEF IInv
<1>8. CASE ~control.reverts
  <2>1. InOrder
    BY <1>2, <1>8
  <2>2. Running' = {} => setting' = Shown'
    <3> SUFFICES ASSUME Running' = {}
                 PROVE  setting' = Shown'
      OBVIOUS
    <3>1. \A j \in Running : j <= i
      BY <1>4, <1>6
    <3> QED
      BY <3>1, <2>1, <1>3, <1>5 DEF InOrder
  <2>3. ASSUME NEW k \in Running', \A j \in Running' : j <= k
        PROVE  workers'[k].ask = Shown'
    <3>1. k \in Running /\ i <= k /\ k \in DOMAIN workers
      BY <1>1, <1>6 DEF Running
    <3>2. \A j \in Running : j <= k
      BY <1>6, <2>3, <3>1
    <3> QED
      BY <2>1, <3>1, <3>2, <1>3, <1>6, <2>3 DEF InOrder
  <2>4. InOrder'
    BY <2>2, <2>3 DEF InOrder
  <2> QED
    BY <1>2, <1>3, <1>6, <1>8, <2>4 DEF IInv
<1> QED
  BY <1>7, <1>8

\* It fails: without a mishap, a switch of the graphics mode.
LEMMA FailedStep ==
  ASSUME IInv, NEW i \in Running, Failed(i), calm', open'
  PROVE  IInv'
<1>1. calm /\ open /\ control.reverts
  BY DEF Failed
<1>2. /\ control \in Controls /\ workers \in Seq(HeardWorkers) /\ kind \in Kinds
      /\ applied \in Kinds /\ detail \in Details
      /\ UNCHANGED <<control, open, kind, detail, applied, setting>> /\ Single
  BY <1>1 DEF IInv, Failed, widgets
<1>3. /\ Kinds' = Kinds /\ Details' = Details
      /\ Settings' = Settings /\ HeardWorkers' = HeardWorkers
  BY <1>2 DEF Kinds, Details, Settings, Setting, HeardWorkers
<1>4. i \in 1..Len(workers) /\ workers[i] \in HeardWorkers /\ workers[i].at = "sent"
  BY <1>2, RunningFacts
<1>5. workers' = [workers EXCEPT ![i].at = "err"]
  BY <1>4 DEF Failed, Answered
<1>6. workers' \in Seq(HeardWorkers)
  BY <1>2, <1>4, <1>5, AnsweredFacts
<1>7. Len(workers) = 1 /\ i = 1 /\ setting = <<applied>>
  BY <1>2, <1>4 DEF Single
<1>8. Len(workers') = 1 /\ workers'[1].at = "err"
  BY <1>2, <1>4, <1>5, <1>7 DEF HeardWorkers
<1>9. Single'
  BY <1>2, <1>7, <1>8 DEF Single
<1> QED
  BY <1>1, <1>2, <1>3, <1>6, <1>9 DEF IInv

\* The main loop takes an outcome.
LEMMA DeliveredStep ==
  ASSUME IInv, NEW i \in DOMAIN workers, Delivered(i), calm', open'
  PROVE  IInv'
<1>1. calm /\ open
  BY DEF Delivered
<1>2. /\ control \in Controls /\ workers \in Seq(HeardWorkers) /\ kind \in Kinds
      /\ applied \in Kinds /\ detail \in Details
      /\ UNCHANGED <<control, open, detail, setting>>
      /\ IF control.reverts THEN Single ELSE InOrder
  BY <1>1 DEF IInv, Delivered
<1>3. /\ Kinds' = Kinds /\ Details' = Details
      /\ Settings' = Settings /\ HeardWorkers' = HeardWorkers
  BY <1>2 DEF Kinds, Details, Settings, Setting, HeardWorkers
<1>4. /\ i \in 1..Len(workers) /\ Len(workers) \in Nat
      /\ workers[i].at \in {"ok", "err"} /\ workers' = RemoveAt(workers, i)
  BY <1>2 DEF Delivered
<1>5. /\ workers' \in Seq(HeardWorkers) /\ Len(workers') = Len(workers) - 1
      /\ \A j \in 1..(Len(workers) - 1) :
           workers'[j] = IF j < i THEN workers[j] ELSE workers[j + 1]
  BY <1>2, <1>4, RemoveAtFacts
<1>6. CASE control.reverts
  <2>1. Len(workers) = 1 /\ i = 1
    BY <1>2, <1>4, <1>6 DEF Single
  <2>2. workers' = <<>>
    BY <1>5, <2>1
  <2>3. CASE workers[1].at = "ok"
    <3>1. setting = <<kind>> /\ workers[1].ask = <<kind>>
      <4>1. Single
        BY <1>2, <1>6
      <4>2. workers # <<>>
        BY <2>1
      <4> QED
        BY <4>1, <4>2, <2>3 DEF Single
    <3>2. applied' = kind /\ kind' = kind
      BY <1>6, <2>1, <2>3, <3>1 DEF Delivered
    <3>3. Single' /\ kind' \in Kinds /\ applied' \in Kinds
      BY <1>2, <2>2, <3>1, <3>2 DEF Single
    <3> QED
      BY <1>2, <1>3, <1>5, <1>6, <3>3 DEF IInv
  <2>4. CASE workers[1].at = "err"
    <3>1. setting = <<applied>>
      BY <1>2, <1>6, <2>1, <2>4 DEF Single
    <3>2. applied' = applied /\ kind' = applied
      BY <1>6, <2>1, <2>4, <3>1 DEF Delivered
    <3>3. Single' /\ kind' \in Kinds /\ applied' \in Kinds
      BY <1>2, <2>2, <3>1, <3>2 DEF Single
    <3> QED
      BY <1>2, <1>3, <1>5, <1>6, <3>3 DEF IInv
  <2> QED
    BY <1>4, <2>1, <2>3, <2>4
<1>7. CASE ~control.reverts
  <2> DEFINE at(j) == IF j < i THEN j ELSE j + 1
  <2>1. UNCHANGED <<kind, applied>> /\ InOrder
    BY <1>2, <1>7 DEF Delivered
  <2>2. Shown' = Shown
    BY <1>2, <2>1 DEF Shown, Setting
  <2>3. \A j \in Running' : j \in 1..(Len(workers) - 1) /\ at(j) \in Running
                            /\ workers'[j].ask = workers[at(j)].ask
    BY <1>2, <1>4, <1>5 DEF Running
  <2>4. ASSUME NEW m \in Running
        PROVE  \E j \in Running' : at(j) = m
    <3>1. m \in 1..Len(workers) /\ m # i /\ workers[m].at = "sent"
      <4>1. m \in 1..Len(workers) /\ workers[m].at = "sent"
        BY <1>2, RunningFacts
      <4> QED
        BY <4>1, <1>4
    <3>2. CASE m < i
      <4>1. m \in 1..(Len(workers) - 1) /\ at(m) = m
        BY <1>4, <3>1, <3>2
      <4>2. m \in Running'
        BY <4>1, <1>5, <3>1, <3>2 DEF Running
      <4> QED
        BY <4>1, <4>2
    <3>3. CASE m > i
      <4>1. m - 1 \in 1..(Len(workers) - 1) /\ at(m - 1) = m /\ ~(m - 1 < i) /\ (m - 1) + 1 = m
        BY <1>4, <3>1, <3>3
      <4>2. workers'[m - 1] = workers[m]
        BY <4>1, <1>5
      <4>3. m - 1 \in Running'
        BY <4>1, <4>2, <1>5, <3>1 DEF Running
      <4> QED
        BY <4>1, <4>3
    <3>4. m < i \/ m > i
      BY <1>4, <3>1
    <3> QED
      BY <3>2, <3>3, <3>4
  <2>5. Running' = {} => setting' = Shown'
    BY <2>1, <2>2, <2>4, <1>2 DEF InOrder
  <2>6. ASSUME NEW k \in Running', \A j \in Running' : j <= k
        PROVE  workers'[k].ask = Shown'
    <3>1. at(k) \in Running /\ workers'[k].ask = workers[at(k)].ask
      BY <2>3
    <3>2. ASSUME NEW m \in Running
          PROVE  m <= at(k)
      <4>1. PICK j \in Running' : at(j) = m
        BY <2>4
      <4>2. j <= k /\ j \in Int /\ k \in Int /\ i \in Int
        BY <2>3, <2>6, <1>4
      <4> QED
        BY <4>1, <4>2
    <3> QED
      BY <3>1, <3>2, <2>1, <2>2 DEF InOrder
  <2>7. InOrder'
    BY <2>5, <2>6 DEF InOrder
  <2> QED
    BY <1>2, <1>3, <1>5, <1>7, <2>1, <2>7 DEF IInv
<1> QED
  BY <1>6, <1>7

-----------------------------------------------------------------------------
\* No step breaks it; where a mishap happened or no window is open it says little.
LEMMA IInvInductive == IInv /\ [Next]_vars => IInv'
<1> SUFFICES ASSUME IInv, [Next]_vars
             PROVE  IInv'
  OBVIOUS
<1>1. control' = control /\ control \in Controls
  BY DEF IInv, Next, vars, widgets, Open, Close, Choose, ChooseDetail, Work, Deliver,
         Served, Failed, Delivered, OtherClient
<1>2. CASE ~(calm' /\ open')
  BY <1>1, <1>2 DEF IInv
<1>3. CASE calm' /\ open'
  <2>1. CASE Open
    BY <2>1, <1>3, OpenStep
  <2>2. CASE Close
    BY <2>2, <1>3 DEF Close
  <2>3. ASSUME NEW k \in Kinds, Choose(k)
        PROVE  IInv'
    BY <2>3, <1>3, ChooseStep
  <2>4. ASSUME NEW d \in Details, ChooseDetail(d)
        PROVE  IInv'
    BY <2>4, <1>3, DetailStep
  <2>5. ASSUME NEW i \in Running, Served(i)
        PROVE  IInv'
    BY <2>5, <1>3, ServedStep
  <2>6. ASSUME NEW i \in Running, Failed(i)
        PROVE  IInv'
    BY <2>6, <1>3, FailedStep
  <2>7. ASSUME NEW i \in DOMAIN workers, Delivered(i)
        PROVE  IInv'
    BY <2>7, <1>3, DeliveredStep
  <2>8. CASE OtherClient
    BY <2>8, <1>3 DEF OtherClient
  <2>9. CASE UNCHANGED vars
    <3>1. UNCHANGED <<control, open, kind, detail, applied, workers, setting, calm>>
      BY <2>9 DEF vars, widgets
    <3>2. /\ Kinds' = Kinds /\ Details' = Details /\ HeardWorkers' = HeardWorkers
          /\ Shown' = Shown /\ Running' = Running
      BY <3>1 DEF Kinds, Details, HeardWorkers, Settings, Setting, Shown, Running
    <3>3. Single' = Single /\ InOrder' = InOrder
      BY <3>1, <3>2 DEF Single, InOrder
    <3> QED
      BY <3>1, <3>2, <3>3 DEF IInv
  <2> QED
    BY <2>1, <2>2, <2>3, <2>4, <2>5, <2>6, <2>7, <2>8, <2>9 DEF Next, Work, Deliver
<1> QED
  BY <1>2, <1>3

\* So it holds in every reachable state.
LEMMA IInvAlways == Spec => []IInv
<1>1. Init => IInv
  BY DEF Init, IInv
<1> QED
  BY <1>1, IInvInductive, PTL DEF Spec

\* lighting.rs:153-208, performance.rs:90-150, automation.rs:44-61, display.rs:245-265:
\* after any number of requests, and of failed switches of the graphics mode,
\* the window at rest shows what the daemon is set to (the invariant of gui_choice).
THEOREM RestCorrect == Spec => []RestShowsSetting
<1>1. IInv => RestShowsSetting
  <2> SUFFICES ASSUME IInv, calm, open, workers = <<>>
               PROVE  setting = Shown
    BY DEF RestShowsSetting
  <2>1. CASE control.reverts
    <3>1. Single /\ kind \in Kinds /\ control \in Controls
      BY <2>1 DEF IInv
    <3>2. Len(workers) # 1
      OBVIOUS
    <3>3. setting = <<kind>>
      BY <3>1, <3>2 DEF Single
    <3>4. Shown = <<kind>>
      BY <3>1, <2>1, ControlFacts DEF Shown, Setting
    <3> QED
      BY <3>3, <3>4
  <2>2. CASE ~control.reverts
    <3>1. InOrder
      BY <2>2 DEF IInv
    <3>2. Running = {}
      BY DEF Running
    <3> QED
      BY <3>1, <3>2 DEF InOrder
  <2> QED
    BY <2>1, <2>2
<1> QED
  BY <1>1, IInvAlways, PTL

\* display.rs:262: the mode a failed switch puts back is the active one.
THEOREM AppliedCorrect == Spec => []AppliedIsActive
<1>1. IInv => AppliedIsActive
  <2> SUFFICES ASSUME IInv, calm, open, control.reverts, Running = {}
               PROVE  AppliedIsActive
    BY DEF AppliedIsActive
  <2>1. Single
    BY DEF IInv
  <2>2. CASE Len(workers) = 1 /\ workers[1].at = "sent"
    BY <2>2 DEF Running, IInv
  <2>3. CASE Len(workers) = 1 /\ workers[1].at = "ok" /\ setting = workers[1].ask
    <3>1. 1 \in DOMAIN workers
      BY <2>3 DEF IInv
    <3> QED
      BY <2>3, <3>1 DEF AppliedIsActive
  <2>4. CASE setting = <<applied>>
    BY <2>4 DEF AppliedIsActive
  <2> QED
    BY <2>1, <2>2, <2>3, <2>4 DEF Single
<1> QED
  BY <1>1, IInvAlways, PTL
-----------------------------------------------------------------------------
(* The types *)

Workers == [ask : Settings, at : {"sent", "unheard", "ok", "err"}]

\* A request or setting names one of the kinds, and a detail if it has two parts.
LEMMA SettingFacts ==
  ASSUME NEW s \in Settings
  PROVE  s[1] \in Kinds /\ (Len(s) = 2 => s[2] \in Details)
<1>1. PICK k \in Kinds, d \in Details : s = Setting(k, d)
  BY DEF Settings
<1>2. s = <<k, d>> \/ s = <<k>>
  BY <1>1 DEF Setting
<1> QED
  BY <1>2

\* The control stays what it is, and with it what it offers.
LEMMA SameControl ==
  ASSUME control' = control
  PROVE  /\ Kinds' = Kinds /\ Details' = Details
         /\ Settings' = Settings /\ Workers' = Workers
BY DEF Kinds, Details, Settings, Setting, Workers

LEMMA TypeInit == Init => TypeOK
<1> SUFFICES ASSUME Init
             PROVE  TypeOK
  OBVIOUS
<1>1. control.kinds[1] \in Kinds /\ control.details[1] \in Details
  BY ControlFacts DEF Init
<1>2. workers = <<>>
  BY DEF Init
<1>3. workers \in Seq(Workers)
  BY <1>2
<1> QED
  BY <1>1, <1>3 DEF Init, TypeOK, Workers

\* The window opens on a choice it offers, whatever the daemon answers.
LEMMA TypeOpen ==
  ASSUME TypeOK, Open
  PROVE  TypeOK'
<1>1. /\ UNCHANGED <<control, workers, setting>> /\ open' = TRUE /\ asked' = {}
      /\ control \in Controls
  BY DEF Open, TypeOK
<1>2. /\ control.kinds[1] \in Kinds /\ control.details[1] \in Details
      /\ control.unanswered \subseteq Kinds
  BY <1>1, ControlFacts, ChoiceAssumption DEF IsControl, Kinds
<1>3. CASE Seed /\ calm' = (setting \in Settings /\ workers = <<>>)
  <2>1. kind' \in Kinds /\ detail' \in Details /\ applied' = kind'
    BY <1>2, <1>3, SettingFacts DEF Seed
  <2>2. calm' \in BOOLEAN
    BY <1>3
  <2> QED
    BY <1>1, <2>1, <2>2, SameControl DEF TypeOK, Workers
<1>4. CASE /\ kind' \in control.unanswered /\ calm' = FALSE
           /\ detail' = control.details[1] /\ applied' = kind'
  <2>1. kind' \in Kinds /\ detail' \in Details /\ applied' = kind' /\ calm' \in BOOLEAN
    BY <1>2, <1>4
  <2> QED
    BY <1>1, <2>1, SameControl DEF TypeOK, Workers
<1> QED
  BY <1>3, <1>4 DEF Open

\* What runs goes on unheard.
LEMMA TypeClose ==
  ASSUME TypeOK, Close
  PROVE  TypeOK'
<1> DEFINE n == Cardinality(Running)
<1>1. PICK kept \in [1..n -> Running] :
        workers' = [i \in DOMAIN kept |-> [workers[kept[i]] EXCEPT !.at = "unheard"]]
  BY DEF Close
<1>2. workers \in Seq(Workers)
  BY DEF TypeOK, Workers
<1>3. n \in Nat
  <2>1. IsFiniteSet(1..Len(workers)) /\ Running \subseteq 1..Len(workers)
    <3>1. 1..Len(workers) = DOMAIN workers /\ Len(workers) \in Nat
      BY <1>2
    <3>2. IsFiniteSet(1..Len(workers))
      <4>1. 1 \in Int /\ Len(workers) \in Int
        BY <3>1
      <4> QED
        BY <4>1, FS_Interval
    <3> QED
      BY <3>1, <3>2 DEF Running
  <2> QED
    BY <2>1, FS_Subset, FS_CardinalityType
<1> HIDE DEF n
<1>4. ASSUME NEW i \in 1..n
      PROVE  [workers[kept[i]] EXCEPT !.at = "unheard"] \in Workers
  <2>1. kept[i] \in DOMAIN workers
    BY DEF Running
  <2>2. workers[kept[i]] \in Workers
    BY <1>2, <2>1
  <2> QED
    BY <2>2 DEF Workers
<1>5. workers' = [i \in 1..n |-> [workers[kept[i]] EXCEPT !.at = "unheard"]]
  BY <1>1
<1>6. workers' \in Seq(Workers)
  BY <1>3, <1>4, <1>5
<1>7. UNCHANGED <<control, kind, detail, applied, setting, asked, calm>> /\ open' = FALSE
  BY DEF Close, widgets
<1> QED
  BY <1>6, <1>7, SameControl DEF TypeOK, Workers

\* A request more, or none.
LEMMA TypeChoose ==
  ASSUME TypeOK, NEW k \in Kinds, Choose(k)
  PROVE  TypeOK'
<1>1. UNCHANGED <<control, open, detail, applied, setting>> /\ kind' = k
  BY DEF Choose
<1>2. workers \in Seq(Workers) /\ detail \in Details
  BY DEF TypeOK, Workers
<1>3. Setting(k, detail) \in Settings
  BY <1>2 DEF Settings
<1>4. workers' \in Seq(Workers) /\ asked' \subseteq Settings
  <2>1. CASE control.reverts /\ applied = k
    BY <2>1, <1>2 DEF Choose, TypeOK
  <2>2. CASE ~(control.reverts /\ applied = k)
    <3> DEFINE new == [ask |-> Setting(k, detail), at |-> "sent"]
    <3>1. new \in Workers
      BY <1>3 DEF Workers
    <3>2. workers' = Append(workers, new) /\ asked' = {Setting(k, detail)}
      BY <2>2 DEF Choose, Send
    <3> HIDE DEF new
    <3> QED
      BY <3>1, <3>2, <1>2, <1>3
  <2> QED
    BY <2>1, <2>2
<1>5. calm' \in BOOLEAN
  BY DEF Choose
<1> QED
  BY <1>1, <1>4, <1>5, SameControl DEF TypeOK, Workers

LEMMA TypeDetail ==
  ASSUME TypeOK, NEW d \in Details, ChooseDetail(d)
  PROVE  TypeOK'
<1>1. UNCHANGED <<control, open, kind, applied, setting, calm>> /\ detail' = d
  BY DEF ChooseDetail
<1>2. workers \in Seq(Workers) /\ kind \in Kinds
  BY DEF TypeOK, Workers
<1>3. Setting(kind, d) \in Settings
  BY <1>2 DEF Settings
<1>4. workers' \in Seq(Workers) /\ asked' \subseteq Settings
  <2>1. CASE kind # control.detailed
    BY <2>1, <1>2 DEF ChooseDetail, TypeOK
  <2>2. CASE kind = control.detailed
    <3> DEFINE new == [ask |-> Setting(kind, d), at |-> "sent"]
    <3>1. new \in Workers
      BY <1>3 DEF Workers
    <3>2. workers' = Append(workers, new) /\ asked' = {Setting(kind, d)}
      BY <2>2 DEF ChooseDetail, Send
    <3> HIDE DEF new
    <3> QED
      BY <3>1, <3>2, <1>2, <1>3
  <2> QED
    BY <2>1, <2>2
<1> QED
  BY <1>1, <1>4, SameControl DEF TypeOK, Workers

\* An answer is heard, or its request goes.
LEMMA TypeAnswered ==
  ASSUME workers \in Seq(Workers), NEW i \in Running, NEW outcome \in {"ok", "err"},
         Answered(i, outcome)
  PROVE  workers' \in Seq(Workers) /\ workers[i].ask \in Settings
<1>1. i \in 1..Len(workers) /\ workers[i] \in Workers
  BY DEF Running
<1>2. CASE workers[i].at = "unheard"
  BY <1>1, <1>2, RemoveAtFacts DEF Answered, Workers
<1>3. CASE workers[i].at # "unheard"
  <2>1. [workers[i] EXCEPT !.at = outcome] \in Workers
    BY <1>1 DEF Workers
  <2>2. workers' = [workers EXCEPT ![i] = [workers[i] EXCEPT !.at = outcome]]
    BY <1>3 DEF Answered
  <2> DEFINE new == [workers[i] EXCEPT !.at = outcome]
  <2>3. new \in Workers /\ workers' = [workers EXCEPT ![i] = new]
    BY <2>1, <2>2
  <2> HIDE DEF new
  <2>4. workers' \in Seq(Workers)
    BY <1>1, <2>3
  <2> QED
    BY <2>4, <1>1 DEF Workers
<1> QED
  BY <1>2, <1>3

LEMMA TypeWork ==
  ASSUME TypeOK, NEW i \in Running, Served(i) \/ Failed(i)
  PROVE  TypeOK'
<1>1. UNCHANGED <<control, open, kind, detail, applied, asked>> /\ calm' \in BOOLEAN
  BY DEF Served, Failed, widgets
<1>2. workers \in Seq(Workers)
  BY DEF TypeOK, Workers
<1>3. workers' \in Seq(Workers) /\ (setting' = setting \/ setting' \in Settings)
  BY <1>2, TypeAnswered DEF Served, Failed
<1> QED
  BY <1>1, <1>3, SameControl DEF TypeOK, Workers

LEMMA TypeDelivered ==
  ASSUME TypeOK, NEW i \in DOMAIN workers, Delivered(i)
  PROVE  TypeOK'
<1>1. UNCHANGED <<control, open, detail, setting, asked, calm>>
  BY DEF Delivered
<1>2. workers \in Seq(Workers) /\ kind \in Kinds /\ applied \in Kinds
  BY DEF TypeOK, Workers
<1>3. i \in 1..Len(workers) /\ workers[i].ask \in Settings
  <2>1. i \in 1..Len(workers) /\ workers[i] \in Workers
    BY <1>2
  <2> QED
    BY <2>1 DEF Workers
<1>4. workers' \in Seq(Workers)
  BY <1>2, <1>3, RemoveAtFacts DEF Delivered
<1>5. kind' \in Kinds /\ applied' \in Kinds
  BY <1>2, <1>3, SettingFacts DEF Delivered
<1> QED
  BY <1>1, <1>4, <1>5, SameControl DEF TypeOK, Workers

\* The widgets show choices the control offers, and every request under way
\* and every answer not yet taken, those of a closed window included, is for
\* one of its settings: for every control, any number of requests, windows
\* and failures (the type invariant of gui_choice).
THEOREM TypeCorrect == Spec => []TypeOK
<1>1. ASSUME TypeOK, [Next]_vars
      PROVE  TypeOK'
  <2>1. CASE Open
    BY <1>1, <2>1, TypeOpen
  <2>2. CASE Close
    BY <1>1, <2>2, TypeClose
  <2>3. ASSUME NEW k \in Kinds, Choose(k)
        PROVE  TypeOK'
    BY <1>1, <2>3, TypeChoose
  <2>4. ASSUME NEW d \in Details, ChooseDetail(d)
        PROVE  TypeOK'
    BY <1>1, <2>4, TypeDetail
  <2>5. CASE Work
    BY <1>1, <2>5, TypeWork DEF Work
  <2>6. CASE Deliver
    BY <1>1, <2>6, TypeDelivered DEF Deliver
  <2>7. CASE OtherClient
    <3>1. /\ UNCHANGED <<control, open, kind, detail, applied, workers, asked>>
          /\ calm' \in BOOLEAN /\ setting' \in Settings \cup control.foreign
      BY <2>7 DEF OtherClient, widgets
    <3> QED
      BY <1>1, <3>1, SameControl DEF TypeOK, Workers
  <2>8. CASE UNCHANGED vars
    <3>1. UNCHANGED <<control, open, kind, detail, applied, workers, setting, asked, calm>>
      BY <2>8 DEF vars, widgets
    <3> QED
      BY <1>1, <3>1, SameControl DEF TypeOK, Workers
  <2> QED
    BY <1>1, <2>1, <2>2, <2>3, <2>4, <2>5, <2>6, <2>7, <2>8 DEF Next
<1> QED
  BY <1>1, TypeInit, PTL DEF Spec
=============================================================================
