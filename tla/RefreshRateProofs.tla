------------------------- MODULE RefreshRateProofs -------------------------
(***************************************************************************)
(* What holds of the display's refresh rate for every listing of modes,    *)
(* any number of adapters, readable or not, and of requests under way.     *)
(***************************************************************************)
EXTENDS RefreshRate, FiniteSetTheorems, SequenceTheorems, WellFoundedInduction, TLAPS

-----------------------------------------------------------------------------
(* Sequences in ascending order *)

LEMMA Least ==
  ASSUME NEW S, S \subseteq Nat, S # {}
  PROVE  \E x \in S : \A y \in S : x <= y
<1>1. PICK x \in S : \A y \in S : <<y, x>> \notin OpToRel(<, Nat)
  BY WFMin, NatLessThanWellFounded, Zenon
<1>2. \A y \in S : ~(y < x)
  BY <1>1, Zenon DEF OpToRel
<1>3. \A y \in S : x <= y
  BY <1>2
<1> QED BY <1>3

Lists(c, F, T) ==
  /\ c \in [1..Cardinality(T) -> T] /\ Range(c) = T
  /\ \A i, j \in 1..Cardinality(T) : i < j => F[c[i]] < F[c[j]]

\* The lowest first, then the others.
LEMMA LowestFirst ==
  ASSUME NEW F, NEW T, IsFiniteSet(T), NEW x \in T, \A y \in T : F[y] \in Nat,
         \A y \in T \ {x} : F[x] < F[y], NEW d, Lists(d, F, T \ {x})
  PROVE  \E c : Lists(c, F, T)
<1> DEFINE R == T \ {x}
           n == Cardinality(T)
           c == [k \in 1..n |-> IF k = 1 THEN x ELSE d[k - 1]]
<1>1. n \in Nat /\ n # 0 /\ Cardinality(R) = n - 1
  BY FS_RemoveElement, FS_EmptySet, FS_CardinalityType
<1>2. /\ d \in [1..(n - 1) -> R] /\ Range(d) = R
      /\ \A i, j \in 1..(n - 1) : i < j => F[d[i]] < F[d[j]]
  BY <1>1 DEF Lists
<1> HIDE DEF n, R
<1>3. ASSUME NEW k \in 1..n, k # 1
      PROVE  k - 1 \in 1..(n - 1) /\ c[k] = d[k - 1] /\ c[k] \in R
  BY <1>1, <1>2, <1>3
<1>4. 1 \in 1..n /\ c[1] = x
  BY <1>1
<1>5. c \in [1..n -> T]
  BY <1>3, <1>4 DEF R
<1>6. Range(c) = T
  <2>1. ASSUME NEW y \in R PROVE \E k \in 1..n : c[k] = y
    <3>1. PICK k \in 1..(n - 1) : d[k] = y
      BY <1>2 DEF Range
    <3>2. k + 1 \in 1..n /\ k + 1 # 1 /\ (k + 1) - 1 = k
      BY <1>1
    <3> QED BY <3>1, <3>2
  <2>2. \A y \in T : \E k \in 1..n : c[k] = y
    BY <1>4, <2>1 DEF R
  <2> HIDE DEF c
  <2> QED BY <1>5, <2>2 DEF Range
<1>7. ASSUME NEW i \in 1..n, NEW j \in 1..n, i < j PROVE F[c[i]] < F[c[j]]
  <2>1. j # 1 /\ c[j] = d[j - 1] /\ c[j] \in R /\ j - 1 \in 1..(n - 1)
    BY <1>3, <1>7
  <2>2. CASE i = 1
    BY <1>4, <2>1, <2>2 DEF R
  <2>3. CASE i # 1
    <3>1. c[i] = d[i - 1] /\ i - 1 \in 1..(n - 1) /\ i - 1 < j - 1
      BY <1>3, <1>7, <2>3
    <3> HIDE DEF c
    <3> QED BY <1>2, <2>1, <3>1
  <2> QED BY <2>2, <2>3
<1> QED BY <1>5, <1>6, <1>7, Zenon DEF Lists, n

LEMMA ListEmpty == ASSUME NEW F PROVE \E c : Lists(c, F, {})
<1> DEFINE c == [k \in 1..0 |-> k]
<1>1. Cardinality({}) = 0 /\ 1..0 = {}
  BY FS_EmptySet
<1>2. c \in [1..0 -> {}] /\ Range(c) = {}
  BY <1>1 DEF Range
<1>3. Lists(c, F, {})
  BY <1>1, <1>2 DEF Lists
<1> QED BY <1>3

\* A finite set without two members of the same value can be listed.
LEMMA Ascending ==
  ASSUME NEW F, NEW S, IsFiniteSet(S), \A i \in S : F[i] \in Nat,
         \A i, j \in S : F[i] = F[j] => i = j
  PROVE  \E c : Lists(c, F, S)
<1> DEFINE Bad == {n \in Nat : \E T \in SUBSET S : Cardinality(T) = n /\ ~ \E c : Lists(c, F, T)}
<1>1. ASSUME Bad # {} PROVE FALSE
  <2>1. PICK n \in Bad : \A m \in Bad : n <= m
    BY <1>1, Least
  <2>2. PICK T \in SUBSET S : Cardinality(T) = n /\ ~ \E c : Lists(c, F, T)
    BY <2>1
  <2>3. IsFiniteSet(T) /\ T # {} /\ n \in Nat
    <3>1. T # {}
      BY <2>2, ListEmpty
    <3>2. IsFiniteSet(T)
      BY FS_Subset
    <3>3. n \in Nat
      BY <2>1
    <3> QED BY <3>1, <3>2, <3>3
  <2>4. PICK x \in T : \A y \in T : F[x] <= F[y]
    <3> DEFINE V == {F[i] : i \in T}
    <3>1. V # {} /\ V \subseteq Nat
      BY <2>3
    <3>2. PICK v \in V : \A w \in V : v <= w
      BY <3>1, Least
    <3> QED BY <3>2
  <2>5. \A y \in T \ {x} : F[x] < F[y]
    BY <2>4
  <2>6. T \ {x} \in SUBSET S /\ Cardinality(T \ {x}) = n - 1 /\ n - 1 \in Nat
    <3>1. IsFiniteSet(T \ {x}) /\ Cardinality(T \ {x}) = n - 1
      BY <2>2, <2>3, FS_RemoveElement
    <3> QED BY <3>1, FS_CardinalityType
  <2>7. n - 1 \notin Bad
    BY <2>1, <2>3
  <2>8. PICK d : Lists(d, F, T \ {x})
    BY <2>6, <2>7
  <2>9. \E c : Lists(c, F, T)
    BY <2>3, <2>5, <2>8, LowestFirst
  <2> QED BY <2>2, <2>9
<1>2. Cardinality(S) \in Nat /\ S \in SUBSET S
  BY FS_CardinalityType
<1> QED BY <1>1, <1>2

-----------------------------------------------------------------------------
(* The rates on offer *)

LEMMA ListingFacts ==
  ASSUME modes \in Listings
  PROVE  /\ DOMAIN modes \subseteq Nat /\ DOMAIN modes # {} /\ IsFiniteSet(DOMAIN modes)
         /\ \A i \in DOMAIN modes : modes[i].rate \in Nat /\ Hz(modes[i].rate) \in Nat
<1>1. DOMAIN modes = 1..Len(modes) /\ Len(modes) \in Nat \ {0}
  BY RateAssumption
<1>2. IsFiniteSet(DOMAIN modes)
  BY <1>1, FS_Interval
<1>3. \A i \in DOMAIN modes : modes[i].rate \in Nat
  BY RateAssumption DEF IsMode
<1>4. ASSUME NEW r \in Nat PROVE Hz(r) \in Nat
  BY DEF Hz
<1>5. DOMAIN modes \subseteq Nat /\ DOMAIN modes # {}
  BY <1>1
<1> QED BY <1>2, <1>3, <1>4, <1>5

Same(current)  == {i \in DOMAIN modes : modes[i].resolution = modes[current].resolution}
First(current) == {i \in Same(current) :
                     \A j \in Same(current) : j < i => Hz(modes[j].rate) # Hz(modes[i].rate)}

\* Every rounded rate of a resolution is on offer, by the first mode of it.
LEMMA FirstFacts ==
  ASSUME modes \in Listings, NEW current \in DOMAIN modes
  PROVE  /\ IsFiniteSet(First(current)) /\ First(current) # {}
         /\ First(current) \subseteq DOMAIN modes
         /\ \A i, j \in First(current) : Hz(modes[i].rate) = Hz(modes[j].rate) => i = j
         /\ \A i \in Same(current) : \E j \in First(current) : Hz(modes[j].rate) = Hz(modes[i].rate)
<1> DEFINE S == Same(current)
           F == First(current)
<1>1. S \subseteq DOMAIN modes /\ S \subseteq Nat /\ current \in S
  BY ListingFacts DEF Same
<1>2. F = {i \in S : \A j \in S : j < i => Hz(modes[j].rate) # Hz(modes[i].rate)}
  BY DEF First
<1> HIDE DEF S, F
<1>3. F \subseteq DOMAIN modes /\ IsFiniteSet(F)
  <2>1. F \in SUBSET DOMAIN modes
    BY <1>1, <1>2
  <2> QED BY <2>1, ListingFacts, FS_Subset
<1>4. \A i, j \in F : Hz(modes[i].rate) = Hz(modes[j].rate) => i = j
  <2> SUFFICES ASSUME NEW i \in F, NEW j \in F, Hz(modes[i].rate) = Hz(modes[j].rate) PROVE i = j
    OBVIOUS
  <2>1. ~(i < j) /\ ~(j < i)
    BY <1>2
  <2> QED BY <1>1, <1>2, <2>1
<1>5. ASSUME NEW i \in S PROVE \E j \in F : Hz(modes[j].rate) = Hz(modes[i].rate)
  <2> DEFINE E == {j \in S : Hz(modes[j].rate) = Hz(modes[i].rate)}
  <2>1. E \subseteq Nat /\ E # {}
    BY <1>1
  <2>2. PICK j \in E : \A k \in E : j <= k
    BY <2>1, Least
  <2>3. \A k \in S : k < j => Hz(modes[k].rate) # Hz(modes[j].rate)
    BY <1>1, <2>2
  <2> QED BY <1>2, <2>2, <2>3
<1>6. F # {}
  BY <1>1, <1>5
<1> QED BY <1>3, <1>4, <1>5, <1>6 DEF S, F

\* What is offered: modes of the display, of which the first is the slowest at
\* its resolution.
Offered(c) ==
  /\ c \in Seq(DOMAIN modes) /\ 1 \in DOMAIN c
  /\ \A i \in DOMAIN modes :
       modes[i].resolution = modes[c[1]].resolution => Hz(modes[c[1]].rate) <= Hz(modes[i].rate)

LEMMA CandidateFacts ==
  ASSUME modes \in Listings, NEW current \in DOMAIN modes
  PROVE  Offered(rate_candidates(current))
<1> DEFINE first == First(current)
           n == Cardinality(first)
           F == [i \in first |-> Hz(modes[i].rate)]
           G(c) == Range(c) = first /\ \A i, j \in DOMAIN c : i < j => Hz(modes[c[i]].rate) < Hz(modes[c[j]].rate)
           chosenlist == rate_candidates(current)
<1>1. /\ IsFiniteSet(first) /\ first # {} /\ first \subseteq DOMAIN modes
      /\ \A i, j \in first : Hz(modes[i].rate) = Hz(modes[j].rate) => i = j
      /\ \A i \in Same(current) : \E j \in first : Hz(modes[j].rate) = Hz(modes[i].rate)
  BY FirstFacts
<1>2. n \in Nat /\ n # 0
  BY <1>1, FS_CardinalityType, FS_EmptySet
<1>3. chosenlist = CHOOSE c \in [1..n -> first] : G(c)
  BY Zenon DEF rate_candidates, First, Same
<1>4. \E c \in [1..n -> first] : G(c)
  <2> HIDE DEF first
  <2>1. /\ \A i \in first : F[i] \in Nat
        /\ \A i, j \in first : F[i] = F[j] => i = j
    BY <1>1, ListingFacts
  <2> HIDE DEF F
  <2>2. PICK c : Lists(c, F, first)
    BY <1>1, <2>1, Ascending
  <2>3. c \in [1..n -> first] /\ Range(c) = first /\ \A i, j \in 1..n : i < j => F[c[i]] < F[c[j]]
    BY <2>2 DEF Lists
  <2>4. \A i \in 1..n : F[c[i]] = Hz(modes[c[i]].rate)
    BY <2>3 DEF F
  <2> HIDE DEF n
  <2>5. G(c)
    BY <2>3, <2>4
  <2> QED BY <2>3, <2>5
<1>5. chosenlist \in [1..n -> first] /\ G(chosenlist)
  <2> HIDE DEF n, first, G, chosenlist
  <2> QED BY <1>3, <1>4, Zenon
<1> HIDE DEF n, first, chosenlist
<1>6. chosenlist \in Seq(DOMAIN modes) /\ 1 \in DOMAIN chosenlist
  BY <1>1, <1>2, <1>5
<1>7. chosenlist[1] \in first /\ modes[chosenlist[1]].resolution = modes[current].resolution
  <2>1. chosenlist[1] \in first
    BY <1>2, <1>5
  <2> QED BY <2>1 DEF first, First, Same
<1>8. ASSUME NEW i \in DOMAIN modes, modes[i].resolution = modes[chosenlist[1]].resolution
      PROVE  Hz(modes[chosenlist[1]].rate) <= Hz(modes[i].rate)
  <2>1. i \in Same(current)
    BY <1>7, <1>8 DEF Same
  <2>2. PICK j \in first : Hz(modes[j].rate) = Hz(modes[i].rate)
    BY <1>1, <2>1
  <2>3. PICK k \in 1..n : chosenlist[k] = j
    BY <1>5 DEF Range
  <2>4. CASE k = 1
    BY <1>1, <2>2, <2>3, <2>4, ListingFacts
  <2>5. CASE k # 1
    <3>1. 1 < k /\ 1 \in 1..n /\ DOMAIN chosenlist = 1..n
      BY <1>2, <1>5, <2>3, <2>5
    <3>2. Hz(modes[chosenlist[1]].rate) < Hz(modes[j].rate)
      BY <1>5, <2>3, <3>1
    <3>3. Hz(modes[chosenlist[1]].rate) \in Nat /\ Hz(modes[i].rate) \in Nat
      BY <1>1, <1>7, ListingFacts
    <3> QED BY <2>2, <3>2, <3>3
  <2> QED BY <2>4, <2>5
<1> QED BY <1>6, <1>8 DEF Offered, chosenlist

LEMMA InitialFacts ==
  ASSUME NEW c, 1 \in DOMAIN c, NEW current
  PROVE  /\ Initial(c, current) \in DOMAIN c
         /\ current \in Range(c) => c[Initial(c, current)] = current
BY DEF Initial, Range

-----------------------------------------------------------------------------
(* The inductive invariant *)

\* What the display will have when every request has come through.
Latest == IF workers = <<>> THEN active ELSE workers[Len(workers)]

TypeInv ==
  /\ modes \in Listings /\ active \in DOMAIN modes
  /\ online \subseteq External
  /\ open \in BOOLEAN /\ rule \in BOOLEAN /\ calm \in BOOLEAN
  /\ Offered(candidates) /\ chosen \in DOMAIN candidates
  /\ last_power \in {{}, {TRUE}, {FALSE}}
  /\ poll \in {"none", "ac", "battery", "unknown"}
  /\ workers \in Seq(DOMAIN modes) /\ Len(workers) <= MaxWorkers + 1

\* Short of a mishap it will have the rate the row shows, or, with the rule on
\* and the battery seen, the lowest.
FollowInv ==
  calm /\ open =>
    \/ Latest = candidates[chosen]
    \/ rule /\ last_power = {FALSE} /\ Latest = candidates[1]

IInv == TypeInv /\ FollowInv

-----------------------------------------------------------------------------
(* Requests *)

\* A process that has ended leaves the others as they were; while it is not
\* the only one, the last request remains the last.
LEMMA OneRequestLess ==
  ASSUME NEW S, NEW s \in Seq(S), NEW i \in 1..Len(s)
  PROVE  /\ RemoveAt(s, i) \in Seq(S) /\ Len(RemoveAt(s, i)) = Len(s) - 1
         /\ i = 1 /\ Len(s) > 1 => RemoveAt(s, i)[Len(s) - 1] = s[Len(s)]
<1> DEFINE a == SubSeq(s, 1, i - 1)
           b == SubSeq(s, i + 1, Len(s))
<1>1. /\ \A k \in 1..(i - 1) : s[k] \in S
      /\ \A k \in (i + 1)..Len(s) : s[k] \in S
      /\ Len(s) \in Nat
  OBVIOUS
<1>2. a \in Seq(S) /\ Len(a) = i - 1
  <2>1. a \in Seq(S) /\ Len(a) = IF 1 <= i - 1 THEN (i - 1) - 1 + 1 ELSE 0
    BY <1>1, SubSeqProperties
  <2> HIDE DEF a
  <2> QED BY <2>1
<1>3. /\ b \in Seq(S) /\ Len(b) = Len(s) - i
      /\ \A k \in 1..(Len(s) - i) : b[k] = s[i + k]
  <2>1. /\ b \in Seq(S) /\ Len(b) = IF i + 1 <= Len(s) THEN Len(s) - (i + 1) + 1 ELSE 0
        /\ \A k \in 1..(Len(s) - (i + 1) + 1) : b[k] = s[(i + 1) + k - 1]
    BY <1>1, SubSeqProperties
  <2> HIDE DEF b
  <2>2. \A k \in 1..(Len(s) - i) : (i + 1) + k - 1 = i + k /\ k \in 1..(Len(s) - (i + 1) + 1)
    BY <1>1
  <2> QED BY <1>1, <2>1, <2>2
<1>4. RemoveAt(s, i) = a \o b
  BY DEF RemoveAt
<1> HIDE DEF a, b
<1>5. /\ a \o b \in Seq(S) /\ Len(a \o b) = Len(a) + Len(b)
      /\ \A k \in 1..(Len(a) + Len(b)) : (a \o b)[k] = IF k <= Len(a) THEN a[k] ELSE b[k - Len(a)]
  BY <1>2, <1>3, ConcatProperties
<1>6. ASSUME i = 1, Len(s) > 1 PROVE RemoveAt(s, i)[Len(s) - 1] = s[Len(s)]
  <2>1. /\ Len(s) - 1 \in 1..(Len(a) + Len(b)) /\ Len(a) = 0 /\ Len(s) - 1 \in 1..(Len(s) - i)
        /\ i + (Len(s) - 1) = Len(s) /\ ~(Len(s) - 1 <= Len(a)) /\ (Len(s) - 1) - Len(a) = Len(s) - 1
    BY <1>1, <1>2, <1>3, <1>6
  <2>2. (a \o b)[Len(s) - 1] = b[Len(s) - 1]
    BY <1>5, <2>1
  <2>3. b[Len(s) - 1] = s[Len(s)]
    BY <1>3, <2>1
  <2> QED BY <1>4, <2>2, <2>3
<1> QED BY <1>1, <1>2, <1>3, <1>4, <1>5, <1>6

LEMMA RequestFacts ==
  ASSUME workers \in Seq(DOMAIN modes), NEW mode \in DOMAIN modes, Request(mode)
  PROVE  /\ workers' \in Seq(DOMAIN modes) /\ Len(workers') = Len(workers) + 1
         /\ workers' # <<>> /\ workers'[Len(workers')] = mode
BY AppendProperties DEF Request

\* Telemetry has one word for the power source.
LEMMA ReadingTypes ==
  ASSUME NEW hidden
  PROVE  Reading(hidden) \in {"ac", "battery", "unknown"}
<1>1. ASSUME NEW entries PROVE power(ac_from_supplies(entries)) \in {"ac", "battery", "unknown"}
  <2> DEFINE on == ac_from_supplies(entries)
  <2>1. on = {} \/ on = {TRUE} \/ on = {FALSE}
    BY Zenon DEF ac_from_supplies
  <2> HIDE DEF on
  <2>2. on = {} => power(on) = "unknown"
    BY DEF power
  <2>3. on = {TRUE} => power(on) = "ac"
    BY DEF power
  <2>4. on = {FALSE} => power(on) = "battery"
    BY DEF power
  <2>5. power(on) \in {"ac", "battery", "unknown"}
    BY <2>1, <2>2, <2>3, <2>4
  <2> QED BY <2>5 DEF on
<1> QED BY <1>1 DEF Reading

LEMMA OnAcTypes ==
  ASSUME NEW w \in {"none", "ac", "battery", "unknown"}
  PROVE  On_ac(w) \in {{}, {TRUE}, {FALSE}}
<1>1. On_ac(w) = {} \/ On_ac(w) = {w = "ac"}
  BY DEF On_ac
<1>2. (w = "ac") = TRUE \/ (w = "ac") = FALSE
  BY Zenon
<1> QED BY <1>1, <1>2

-----------------------------------------------------------------------------
(* Steps *)

LEMMA InitInv == Init => IInv
<1> SUFFICES ASSUME Init PROVE IInv
  OBVIOUS
<1>1. /\ modes \in Listings /\ active \in DOMAIN modes /\ online \subseteq External
      /\ open = FALSE /\ chosen = 1 /\ rule \in BOOLEAN /\ last_power = {}
      /\ poll = "none" /\ workers = <<>> /\ calm = TRUE
  BY DEF Init
<1>2. Offered(candidates)
  BY <1>1, CandidateFacts DEF Init
<1>3. 1 \in DOMAIN candidates
  BY <1>2 DEF Offered
<1>4. workers \in Seq(DOMAIN modes) /\ Len(workers) <= MaxWorkers + 1
  BY <1>1, RateAssumption
<1> QED BY <1>1, <1>2, <1>3, <1>4 DEF IInv, TypeInv, FollowInv

LEMMA OpenStep == TypeInv /\ Open => IInv'
<1> SUFFICES ASSUME TypeInv, Open PROVE IInv'
  OBVIOUS
<1>1. modes \in Listings /\ active \in DOMAIN modes
  BY DEF TypeInv
<1>2. /\ open' = TRUE /\ UNCHANGED <<modes, active, online, rule, poll, workers>>
      /\ candidates' = rate_candidates(active) /\ chosen' = Initial(candidates', active)
  BY DEF Open, world
<1>3. Offered(candidates')
  BY <1>1, <1>2, CandidateFacts
<1>4. Offered(candidates)'
  BY <1>2, <1>3 DEF Offered
<1>5. /\ chosen' \in DOMAIN candidates'
      /\ active \in Range(candidates') => candidates'[chosen'] = active
  BY <1>2, <1>3, InitialFacts DEF Offered
<1>6. PICK hidden \in SUBSET External :
        /\ last_power' = On_ac(Reading(hidden))
        /\ calm' = (~Misread(hidden) /\ workers = <<>> /\ active \in Range(candidates'))
  BY DEF Open
<1>7. last_power' \in {{}, {TRUE}, {FALSE}}
  <2>1. Reading(hidden) \in {"none", "ac", "battery", "unknown"}
    BY ReadingTypes
  <2> QED BY <1>6, <2>1, OnAcTypes
<1>8. calm' \in BOOLEAN /\ (calm' => workers = <<>> /\ active \in Range(candidates'))
  BY <1>6, Zenon
<1>9. TypeInv'
  BY <1>2, <1>4, <1>5, <1>7, <1>8 DEF TypeInv
<1>10. FollowInv'
  BY <1>2, <1>5, <1>8 DEF FollowInv, Latest
<1> QED BY <1>9, <1>10 DEF IInv

LEMMA CloseStep == IInv /\ Close => IInv'
<1> SUFFICES ASSUME IInv, Close PROVE IInv'
  OBVIOUS
<1>1. /\ open' = FALSE /\ poll' = "none" /\ workers' \in {<<>>, workers}
      /\ UNCHANGED <<modes, active, online, candidates, chosen, rule, last_power>>
  BY DEF Close, world
<1>2. calm' \in BOOLEAN
  BY Zenon DEF Close
<1>3. workers' \in Seq(DOMAIN modes) /\ Len(workers') <= MaxWorkers + 1
  <2>1. <<>> \in Seq(DOMAIN modes) /\ Len(<<>>) <= MaxWorkers + 1
    BY RateAssumption
  <2>2. workers \in Seq(DOMAIN modes) /\ Len(workers) <= MaxWorkers + 1
    BY DEF IInv, TypeInv
  <2> QED BY <1>1, <2>1, <2>2
<1> QED BY <1>1, <1>2, <1>3 DEF IInv, TypeInv, FollowInv, Offered

LEMMA ChooseStep == ASSUME IInv, NEW i \in DOMAIN candidates, Choose(i) PROVE IInv'
<1>1. /\ chosen' = i /\ Len(workers) < MaxWorkers /\ Request(candidates[i])
      /\ UNCHANGED <<modes, active, online, open, candidates, rule, last_power, poll, calm>>
  BY DEF Choose, world
<1>2. candidates[i] \in DOMAIN modes /\ workers \in Seq(DOMAIN modes)
  BY DEF IInv, TypeInv, Offered
<1>3. /\ workers' \in Seq(DOMAIN modes) /\ Len(workers') = Len(workers) + 1
      /\ workers' # <<>> /\ workers'[Len(workers')] = candidates[i]
  BY <1>1, <1>2, RequestFacts
<1>4. Len(workers') <= MaxWorkers + 1
  BY <1>1, <1>2, <1>3, RateAssumption
<1>5. TypeInv'
  BY <1>1, <1>3, <1>4 DEF IInv, TypeInv, Offered
<1>6. FollowInv'
  BY <1>1, <1>3 DEF FollowInv, Latest
<1> QED BY <1>5, <1>6 DEF IInv

LEMMA ToggleStep == IInv /\ ToggleRule => IInv'
<1> SUFFICES ASSUME IInv, ToggleRule PROVE IInv'
  OBVIOUS
<1>1. UNCHANGED <<modes, active, online, open, candidates, chosen, last_power, poll, workers>>
  BY DEF ToggleRule, world
<1>2. rule' \in BOOLEAN /\ calm' \in BOOLEAN
  BY Zenon DEF ToggleRule
<1>3. calm' => calm /\ (rule => workers = <<>> /\ active = candidates[chosen])
  BY Zenon DEF ToggleRule, Deviates
<1>4. TypeInv'
  BY <1>1, <1>2 DEF IInv, TypeInv, Offered
<1>5. Latest' = Latest /\ candidates'[chosen'] = candidates[chosen] /\ open' = open
  BY <1>1 DEF Latest
<1>6. ASSUME calm', open' PROVE Latest' = candidates'[chosen']
  <2>1. CASE rule
    BY <1>3, <1>5, <1>6, <2>1 DEF Latest
  <2>2. CASE ~rule
    BY <1>3, <1>5, <1>6, <2>2 DEF IInv, FollowInv
  <2> QED BY <2>1, <2>2
<1> QED BY <1>4, <1>6 DEF IInv, FollowInv

LEMMA PollStep == ASSUME IInv, NEW hidden \in SUBSET External, Poll(hidden) PROVE IInv'
<1>1. poll' = Reading(hidden) /\ UNCHANGED <<world, page, workers>>
  BY DEF Poll
<1>2. calm' \in BOOLEAN /\ (calm' => calm)
  BY Zenon DEF Poll
<1>3. poll' \in {"none", "ac", "battery", "unknown"}
  BY <1>1, ReadingTypes
<1>4. UNCHANGED <<modes, active, online, open, candidates, chosen, rule, last_power, workers>>
  BY <1>1 DEF world, page
<1>5. TypeInv'
  BY <1>2, <1>3, <1>4 DEF IInv, TypeInv, Offered
<1>6. FollowInv'
  BY <1>2, <1>4 DEF IInv, FollowInv, Latest
<1> QED BY <1>5, <1>6 DEF IInv

\* An unknown source changes nothing, the first one asks for nothing.
LEMMA NotifyStep == IInv /\ Notify => IInv'
<1> SUFFICES ASSUME IInv, Notify PROVE IInv'
  OBVIOUS
<1> DEFINE seen == On_ac(poll)
           quiet == seen = {} \/ last_power = {} \/ seen = last_power \/ ~rule
           mode == candidates[IF seen = {TRUE} THEN chosen ELSE 1]
<1>1. /\ poll' = "none" /\ Len(workers) <= MaxWorkers
      /\ UNCHANGED <<modes, active, online, open, candidates, chosen, rule, calm>>
  BY DEF Notify, world
<1>2. /\ last_power' = IF seen = {} THEN last_power ELSE seen
      /\ quiet => workers' = workers
      /\ ~quiet => Request(mode)
  BY DEF Notify
<1>3. seen \in {{}, {TRUE}, {FALSE}}
  BY OnAcTypes DEF IInv, TypeInv
<1> HIDE DEF seen
<1>4. last_power' \in {{}, {TRUE}, {FALSE}}
  BY <1>2, <1>3 DEF IInv, TypeInv
<1>5. CASE quiet
  <2>1. TypeInv'
    BY <1>1, <1>2, <1>4, <1>5 DEF IInv, TypeInv, Offered
  <2>2. last_power' = last_power \/ last_power = {} \/ ~rule
    BY <1>2, <1>5
  <2>3. Latest' = Latest
    BY <1>1, <1>2, <1>5 DEF Latest
  <2>4. {FALSE} # {}
    OBVIOUS
  <2> HIDE DEF quiet
  <2>5. UNCHANGED <<candidates, chosen, rule, calm, open>>
    BY <1>1
  <2>6. FollowInv'
    BY <2>2, <2>3, <2>4, <2>5, Zenon DEF IInv, FollowInv
  <2> QED BY <2>1, <2>6 DEF IInv
<1>6. CASE ~quiet
  <2>1. mode \in DOMAIN modes /\ workers \in Seq(DOMAIN modes)
    <3>1. mode = candidates[chosen] \/ mode = candidates[1]
      OBVIOUS
    <3>2. \A i \in DOMAIN candidates : candidates[i] \in DOMAIN modes
      BY DEF IInv, TypeInv, Offered
    <3> HIDE DEF mode
    <3> QED BY <3>1, <3>2 DEF IInv, TypeInv, Offered
  <2> HIDE DEF mode
  <2>2. /\ workers' \in Seq(DOMAIN modes) /\ Len(workers') = Len(workers) + 1
        /\ workers' # <<>> /\ workers'[Len(workers')] = mode
    BY <1>2, <1>6, <2>1, RequestFacts
  <2>3. Len(workers') <= MaxWorkers + 1
    BY <1>1, <2>1, <2>2, RateAssumption
  <2>4. TypeInv'
    BY <1>1, <1>4, <2>2, <2>3 DEF IInv, TypeInv, Offered
  <2>5. Latest' = mode
    BY <2>2 DEF Latest
  <2>6. rule /\ seen # {} /\ last_power' = seen
    BY <1>2, <1>6
  <2>7. CASE seen = {TRUE}
    BY <1>1, <2>5, <2>7, <2>4 DEF IInv, FollowInv, mode
  <2>8. CASE seen = {FALSE}
    <3>1. {FALSE} # {TRUE}
      BY Zenon
    <3>2. mode = candidates[1]
      BY <2>8, <3>1 DEF mode
    <3> QED BY <1>1, <2>4, <2>5, <2>6, <2>8, <3>2 DEF IInv, FollowInv
  <2> QED BY <1>3, <2>6, <2>7, <2>8
<1> QED BY <1>5, <1>6

\* The first process to end is the first that was started, or it is a mishap.
LEMMA ApplyStep == ASSUME IInv, NEW i \in DOMAIN workers, Apply(i) PROVE IInv'
<1>1. /\ active' = workers[i] /\ workers' = RemoveAt(workers, i)
      /\ UNCHANGED <<modes, online, open, candidates, chosen, rule, last_power, poll>>
  BY DEF Apply, page
<1>2. calm' \in BOOLEAN /\ (calm' => calm /\ i = 1)
  BY Zenon DEF Apply
<1>3. /\ workers \in Seq(DOMAIN modes) /\ i \in 1..Len(workers) /\ Len(workers) \in Nat
      /\ workers[i] \in DOMAIN modes
  BY DEF IInv, TypeInv
<1>4. /\ workers' \in Seq(DOMAIN modes) /\ Len(workers') = Len(workers) - 1
      /\ i = 1 /\ Len(workers) > 1 => workers'[Len(workers) - 1] = workers[Len(workers)]
  BY <1>1, <1>3, OneRequestLess
<1>5. Len(workers') <= MaxWorkers + 1
  BY <1>3, <1>4, RateAssumption DEF IInv, TypeInv
<1>6. TypeInv'
  BY <1>1, <1>2, <1>3, <1>4, <1>5 DEF IInv, TypeInv, Offered
<1>7. ASSUME i = 1 PROVE Latest' = Latest
  <2>1. workers # <<>> /\ Latest = workers[Len(workers)]
    BY <1>3 DEF Latest
  <2>2. CASE Len(workers) = 1
    <3>1. workers' = <<>>
      BY <1>4, <2>2
    <3>2. Latest' = active'
      BY <3>1 DEF Latest
    <3> QED BY <1>1, <1>7, <2>1, <2>2, <3>2
  <2>3. CASE Len(workers) > 1
    <3>1. workers' # <<>>
      BY <1>3, <1>4, <2>3
    <3> QED BY <1>4, <1>7, <2>1, <2>3, <3>1 DEF Latest
  <2>4. Len(workers) = 1 \/ Len(workers) > 1
    <3>1. \A n \in Nat : \A k \in 1..n : n = 1 \/ n > 1
      OBVIOUS
    <3> QED BY <1>3, <3>1, Zenon
  <2> QED BY <2>2, <2>3, <2>4
<1>8. FollowInv'
  BY <1>1, <1>2, <1>7 DEF IInv, FollowInv
<1> QED BY <1>6, <1>8 DEF IInv

LEMMA FailStep == ASSUME IInv, NEW i \in DOMAIN workers, Fail(i) PROVE IInv'
<1>1. /\ workers' = RemoveAt(workers, i) /\ calm' = FALSE
      /\ UNCHANGED <<modes, active, online, open, candidates, chosen, rule, last_power, poll>>
  BY DEF Fail, page, world
<1>2. workers \in Seq(DOMAIN modes) /\ i \in 1..Len(workers) /\ Len(workers) \in Nat
  BY DEF IInv, TypeInv
<1>3. workers' \in Seq(DOMAIN modes) /\ Len(workers') = Len(workers) - 1
  BY <1>1, <1>2, OneRequestLess
<1>4. Len(workers') <= MaxWorkers + 1
  BY <1>2, <1>3, RateAssumption DEF IInv, TypeInv
<1>5. TypeInv'
  BY <1>1, <1>3, <1>4 DEF IInv, TypeInv, Offered
<1> QED BY <1>1, <1>5 DEF IInv, FollowInv

LEMMA WorldStep == IInv /\ (Replug \/ OtherTool \/ UNCHANGED vars) => IInv'
<1> SUFFICES ASSUME IInv, Replug \/ OtherTool \/ UNCHANGED vars PROVE IInv'
  OBVIOUS
<1>1. CASE Replug
  <2>1. UNCHANGED <<modes, active, open, candidates, chosen, rule, last_power, poll, workers, calm>>
    BY <1>1 DEF Replug, page
  <2>2. online' \subseteq External
    BY <1>1 DEF Replug, IInv, TypeInv
  <2>3. TypeInv'
    BY <2>1, <2>2 DEF IInv, TypeInv, Offered
  <2>4. FollowInv'
    BY <2>1 DEF IInv, FollowInv, Latest
  <2> QED BY <2>3, <2>4 DEF IInv
<1>2. CASE OtherTool
  <2>1. /\ active' \in DOMAIN modes
        /\ UNCHANGED <<modes, online, open, candidates, chosen, rule, last_power, poll, workers>>
    BY <1>2 DEF OtherTool, page
  <2>2. calm' \in BOOLEAN /\ ~(calm' /\ open')
    BY <1>2, <2>1, Zenon DEF OtherTool
  <2>3. TypeInv'
    BY <2>1, <2>2 DEF IInv, TypeInv, Offered
  <2> QED BY <2>2, <2>3 DEF IInv, FollowInv
<1>3. CASE UNCHANGED vars
  <2>1. UNCHANGED <<modes, active, online, open, candidates, chosen, rule, last_power, poll, workers, calm>>
    BY <1>3 DEF vars, world, page
  <2>2. TypeInv'
    BY <2>1 DEF IInv, TypeInv, Offered
  <2>3. FollowInv'
    BY <2>1 DEF IInv, FollowInv, Latest
  <2> QED BY <2>2, <2>3 DEF IInv
<1> QED BY <1>1, <1>2, <1>3

LEMMA Invariance == Spec => []IInv
<1>1. IInv /\ [Next]_vars => IInv'
  <2> SUFFICES ASSUME IInv, [Next]_vars PROVE IInv'
    OBVIOUS
  <2>1. TypeInv
    BY DEF IInv
  <2> QED BY <2>1, OpenStep, CloseStep, ChooseStep, ToggleStep, PollStep, NotifyStep, ApplyStep,
             FailStep, WorldStep DEF Next, Work
<1> QED BY <1>1, InitInv, PTL DEF Spec

-----------------------------------------------------------------------------
(* What follows *)

\* The page and the processes keep their types: every mode requested is one of
\* the display's, and no more requests run than the user may start and one.
THEOREM TypeCorrect == Spec => []TypeOK
<1>1. IInv => TypeOK
  <2> SUFFICES ASSUME IInv PROVE TypeOK
    OBVIOUS
  <2>1. last_power \in SUBSET BOOLEAN /\ Cardinality(last_power) \in {0, 1}
    <3>1. last_power \in {{}, {TRUE}, {FALSE}}
      BY DEF IInv, TypeInv
    <3> QED BY <3>1, FS_EmptySet, FS_Singleton
  <2>2. Cardinality(last_power) <= 1
    BY <2>1
  <2> QED BY <2>1, <2>2 DEF IInv, TypeInv, TypeOK, Offered
<1> QED BY <1>1, Invariance, PTL

\* display.rs:109-111, 149: at rest the display has the rate the row shows, or,
\* while the rule holds it, the lowest of its resolution.
THEOREM RestCorrect == Spec => []RestRate
<1>1. IInv => RestRate
  <2> SUFFICES ASSUME IInv, calm, open, Deviates, workers = <<>>
               PROVE  /\ rule /\ last_power = {FALSE}
                      /\ \A i \in DOMAIN modes :
                           modes[i].resolution = modes[active].resolution
                             => Hz(modes[active].rate) <= Hz(modes[i].rate)
    BY DEF RestRate
  <2>1. Latest = active /\ active # candidates[chosen]
    BY DEF Latest, Deviates
  <2>2. rule /\ last_power = {FALSE} /\ active = candidates[1]
    BY <2>1 DEF IInv, FollowInv
  <2> QED BY <2>2 DEF IInv, TypeInv, Offered
<1> QED BY <1>1, Invariance, PTL
=============================================================================
