------------------------ MODULE ClientSessionProofs ------------------------
(***************************************************************************)
(* Proofs about ClientSession: for every set of request lines, every file  *)
(* somebody may have edited and every beginning of the text that a failed  *)
(* write or a crash may leave, what the daemon is set to is well formed    *)
(* and the file reads back as it.                                          *)
(***************************************************************************)
EXTENDS ClientSession, FiniteSetTheorems, SequenceTheorems, WellFoundedInduction, TLAPS

-----------------------------------------------------------------------------
(* Lines and their values *)

IsListing(lines) == DOMAIN lines = 1..Len(lines) /\ Len(lines) \in Nat

\* A key has one value at most, that of one of its lines.
LEMMA ValueOne ==
  ASSUME NEW lines, IsListing(lines), NEW key
  PROVE  /\ \A v, w \in Value(lines, key) : v = w
         /\ \A v \in Value(lines, key) :
              \E i \in DOMAIN lines : Len(lines[i]) = 2 /\ lines[i][1] = key /\ lines[i][2] = v
<1> DEFINE at == {i \in DOMAIN lines : Len(lines[i]) = 2 /\ lines[i][1] = key}
           last == {j \in at : \A k \in at : k <= j}
<1>1. Value(lines, key) = {lines[i][2] : i \in last}
  BY DEF Value
<1>2. \A i, j \in last : i = j
  BY DEF IsListing
<1> QED BY <1>1, <1>2

\* A set of positions has a last one.
LEMMA LastOne ==
  ASSUME NEW n \in Nat, NEW S, S \subseteq 1..n, S # {}
  PROVE  \E i \in S : \A j \in S : j <= i
<1> DEFINE T == {n - i : i \in S}
<1>1. T \subseteq Nat /\ T # {}
  <2>1. \A i \in S : n - i \in Nat
    OBVIOUS
  <2> QED BY <2>1
<1> HIDE DEF T
<1>2. PICK x \in T : \A y \in T : <<y, x>> \notin OpToRel(<, Nat)
  BY <1>1, WFMin, NatLessThanWellFounded, Zenon
<1>3. \A y \in T : ~(y < x)
  BY <1>1, <1>2, Zenon DEF OpToRel
<1>4. PICK i \in S : x = n - i
  BY DEF T
<1>5. \A j \in S : n - j \in T
  BY DEF T
<1>6. \A j \in S : j <= i
  BY <1>1, <1>3, <1>4, <1>5
<1> QED BY <1>6

\* A key that some line has has a value.
LEMMA ValueSome ==
  ASSUME NEW lines, IsListing(lines), NEW key,
         NEW i \in DOMAIN lines, Len(lines[i]) = 2, lines[i][1] = key
  PROVE  Value(lines, key) # {}
<1> DEFINE at == {j \in DOMAIN lines : Len(lines[j]) = 2 /\ lines[j][1] = key}
           last == {j \in at : \A k \in at : k <= j}
<1>1. at \subseteq 1..Len(lines) /\ at # {} /\ Len(lines) \in Nat
  BY DEF IsListing
<1>2. last # {}
  <2> HIDE DEF at
  <2> QED BY <1>1, LastOne
<1> QED BY <1>2 DEF Value

LEMMA TopOne ==
  ASSUME NEW n \in Nat, NEW S, S \subseteq 1..n
  PROVE  /\ n \in S => {j \in S : \A k \in S : k <= j} = {n}
         /\ n \notin S => S \subseteq 1..(n - 1)
<1>1. ASSUME n \in S
      PROVE  {j \in S : \A k \in S : k <= j} = {n}
  <2>1. \A k \in S : k <= n /\ k \in Int
    OBVIOUS
  <2>2. ASSUME NEW j \in S, \A k \in S : k <= j
        PROVE  j = n
    BY <1>1, <2>1, <2>2
  <2> QED BY <1>1, <2>1, <2>2
<1>2. ASSUME n \notin S, NEW j \in S
      PROVE  j \in 1..(n - 1)
  BY <1>2
<1> QED BY <1>1, <1>2

\* One more line: it replaces the value of its key.
LEMMA ValueAppend ==
  ASSUME NEW S, NEW lines \in Seq(S), NEW c \in S, NEW key
  PROVE  /\ Len(c) = 2 /\ c[1] = key => Value(Append(lines, c), key) = {c[2]}
         /\ ~(Len(c) = 2 /\ c[1] = key) =>
              \A v \in Value(Append(lines, c), key) : v \in Value(lines, key)
<1> DEFINE more == Append(lines, c)
           n == Len(lines) + 1
           at == {j \in DOMAIN lines : Len(lines[j]) = 2 /\ lines[j][1] = key}
           now == {j \in DOMAIN more : Len(more[j]) = 2 /\ more[j][1] = key}
<1>1. /\ DOMAIN more = 1..n /\ DOMAIN lines = 1..(n - 1) /\ n - 1 \in Nat /\ n \in Nat
      /\ more[n] = c /\ \A j \in 1..(n - 1) : more[j] = lines[j]
  OBVIOUS
<1>2. Value(more, key) = {more[i][2] : i \in {j \in now : \A k \in now : k <= j}}
  BY DEF Value
<1>3. Value(lines, key) = {lines[i][2] : i \in {j \in at : \A k \in at : k <= j}}
  BY DEF Value
<1>4. \A j \in 1..n : j \in now <=> Len(more[j]) = 2 /\ more[j][1] = key
  BY <1>1
<1>5. \A j \in 1..(n - 1) : j \in at <=> Len(lines[j]) = 2 /\ lines[j][1] = key
  BY <1>1
<1>6. now \subseteq 1..n /\ at \subseteq 1..(n - 1)
  BY <1>1
<1> HIDE DEF more, n, now, at
<1>7. CASE Len(c) = 2 /\ c[1] = key
  <2>1. n \in now
    BY <1>1, <1>4, <1>7
  <2>3. {j \in now : \A k \in now : k <= j} = {n}
    BY <1>1, <1>6, <2>1, TopOne
  <2>4. Value(more, key) = {c[2]}
    BY <2>3, <1>1, <1>2
  <2> QED BY <2>4, <1>7 DEF more
<1>8. CASE ~(Len(c) = 2 /\ c[1] = key)
  <2>1. n \notin now
    BY <1>1, <1>4, <1>8
  <2>2. now \subseteq 1..(n - 1)
    BY <1>1, <1>6, <2>1, TopOne
  <2>3. \A j : j \in now <=> j \in at
    <3>1. \A j \in 1..(n - 1) : j \in 1..n /\ more[j] = lines[j]
      BY <1>1
    <3>2. \A j \in now : j \in at
      BY <1>4, <1>5, <1>6, <2>2, <3>1
    <3>3. \A j \in at : j \in now
      BY <1>4, <1>5, <1>6, <3>1
    <3> QED BY <3>2, <3>3
  <2>4. \A v \in Value(more, key) : v \in Value(lines, key)
    BY <1>1, <1>2, <1>3, <1>6, <2>3
  <2> QED BY <2>4, <1>8 DEF more
<1> QED BY <1>7, <1>8

-----------------------------------------------------------------------------
(* What the parsers make of a word *)

\* Numbers that can be written and read again, and colours.
Number(n) == Decimal(n) \in DOMAIN Numerals /\ Numerals[Decimal(n)] = n
Color(c)  == c \in DOMAIN Hexes /\ Hexes[c] = c

LEMMA Widths == U8 \subseteq U16 /\ U16 \subseteq Nat /\ {20, 40, 80} \subseteq U8
BY DEF U8, U16

LEMMA ReadsItself ==
  ASSUME NEW n \in U16, Decimal(n) \in DOMAIN Numerals
  PROVE  Numerals[Decimal(n)] = n
<1>1. n \in Nat /\ n <= u16_MAX /\ u16_MAX \in Nat
  BY DEF U16, u16_MAX
<1>2. n \in 0..u16_MAX
  BY <1>1
<1> QED BY <1>2, NumeralAssumption

LEMMA ParseInt ==
  ASSUME NEW text, NEW width, width \subseteq U16
  PROVE  /\ parse_int(text, width) \in Option(width)
         /\ \A n \in parse_int(text, width) : Number(n)
<1>1. \A n \in parse_int(text, width) :
        n \in width /\ text \in DOMAIN Numerals /\ n = Numerals[text]
  BY DEF parse_int
<1>2. parse_int(text, width) \in Option(width)
  BY <1>1 DEF Option
<1>3. ASSUME NEW n \in parse_int(text, width)
      PROVE  Number(n)
  <2>1. n \in U16 /\ text \in DOMAIN Numerals /\ n = Numerals[text]
    BY <1>1
  <2>2. Decimal(n) \in DOMAIN Numerals
    BY <2>1, TextAssumption
  <2>3. Numerals[Decimal(n)] = n
    BY <2>1, <2>2, ReadsItself
  <2> QED BY <2>2, <2>3 DEF Number
<1> QED BY <1>2, <1>3

\* What is written as a number is read as that number or not at all.
LEMMA ReadBack ==
  ASSUME NEW n \in U16, NEW width
  PROVE  /\ parse_int(Decimal(n), width) \subseteq {n}
         /\ Number(n) /\ n \in width => parse_int(Decimal(n), width) = {n}
BY ReadsItself DEF parse_int, Number

LEMMA ParseRgb ==
  ASSUME NEW text
  PROVE  /\ parse_rgb(text) \in Option(Colors)
         /\ \A c \in parse_rgb(text) : Color(c)
BY TextAssumption DEF parse_rgb, Option, Color

LEMMA ManualFacts ==
  ASSUME NEW words
  PROVE  /\ Manual(words) \in Option(FanModes)
         /\ \A m \in Manual(words) : m \in [fan : {"manual"}, rpm : U16] /\ Number(m.rpm)
<1>1. /\ parse_int(words[1], U16) \in Option(U16)
      /\ \A n \in parse_int(words[1], U16) : Number(n)
  BY ParseInt
<1>2. \A m \in Manual(words) : \E n \in parse_int(words[1], U16) : m = [fan |-> "manual", rpm |-> n]
  BY DEF Manual, FanManual
<1>3. \A m \in Manual(words) : m \in [fan : {"manual"}, rpm : U16] /\ Number(m.rpm)
  BY <1>1, <1>2 DEF Option
<1>4. \A m, k \in Manual(words) : m = k
  BY <1>1, <1>2 DEF Option
<1> QED BY <1>3, <1>4 DEF Option, FanModes

LEMMA ParseFan ==
  ASSUME NEW v
  PROVE  /\ parse_fan(v) \in Option(FanModes)
         /\ \A m \in parse_fan(v) : m = FanAuto \/ Number(m.rpm)
<1>1. CASE v = <<"auto">>
  BY <1>1 DEF parse_fan, Some, Option, FanModes
<1>2. CASE v # <<"auto">> /\ parse_fan(v) = Manual(<<v[2]>>)
  BY <1>2, ManualFacts
<1>3. CASE parse_fan(v) = None
  BY <1>3 DEF None, Option
<1> QED BY <1>1, <1>2, <1>3 DEF parse_fan

LEMMA ParsePercent ==
  ASSUME NEW v
  PROVE  /\ parse_percent(v) \in Option(U8)
         /\ \A n \in parse_percent(v) : Number(n)
<1>1. parse_int(v[1], U8) \in Option(U8) /\ \A n \in parse_int(v[1], U8) : Number(n)
  BY ParseInt, Widths
<1>2. None \in Option(U8)
  BY DEF None, Option
<1> QED BY <1>1, <1>2 DEF parse_percent, None

LEMMA ParseCustom ==
  ASSUME NEW cpu, NEW gpu
  PROVE  parse_custom(cpu, gpu) \in Option(Profiles)
<1>1. \A p, q \in parse_custom(cpu, gpu) : p = q /\ p \in Profiles
  BY DEF parse_custom, parse_boost_level, Custom, Profiles
<1> QED BY <1>1 DEF Option

LEMMA ParseProfile ==
  ASSUME NEW v
  PROVE  parse_profile(v) \in Option(Profiles)
<1> DEFINE plain == {p \in {Silent, Balanced, Gaming} : v = <<p.name>>}
           custom == IF Len(v) = 3 /\ v[1] = "custom"
                       THEN parse_custom(v[2], v[3]) ELSE None
<1>1. \A p, q \in plain : p = q /\ p \in Profiles /\ Len(v) = 1
  BY DEF Silent, Balanced, Gaming, Profiles
<1>2. \A p, q \in custom : p = q /\ p \in Profiles /\ Len(v) = 3
  BY ParseCustom DEF None, Option
<1>3. parse_profile(v) = plain \cup custom
  BY DEF parse_profile
<1> HIDE DEF plain, custom
<1>4. \A p \in plain, q \in custom : FALSE
  BY <1>1, <1>2
<1> QED BY <1>1, <1>2, <1>3, <1>4 DEF Option

LEMMA ParseEffect ==
  ASSUME NEW v
  PROVE  /\ parse_effect(v) \in Option(LightingEffects)
         /\ \A e \in parse_effect(v) : e.name = "static" => Color(e.rgb)
<1> DEFINE plain == {[name |-> n] : n \in {x \in {"off", "spectrum", "wave"} : v = <<x>>}}
           static == IF Len(v) = 2 /\ v[1] = "static"
                       THEN {[name |-> "static", rgb |-> c] : c \in parse_rgb(v[2])} ELSE None
<1>1. \A p, q \in plain : p = q /\ p \in LightingEffects /\ p.name # "static" /\ Len(v) = 1
  BY DEF LightingEffects
<1>2. parse_rgb(v[2]) \in Option(Colors) /\ \A c \in parse_rgb(v[2]) : Color(c)
  BY ParseRgb
<1>3. \A p, q \in static : p = q /\ p \in LightingEffects /\ Color(p.rgb) /\ Len(v) = 2
  BY <1>2 DEF LightingEffects, None, Option
<1>4. parse_effect(v) = plain \cup static
  BY DEF parse_effect
<1> HIDE DEF plain, static
<1>5. \A p \in plain, q \in static : FALSE
  BY <1>1, <1>3
<1> QED BY <1>1, <1>3, <1>4, <1>5 DEF Option

LEMMA ParseLogo ==
  ASSUME NEW v
  PROVE  parse_logo(v) \in Option(LogoModes)
BY DEF parse_logo, Option, LogoModes

LEMMA ParseBho ==
  ASSUME NEW value, \A v, w \in value : v = w
  PROVE  /\ parse_bho(value) \in BatteryHealths
         /\ parse_bho(value) \in {BhoOff, BhoUnset} \/ Number(parse_bho(value).limit)
<1> DEFINE limits == UNION {parse_percent(v) : v \in value}
<1>1. \A n \in limits : n \in U8 /\ Number(n)
  BY ParsePercent DEF Option
<1> HIDE DEF limits
<1>2. CASE value = {<<"off">>}
  BY <1>2 DEF parse_bho, BatteryHealths
<1>3. CASE value # {<<"off">>} /\ limits = {}
  BY <1>3 DEF parse_bho, BatteryHealths, limits
<1>4. CASE value # {<<"off">>} /\ limits # {}
  <2> DEFINE n == CHOOSE k \in limits : TRUE
  <2>1. n \in limits
    BY <1>4
  <2>2. parse_bho(value) = BhoLimit(n)
    BY <1>4 DEF parse_bho, limits
  <2> HIDE DEF n
  <2>3. n \in U8 /\ Number(n)
    BY <1>1, <2>1
  <2> QED BY <2>2, <2>3 DEF BhoLimit, BatteryHealths
<1> QED BY <1>2, <1>3, <1>4

-----------------------------------------------------------------------------
(* Settings that can be written *)

FanWritten(option)     == \A m \in option : m = FanAuto \/ Number(m.rpm)
PercentWritten(option) == \A n \in option : Number(n)

\* Settings of their types whose numbers and colours can be written and read.
WellWritten(s) ==
  /\ s \in PersistedStates
  /\ FanWritten(s.fan) /\ FanWritten(s.fan_on_ac) /\ FanWritten(s.fan_on_battery)
  /\ s.battery_health \in {BhoOff, BhoUnset} \/ Number(s.battery_health.limit)
  /\ PercentWritten(s.kbd_brightness) /\ PercentWritten(s.kbd_on_ac)
  /\ PercentWritten(s.kbd_on_battery)
  /\ \A e \in s.kbd_effect : e.name = "static" => Color(e.rgb)

\* What is read of a key with one value, or none.
LEMMA ReadTypes ==
  ASSUME NEW V, \A v, w \in V : v = w
  PROVE  /\ UNION {parse_fan(v) : v \in V} \in Option(FanModes)
         /\ FanWritten(UNION {parse_fan(v) : v \in V})
         /\ UNION {parse_percent(v) : v \in V} \in Option(U8)
         /\ PercentWritten(UNION {parse_percent(v) : v \in V})
         /\ UNION {parse_profile(v) : v \in V} \in Option(Profiles)
         /\ UNION {parse_effect(v) : v \in V} \in Option(LightingEffects)
         /\ \A e \in UNION {parse_effect(v) : v \in V} : e.name = "static" => Color(e.rgb)
         /\ UNION {parse_logo(v) : v \in V} \in Option(LogoModes)
<1>1. CASE V = {}
  BY <1>1 DEF Option, FanWritten, PercentWritten
<1>2. CASE V # {}
  <2>1. PICK v : V = {v}
    BY <1>2
  <2>2. /\ UNION {parse_fan(w) : w \in V} = parse_fan(v)
        /\ UNION {parse_percent(w) : w \in V} = parse_percent(v)
        /\ UNION {parse_profile(w) : w \in V} = parse_profile(v)
        /\ UNION {parse_effect(w) : w \in V} = parse_effect(v)
        /\ UNION {parse_logo(w) : w \in V} = parse_logo(v)
    BY <2>1
  <2> QED BY <2>2, ParseFan, ParsePercent, ParseProfile, ParseEffect, ParseLogo
          DEF FanWritten, PercentWritten
<1> QED BY <1>1, <1>2

\* Whatever file it is given, the daemon reads settings it can write.
LEMMA ParseWellWritten ==
  ASSUME NEW lines, IsListing(lines)
  PROVE  WellWritten(parse(lines))
<1> DEFINE s == parse(lines)
           FanRead(key)     == UNION {parse_fan(v) : v \in Value(lines, key)}
           PercentRead(key) == UNION {parse_percent(v) : v \in Value(lines, key)}
           ProfileRead(key) == UNION {parse_profile(v) : v \in Value(lines, key)}
           EffectRead(key)  == UNION {parse_effect(v) : v \in Value(lines, key)}
           LogoRead(key)    == UNION {parse_logo(v) : v \in Value(lines, key)}
<1>1. \A key : \A v, w \in Value(lines, key) : v = w
  BY ValueOne
<1>2. /\ s.fan = FanRead("fan")
      /\ s.battery_health = parse_bho(Value(lines, "bho"))
      /\ s.fan_on_ac = FanRead("fan_on_ac")
      /\ s.fan_on_battery = FanRead("fan_on_battery")
      /\ s.profile = ProfileRead("profile")
      /\ s.kbd_brightness = PercentRead("kbd_brightness")
      /\ s.kbd_effect = EffectRead("kbd_effect")
      /\ s.logo = LogoRead("logo")
      /\ s.kbd_on_ac = PercentRead("kbd_on_ac")
      /\ s.kbd_on_battery = PercentRead("kbd_on_battery")
      /\ s = [fan |-> s.fan, battery_health |-> s.battery_health,
              fan_on_ac |-> s.fan_on_ac, fan_on_battery |-> s.fan_on_battery,
              profile |-> s.profile, kbd_brightness |-> s.kbd_brightness,
              kbd_effect |-> s.kbd_effect, logo |-> s.logo,
              kbd_on_ac |-> s.kbd_on_ac, kbd_on_battery |-> s.kbd_on_battery]
  BY DEF parse
<1> HIDE DEF s
<1>3. ASSUME NEW key
      PROVE  /\ FanRead(key) \in Option(FanModes) /\ FanWritten(FanRead(key))
             /\ PercentRead(key) \in Option(U8) /\ PercentWritten(PercentRead(key))
             /\ ProfileRead(key) \in Option(Profiles)
             /\ EffectRead(key) \in Option(LightingEffects)
             /\ \A e \in EffectRead(key) : e.name = "static" => Color(e.rgb)
             /\ LogoRead(key) \in Option(LogoModes)
  BY <1>1, ReadTypes
<1> HIDE DEF FanRead, PercentRead, ProfileRead, EffectRead, LogoRead
<1>4. /\ s.fan \in Option(FanModes) /\ FanWritten(s.fan)
      /\ s.fan_on_ac \in Option(FanModes) /\ FanWritten(s.fan_on_ac)
      /\ s.fan_on_battery \in Option(FanModes) /\ FanWritten(s.fan_on_battery)
  BY <1>2, <1>3
<1>5. /\ s.kbd_brightness \in Option(U8) /\ PercentWritten(s.kbd_brightness)
      /\ s.kbd_on_ac \in Option(U8) /\ PercentWritten(s.kbd_on_ac)
      /\ s.kbd_on_battery \in Option(U8) /\ PercentWritten(s.kbd_on_battery)
  BY <1>2, <1>3
<1>6. /\ s.profile \in Option(Profiles) /\ s.logo \in Option(LogoModes)
      /\ s.kbd_effect \in Option(LightingEffects)
      /\ \A e \in s.kbd_effect : e.name = "static" => Color(e.rgb)
  BY <1>2, <1>3
<1>7. /\ s.battery_health \in BatteryHealths
      /\ s.battery_health \in {BhoOff, BhoUnset} \/ Number(s.battery_health.limit)
  BY <1>1, <1>2, ParseBho
<1>8. s \in PersistedStates
  BY <1>2, <1>4, <1>5, <1>6, <1>7 DEF PersistedStates
<1> QED BY <1>4, <1>5, <1>6, <1>7, <1>8 DEF WellWritten, s

LEMMA FactoryWritten == WellWritten(Factory) /\ WellWritten(DefaultState)
<1>1. {20, 40, 80} \subseteq U16 /\ {20, 40, 80} \subseteq U8 /\ \A n \in {20, 40, 80} : Number(n)
  BY Widths, ReadsItself, TextAssumption DEF Number
<1>2. DefaultState \in PersistedStates
  BY DEF DefaultState, PersistedStates, None, Option, BatteryHealths
<1>3. /\ Factory.fan = {} /\ Factory.battery_health = BhoLimit(80)
      /\ Factory.fan_on_ac = {FanAuto} /\ Factory.fan_on_battery = {FanAuto}
      /\ Factory.kbd_brightness = {40} /\ Factory.kbd_on_ac = {40}
      /\ Factory.kbd_on_battery = {20} /\ Factory.kbd_effect = {}
  BY DEF Factory, DefaultState, None, Some
<1>4. /\ {FanAuto} \in Option(FanModes) /\ {40} \in Option(U8) /\ {20} \in Option(U8)
      /\ {} \in Option(FanModes) /\ {} \in Option(Profiles) /\ {} \in Option(LightingEffects)
      /\ {} \in Option(LogoModes)
  <2>1. FanAuto \in FanModes /\ 40 \in U8 /\ 20 \in U8
    BY <1>1 DEF FanModes
  <2> QED BY <2>1 DEF Option
<1>5. BhoLimit(80) \in BatteryHealths /\ BhoLimit(80).limit = 80
  BY <1>1 DEF BatteryHealths, BhoLimit
<1>6. Factory \in PersistedStates
  BY <1>2, <1>4, <1>5 DEF Factory, PersistedStates, Some
<1>7. WellWritten(DefaultState)
  BY <1>2 DEF WellWritten, DefaultState, None, FanWritten, PercentWritten
<1>8. WellWritten(Factory)
  <2>1. /\ FanWritten(Factory.fan) /\ FanWritten(Factory.fan_on_ac)
        /\ FanWritten(Factory.fan_on_battery)
    BY <1>3 DEF FanWritten
  <2>2. /\ PercentWritten(Factory.kbd_brightness) /\ PercentWritten(Factory.kbd_on_ac)
        /\ PercentWritten(Factory.kbd_on_battery)
    BY <1>1, <1>3 DEF PercentWritten
  <2>3. Number(Factory.battery_health.limit)
    BY <1>1, <1>3, <1>5
  <2> QED BY <1>3, <1>6, <2>1, <2>2, <2>3 DEF WellWritten
<1> QED BY <1>7, <1>8

-----------------------------------------------------------------------------
(* Requests *)

\* Operations of their types whose numbers and colours can be written and read.
OperationWritten(o) ==
  /\ o \in RequestedOperations
  /\ o.op = "fan" => FanWritten({o.mode})
  /\ o.op = "bho_limit" => Number(o.limit)
  /\ o.op = "kbd" => PercentWritten({o.percent})
  /\ o.op = "effect" => (o.effect.name = "static" => Color(o.effect.rgb))

LEMMA OperationForms ==
  /\ \A m \in FanModes : FanWritten({m}) => OperationWritten(FanOp(m))
  /\ OperationWritten(BhoOffOp)
  /\ \A n \in U8 : Number(n) => OperationWritten(BhoLimitOp(n)) /\ OperationWritten(KbdOp(n))
  /\ \A p \in Profiles : OperationWritten(ProfileOp(p))
  /\ \A e \in LightingEffects :
       (e.name = "static" => Color(e.rgb)) => OperationWritten(EffectOp(e))
  /\ \A l \in LogoModes : OperationWritten(LogoOp(l))
<1>1. \A m \in FanModes : FanWritten({m}) => OperationWritten(FanOp(m))
  BY DEF FanOp, OperationWritten, RequestedOperations
<1>2. OperationWritten(BhoOffOp)
  BY DEF BhoOffOp, OperationWritten, RequestedOperations
<1>3. \A n \in U8 : Number(n) => OperationWritten(BhoLimitOp(n))
  BY DEF BhoLimitOp, OperationWritten, RequestedOperations
<1>4. \A n \in U8 : Number(n) => OperationWritten(KbdOp(n))
  BY DEF KbdOp, OperationWritten, RequestedOperations, PercentWritten
<1>5. \A p \in Profiles : OperationWritten(ProfileOp(p))
  BY DEF ProfileOp, OperationWritten, RequestedOperations
<1>6. \A e \in LightingEffects :
        (e.name = "static" => Color(e.rgb)) => OperationWritten(EffectOp(e))
  BY DEF EffectOp, OperationWritten, RequestedOperations
<1>7. \A l \in LogoModes : OperationWritten(LogoOp(l))
  BY DEF LogoOp, OperationWritten, RequestedOperations
<1> QED BY <1>1, <1>2, <1>3, <1>4, <1>5, <1>6, <1>7

LEMMA ParseOperation ==
  ASSUME NEW line, NEW o \in parse_operation(line)
  PROVE  OperationWritten(o)
<1>1. \/ o = FanOp(FanAuto)
      \/ \E w : \E m \in Manual(w) : o = FanOp(m)
      \/ o = BhoOffOp
      \/ \E w : \E n \in parse_int(w, U8) : o = BhoLimitOp(n) \/ o = KbdOp(n)
      \/ \E w : \E p \in parse_profile(w) : o = ProfileOp(p)
      \/ \E c, g : \E p \in parse_custom(c, g) : o = ProfileOp(p)
      \/ \E w : \E e \in parse_effect(w) : o = EffectOp(e)
      \/ \E w : \E l \in parse_logo(w) : o = LogoOp(l)
  BY DEF parse_operation
<1>2. FanAuto \in FanModes /\ FanWritten({FanAuto})
  BY DEF FanModes, FanWritten
<1>3. ASSUME NEW w, NEW m \in Manual(w)
      PROVE  m \in FanModes /\ FanWritten({m})
  BY ManualFacts DEF FanModes, FanWritten
<1>4. ASSUME NEW w, NEW n \in parse_int(w, U8)
      PROVE  n \in U8 /\ Number(n)
  BY ParseInt, Widths DEF Option
<1>5. CASE o = FanOp(FanAuto) \/ o = BhoOffOp
  BY <1>2, <1>5, OperationForms
<1>6. CASE \E w : \E m \in Manual(w) : o = FanOp(m)
  BY <1>3, <1>6, OperationForms
<1>7. CASE \E w : \E n \in parse_int(w, U8) : o = BhoLimitOp(n) \/ o = KbdOp(n)
  BY <1>4, <1>7, OperationForms
<1>8. CASE \E w : \E p \in parse_profile(w) : o = ProfileOp(p)
  BY <1>8, ParseProfile, OperationForms DEF Option
<1>9. CASE \E c, g : \E p \in parse_custom(c, g) : o = ProfileOp(p)
  BY <1>9, ParseCustom, OperationForms DEF Option
<1>10. CASE \E w : \E e \in parse_effect(w) : o = EffectOp(e)
  BY <1>10, ParseEffect, OperationForms DEF Option
<1>11. CASE \E w : \E l \in parse_logo(w) : o = LogoOp(l)
  BY <1>11, ParseLogo, OperationForms DEF Option
<1> QED BY <1>1, <1>5, <1>6, <1>7, <1>8, <1>9, <1>10, <1>11

\* What a rule may ask for.
RuleWritten(r) ==
  /\ r.req = "automation" => r.fan \in Option(FanModes) /\ FanWritten(r.fan)
  /\ r.req = "kbd-automation" =>
       r.brightness \in Option(U8) /\ PercentWritten(r.brightness)

LEMMA ParseAutomation ==
  ASSUME NEW source \in Sources, NEW line, NEW r \in parse_automation(source, line)
  PROVE  r.req \in {"automation", "kbd-automation"} /\ r.source \in Sources /\ RuleWritten(r)
<1>1. \/ r = AutomationReq(source, None)
      \/ r = AutomationReq(source, Some(FanAuto))
      \/ \E w : \E m \in Manual(w) : r = AutomationReq(source, Some(m))
      \/ r = KbdAutomationReq(source, None)
      \/ \E w : \E n \in parse_int(w, U8) : r = KbdAutomationReq(source, Some(n))
  BY DEF parse_automation
<1>2. ASSUME NEW f \in Option(FanModes), r = AutomationReq(source, f), FanWritten(f)
      PROVE  r.req \in {"automation", "kbd-automation"} /\ r.source \in Sources /\ RuleWritten(r)
  BY <1>2 DEF AutomationReq, RuleWritten
<1>3. ASSUME NEW b \in Option(U8), r = KbdAutomationReq(source, b), PercentWritten(b)
      PROVE  r.req \in {"automation", "kbd-automation"} /\ r.source \in Sources /\ RuleWritten(r)
  BY <1>3 DEF KbdAutomationReq, RuleWritten
<1>4. /\ None \in Option(FanModes) /\ FanWritten(None)
      /\ None \in Option(U8) /\ PercentWritten(None)
      /\ Some(FanAuto) \in Option(FanModes) /\ FanWritten(Some(FanAuto))
  BY DEF None, Some, Option, FanWritten, PercentWritten, FanModes
<1>5. ASSUME NEW w, NEW m \in Manual(w)
      PROVE  Some(m) \in Option(FanModes) /\ FanWritten(Some(m))
  <2>1. m \in FanModes /\ Number(m.rpm)
    BY ManualFacts DEF FanModes
  <2> QED BY <2>1 DEF Some, Option, FanWritten
<1>6. ASSUME NEW w, NEW n \in parse_int(w, U8)
      PROVE  Some(n) \in Option(U8) /\ PercentWritten(Some(n))
  <2>1. n \in U8 /\ Number(n)
    BY ParseInt, Widths DEF Option
  <2> QED BY <2>1 DEF Some, Option, PercentWritten
<1>7. CASE r = AutomationReq(source, None) \/ r = AutomationReq(source, Some(FanAuto))
  BY <1>2, <1>4, <1>7
<1>8. CASE \E w : \E m \in Manual(w) : r = AutomationReq(source, Some(m))
  BY <1>2, <1>5, <1>8
<1>9. CASE r = KbdAutomationReq(source, None)
             \/ \E w : \E n \in parse_int(w, U8) : r = KbdAutomationReq(source, Some(n))
  BY <1>3, <1>4, <1>6, <1>9
<1> QED BY <1>1, <1>7, <1>8, <1>9

LEMMA ParseRequest ==
  ASSUME NEW line, NEW r \in parse_request(line)
  PROVE  /\ r.req \in {"query", "automation", "kbd-automation", "operation"}
         /\ r.req = "operation" => OperationWritten(r.operation)
         /\ r.req \in {"automation", "kbd-automation"} => r.source \in Sources /\ RuleWritten(r)
<1>1. \/ \E q : r = Query(q)
      \/ \E o \in parse_operation(line) : r = OperationReq(o)
      \/ \E s \in Sources : r \in parse_automation(s, line)
  BY DEF parse_request
<1>2. CASE \E q : r = Query(q)
  BY <1>2 DEF Query
<1>3. CASE \E o \in parse_operation(line) : r = OperationReq(o)
  BY <1>3, ParseOperation DEF OperationReq
<1>4. CASE \E s \in Sources : r \in parse_automation(s, line)
  BY <1>4, ParseAutomation
<1> QED BY <1>1, <1>2, <1>3, <1>4

-----------------------------------------------------------------------------
(* Settings, field by field *)

FanFields     == {"fan", "fan_on_ac", "fan_on_battery"}
PercentFields == {"kbd_brightness", "kbd_on_ac", "kbd_on_battery"}
Fields == FanFields \cup PercentFields \cup {"battery_health", "profile", "kbd_effect", "logo"}

\* A value of a field that can be written and read.
FieldWritten(f, x) ==
  /\ f \in FanFields => x \in Option(FanModes) /\ FanWritten(x)
  /\ f \in PercentFields => x \in Option(U8) /\ PercentWritten(x)
  /\ f = "battery_health" =>
       x \in BatteryHealths /\ (x \in {BhoOff, BhoUnset} \/ Number(x.limit))
  /\ f = "profile" => x \in Option(Profiles)
  /\ f = "kbd_effect" =>
       x \in Option(LightingEffects) /\ \A e \in x : e.name = "static" => Color(e.rgb)
  /\ f = "logo" => x \in Option(LogoModes)

LEMMA FieldByField ==
  ASSUME NEW s
  PROVE  WellWritten(s) <=> s = [f \in Fields |-> s[f]] /\ \A f \in Fields : FieldWritten(f, s[f])
<1> DEFINE record == [fan |-> s.fan, battery_health |-> s.battery_health,
                      fan_on_ac |-> s.fan_on_ac, fan_on_battery |-> s.fan_on_battery,
                      profile |-> s.profile, kbd_brightness |-> s.kbd_brightness,
                      kbd_effect |-> s.kbd_effect, logo |-> s.logo,
                      kbd_on_ac |-> s.kbd_on_ac, kbd_on_battery |-> s.kbd_on_battery]
<1>1. record = [f \in Fields |-> s[f]]
  BY DEF Fields, FanFields, PercentFields
<1>2. ASSUME WellWritten(s)
      PROVE  s = record /\ \A f \in Fields : FieldWritten(f, s[f])
  <2>1. s = record
    BY <1>2 DEF WellWritten, PersistedStates
  <2>2. ASSUME NEW f \in Fields PROVE FieldWritten(f, s[f])
    BY <1>2 DEF WellWritten, PersistedStates, FieldWritten, Fields, FanFields, PercentFields
  <2> QED BY <2>1, <2>2
<1>3. ASSUME s = record, \A f \in Fields : FieldWritten(f, s[f])
      PROVE  WellWritten(s)
  <2> HIDE DEF record
  <2>1. /\ \A f \in FanFields : s[f] \in Option(FanModes) /\ FanWritten(s[f])
        /\ \A f \in PercentFields : s[f] \in Option(U8) /\ PercentWritten(s[f])
        /\ FieldWritten("battery_health", s.battery_health)
        /\ FieldWritten("profile", s.profile)
        /\ FieldWritten("kbd_effect", s.kbd_effect)
        /\ FieldWritten("logo", s.logo)
    BY <1>3 DEF FieldWritten, Fields
  <2>2. /\ s.fan \in Option(FanModes) /\ FanWritten(s.fan)
        /\ s.fan_on_ac \in Option(FanModes) /\ FanWritten(s.fan_on_ac)
        /\ s.fan_on_battery \in Option(FanModes) /\ FanWritten(s.fan_on_battery)
        /\ s.kbd_brightness \in Option(U8) /\ PercentWritten(s.kbd_brightness)
        /\ s.kbd_on_ac \in Option(U8) /\ PercentWritten(s.kbd_on_ac)
        /\ s.kbd_on_battery \in Option(U8) /\ PercentWritten(s.kbd_on_battery)
    BY <2>1 DEF FanFields, PercentFields
  <2>3. /\ s.battery_health \in BatteryHealths
        /\ s.battery_health \in {BhoOff, BhoUnset} \/ Number(s.battery_health.limit)
        /\ s.profile \in Option(Profiles)
        /\ s.kbd_effect \in Option(LightingEffects)
        /\ \A e \in s.kbd_effect : e.name = "static" => Color(e.rgb)
        /\ s.logo \in Option(LogoModes)
    BY <2>1 DEF FieldWritten
  <2>4. s \in PersistedStates
    BY <1>3, <2>2, <2>3 DEF PersistedStates, record
  <2> QED BY <2>2, <2>3, <2>4 DEF WellWritten
<1> HIDE DEF record
<1> QED BY <1>1, <1>2, <1>3

LEMMA ExceptWritten ==
  ASSUME NEW s, WellWritten(s), NEW f \in Fields, NEW x, FieldWritten(f, x)
  PROVE  WellWritten([s EXCEPT ![f] = x])
<1>1. s = [g \in Fields |-> s[g]] /\ \A g \in Fields : FieldWritten(g, s[g])
  BY FieldByField
<1> DEFINE t == [s EXCEPT ![f] = x]
<1>2. /\ t = [g \in Fields |-> IF g = f THEN x ELSE s[g]]
      /\ t[f] = x
      /\ \A g \in Fields \ {f} : t[g] = s[g]
  BY <1>1
<1> HIDE DEF t
<1>3. t = [g \in Fields |-> t[g]]
  BY <1>2
<1>4. \A g \in Fields : FieldWritten(g, t[g])
  BY <1>1, <1>2
<1> QED BY <1>3, <1>4, FieldByField DEF t

LEMMA PersistWritten ==
  ASSUME NEW s, WellWritten(s), NEW o, OperationWritten(o)
  PROVE  WellWritten(Persist(s, o))
<1> USE DEF Fields, FanFields, PercentFields
<1>0. o.op \in {"fan", "bho_limit", "bho_off", "profile", "kbd", "effect", "logo"}
  BY DEF OperationWritten, RequestedOperations, BhoOffOp
<1>1. CASE o.op = "fan"
  <2>1. FieldWritten("fan", Some(o.mode))
    BY <1>1 DEF OperationWritten, RequestedOperations, BhoOffOp, FieldWritten, Some, Option
  <2> QED BY <1>1, <2>1, ExceptWritten DEF Persist
<1>2. CASE o.op = "bho_limit"
  <2>1. FieldWritten("battery_health", BhoLimit(o.limit))
    BY <1>2 DEF OperationWritten, RequestedOperations, BhoOffOp, FieldWritten, BhoLimit,
                BatteryHealths
  <2> QED BY <1>2, <2>1, ExceptWritten DEF Persist
<1>3. CASE o.op = "bho_off"
  <2>1. FieldWritten("battery_health", BhoOff)
    BY DEF FieldWritten, BatteryHealths
  <2> QED BY <1>3, <2>1, ExceptWritten DEF Persist
<1>4. CASE o.op = "profile"
  <2>1. FieldWritten("profile", Some(o.profile))
    BY <1>4 DEF OperationWritten, RequestedOperations, BhoOffOp, FieldWritten, Some, Option
  <2> QED BY <1>4, <2>1, ExceptWritten DEF Persist
<1>5. CASE o.op = "kbd"
  <2>1. FieldWritten("kbd_brightness", Some(o.percent))
    BY <1>5 DEF OperationWritten, RequestedOperations, BhoOffOp, FieldWritten, Some, Option
  <2> QED BY <1>5, <2>1, ExceptWritten DEF Persist
<1>6. CASE o.op = "effect"
  <2>1. FieldWritten("kbd_effect", Some(o.effect))
    BY <1>6 DEF OperationWritten, RequestedOperations, BhoOffOp, FieldWritten, Some, Option
  <2> QED BY <1>6, <2>1, ExceptWritten DEF Persist
<1>7. CASE o.op = "logo"
  <2>1. FieldWritten("logo", Some(o.logo))
    BY <1>7 DEF OperationWritten, RequestedOperations, BhoOffOp, FieldWritten, Some, Option
  <2> QED BY <1>7, <2>1, ExceptWritten DEF Persist
<1> QED BY <1>0, <1>1, <1>2, <1>3, <1>4, <1>5, <1>6, <1>7

LEMMA WithRuleWritten ==
  ASSUME NEW s, WellWritten(s), NEW r, r.req \in {"automation", "kbd-automation"},
         r.source \in Sources, RuleWritten(r)
  PROVE  WellWritten(WithRule(s, r))
<1> USE DEF Fields, FanFields, PercentFields
<1>1. CASE r.req = "automation"
  <2>1. FieldWritten("fan_on_ac", r.fan) /\ FieldWritten("fan_on_battery", r.fan)
    BY <1>1 DEF RuleWritten, FieldWritten
  <2>2. CASE r.source = "ac"
    BY <1>1, <2>1, <2>2, ExceptWritten DEF WithRule
  <2>3. CASE r.source = "battery"
    BY <1>1, <2>1, <2>3, ExceptWritten DEF WithRule
  <2> QED BY <2>2, <2>3 DEF Sources
<1>2. CASE r.req = "kbd-automation"
  <2>1. FieldWritten("kbd_on_ac", r.brightness) /\ FieldWritten("kbd_on_battery", r.brightness)
    BY <1>2 DEF RuleWritten, FieldWritten
  <2>2. CASE r.source = "ac"
    BY <1>2, <2>1, <2>2, ExceptWritten DEF WithRule
  <2>3. CASE r.source = "battery"
    BY <1>2, <2>1, <2>3, ExceptWritten DEF WithRule
  <2> QED BY <2>2, <2>3 DEF Sources
<1> QED BY <1>1, <1>2

-----------------------------------------------------------------------------
(* A setting written, and read back *)

Key(f) == IF f = "battery_health" THEN "bho" ELSE f

\* What is written of a field, if anything, and what is read of it.
Text(f, x) ==
  CASE f \in FanFields        -> Fans(x)
    [] f \in PercentFields    -> Percents(x)
    [] f = "battery_health"   -> describe_bho(x)
    [] f = "profile"          -> {describe_profile(p) : p \in x}
    [] f = "kbd_effect"       -> {describe_effect(e) : e \in x}
    [] f = "logo"             -> {<<l>> : l \in x}
Read(f, V) ==
  CASE f \in FanFields        -> UNION {parse_fan(v) : v \in V}
    [] f \in PercentFields    -> UNION {parse_percent(v) : v \in V}
    [] f = "battery_health"   -> parse_bho(V)
    [] f = "profile"          -> UNION {parse_profile(v) : v \in V}
    [] f = "kbd_effect"       -> UNION {parse_effect(v) : v \in V}
    [] f = "logo"             -> UNION {parse_logo(v) : v \in V}

LEMMA ParseReads ==
  ASSUME NEW lines
  PROVE  parse(lines) = [f \in Fields |-> Read(f, Value(lines, Key(f)))]
<1> DEFINE s == [f \in Fields |-> Read(f, Value(lines, Key(f)))]
           t == parse(lines)
<1> DEFINE record == [fan |-> t.fan, battery_health |-> t.battery_health,
                      fan_on_ac |-> t.fan_on_ac, fan_on_battery |-> t.fan_on_battery,
                      profile |-> t.profile, kbd_brightness |-> t.kbd_brightness,
                      kbd_effect |-> t.kbd_effect, logo |-> t.logo,
                      kbd_on_ac |-> t.kbd_on_ac, kbd_on_battery |-> t.kbd_on_battery]
<1>0. t = record
  BY DEF parse
<1>1. /\ \A f \in FanFields : t[f] = UNION {parse_fan(v) : v \in Value(lines, f)}
      /\ \A f \in PercentFields : t[f] = UNION {parse_percent(v) : v \in Value(lines, f)}
      /\ t["battery_health"] = parse_bho(Value(lines, "bho"))
      /\ t["profile"] = UNION {parse_profile(v) : v \in Value(lines, "profile")}
      /\ t["kbd_effect"] = UNION {parse_effect(v) : v \in Value(lines, "kbd_effect")}
      /\ t["logo"] = UNION {parse_logo(v) : v \in Value(lines, "logo")}
  BY DEF parse, FanFields, PercentFields
<1> HIDE DEF t
<1>4. record = [f \in Fields |-> t[f]]
  BY DEF Fields, FanFields, PercentFields
<1> HIDE DEF record
<1>2. ASSUME NEW f \in Fields PROVE t[f] = Read(f, Value(lines, Key(f)))
  <2>1. CASE f \in FanFields
    BY <1>1, <2>1 DEF Read, Key, FanFields
  <2>2. CASE f \in PercentFields
    BY <1>1, <2>2 DEF Read, Key, FanFields, PercentFields
  <2>3. CASE f = "battery_health"
    BY <1>1, <2>3 DEF Read, Key, FanFields, PercentFields
  <2>4. CASE f = "profile"
    BY <1>1, <2>4 DEF Read, Key, FanFields, PercentFields
  <2>5. CASE f = "kbd_effect"
    BY <1>1, <2>5 DEF Read, Key, FanFields, PercentFields
  <2>6. CASE f = "logo"
    BY <1>1, <2>6 DEF Read, Key, FanFields, PercentFields
  <2> QED BY <2>1, <2>2, <2>3, <2>4, <2>5, <2>6 DEF Fields
<1>3. t = s
  BY <1>0, <1>2, <1>4
<1> QED BY <1>3 DEF t

LEMMA FanReadsBack ==
  ASSUME NEW m \in FanModes, m = FanAuto \/ Number(m.rpm)
  PROVE  parse_fan(describe_fan_mode(m)) = {m}
<1>1. CASE m = FanAuto
  BY <1>1 DEF parse_fan, describe_fan_mode, Some
<1>2. CASE m # FanAuto
  <2>1. m \in [fan : {"manual"}, rpm : U16] /\ m = FanManual(m.rpm) /\ Number(m.rpm)
    BY <1>2 DEF FanModes, FanManual
  <2>2. parse_int(Decimal(m.rpm), U16) = {m.rpm}
    BY <2>1, ReadBack
  <2>3. describe_fan_mode(m) = <<"manual", Decimal(m.rpm)>>
    BY <1>2 DEF describe_fan_mode
  <2>4. parse_fan(<<"manual", Decimal(m.rpm)>>) = Manual(<<Decimal(m.rpm)>>)
    BY DEF parse_fan
  <2>5. Manual(<<Decimal(m.rpm)>>) = {FanManual(n) : n \in {m.rpm}}
    BY <2>2 DEF Manual
  <2> QED BY <2>1, <2>3, <2>4, <2>5
<1> QED BY <1>1, <1>2

LEMMA PercentReadsBack ==
  ASSUME NEW n \in U8, Number(n)
  PROVE  parse_percent(<<Decimal(n)>>) = {n}
<1>1. parse_int(Decimal(n), U8) = {n}
  BY ReadBack, Widths
<1> QED BY <1>1 DEF parse_percent

LEMMA ProfileReadsBack ==
  ASSUME NEW p \in Profiles
  PROVE  parse_profile(describe_profile(p)) = {p}
<1>1. CASE p.name = "custom"
  <2>1. p = Custom(p.cpu, p.gpu) /\ p.cpu \in BoostLevels /\ p.gpu \in BoostLevels
    BY <1>1 DEF Profiles, Custom, Silent, Balanced, Gaming
  <2>2. describe_profile(p) = <<"custom", p.cpu, p.gpu>>
    BY <1>1 DEF describe_profile
  <2>3. parse_custom(p.cpu, p.gpu) = {p}
    BY <2>1 DEF parse_custom, parse_boost_level
  <2>4. parse_profile(<<"custom", p.cpu, p.gpu>>) = parse_custom(p.cpu, p.gpu)
    BY DEF parse_profile
  <2> QED BY <2>2, <2>3, <2>4
<1>2. CASE p.name # "custom"
  <2>1. p \in {Silent, Balanced, Gaming}
    BY <1>2 DEF Profiles
  <2>2. describe_profile(p) = <<p.name>>
    BY <1>2 DEF describe_profile
  <2>3. parse_profile(<<p.name>>) = {q \in {Silent, Balanced, Gaming} : <<p.name>> = <<q.name>>}
    BY DEF parse_profile, None
  <2>4. \A q \in {Silent, Balanced, Gaming} : <<p.name>> = <<q.name>> <=> q = p
    BY <2>1 DEF Silent, Balanced, Gaming
  <2> QED BY <2>1, <2>2, <2>3, <2>4
<1> QED BY <1>1, <1>2

LEMMA EffectReadsBack ==
  ASSUME NEW e \in LightingEffects, e.name = "static" => Color(e.rgb)
  PROVE  parse_effect(describe_effect(e)) = {e}
<1>1. CASE e.name = "static"
  <2>1. e = [name |-> "static", rgb |-> e.rgb] /\ parse_rgb(e.rgb) = {e.rgb}
    BY <1>1 DEF LightingEffects, Color, parse_rgb
  <2>2. describe_effect(e) = <<"static", e.rgb>>
    BY <1>1 DEF describe_effect
  <2>3. parse_effect(<<"static", e.rgb>>)
          = {[name |-> "static", rgb |-> c] : c \in parse_rgb(e.rgb)}
    BY DEF parse_effect
  <2> QED BY <2>1, <2>2, <2>3
<1>2. CASE e.name # "static"
  <2>1. e.name \in {"off", "spectrum", "wave"} /\ e = [name |-> e.name]
    BY <1>2 DEF LightingEffects
  <2>2. describe_effect(e) = <<e.name>>
    BY <1>2 DEF describe_effect
  <2>3. parse_effect(<<e.name>>)
          = {[name |-> n] : n \in {x \in {"off", "spectrum", "wave"} : <<e.name>> = <<x>>}}
    BY DEF parse_effect, None
  <2>4. \A x : <<e.name>> = <<x>> <=> x = e.name
    OBVIOUS
  <2> QED BY <2>1, <2>2, <2>3, <2>4
<1> QED BY <1>1, <1>2

LEMMA ChooseOne ==
  ASSUME NEW S, NEW x, S = {x}
  PROVE  (CHOOSE n \in S : TRUE) = x
<1>1. \E n \in S : TRUE
  OBVIOUS
<1>2. (CHOOSE n \in S : TRUE) \in S
  BY <1>1
<1> QED BY <1>2

LEMMA BhoLimited ==
  ASSUME NEW value, value # {<<"off">>}, NEW n,
         UNION {parse_percent(v) : v \in value} = {n}
  PROVE  parse_bho(value) = BhoLimit(n)
<1> DEFINE limits == UNION {parse_percent(v) : v \in value}
           m == CHOOSE k \in limits : TRUE
<1>1. limits = {n}
  OBVIOUS
<1>2. parse_bho(value) = BhoLimit(m)
  BY <1>1 DEF parse_bho, limits
<1> HIDE DEF limits
<1>3. m = n
  BY <1>1, ChooseOne
<1> QED BY <1>2, <1>3

LEMMA BhoReadsBack ==
  ASSUME NEW h \in BatteryHealths, h \in {BhoOff, BhoUnset} \/ Number(h.limit)
  PROVE  parse_bho(describe_bho(h)) = h
<1>1. BhoOff # BhoUnset /\ BhoOff.health = "off" /\ BhoUnset.health = "unset"
  BY DEF BhoOff, BhoUnset
<1>2. CASE h = BhoUnset
  <2>1. describe_bho(h) = {}
    BY <1>1, <1>2 DEF describe_bho
  <2> QED BY <1>2, <2>1 DEF parse_bho
<1>3. CASE h = BhoOff
  <2>1. describe_bho(h) = {<<"off">>}
    BY <1>1, <1>3 DEF describe_bho
  <2> QED BY <1>3, <2>1 DEF parse_bho
<1>4. CASE h \notin {BhoOff, BhoUnset}
  <2>1. h = BhoLimit(h.limit) /\ h.limit \in U8 /\ h.health = "limit" /\ Number(h.limit)
    BY <1>4 DEF BatteryHealths, BhoLimit
  <2> DEFINE V == {<<Decimal(h.limit)>>}
  <2>2. describe_bho(h) = V
    BY <1>4, <2>1 DEF describe_bho
  <2>3. Decimal(h.limit) # "off"
    BY <2>1, TextAssumption DEF Number, Words
  <2>4. V # {<<"off">>}
    <3>1. \A a, b : a # b => <<a>> # <<b>>
      OBVIOUS
    <3>2. \A v, w : v # w => {v} # {w}
      OBVIOUS
    <3>3. <<Decimal(h.limit)>> # <<"off">>
      BY <2>3, <3>1
    <3> QED BY <3>2, <3>3
  <2>5. UNION {parse_percent(v) : v \in V} = {h.limit}
    BY <2>1, PercentReadsBack
  <2> HIDE DEF V
  <2>6. parse_bho(V) = BhoLimit(h.limit)
    BY <2>4, <2>5, BhoLimited
  <2> QED BY <2>1, <2>2, <2>6
<1> QED BY <1>2, <1>3, <1>4

\* A setting reads back as it was written; one that is not there is not set.
LEMMA FieldReadsBack ==
  ASSUME NEW f \in Fields, NEW x, FieldWritten(f, x)
  PROVE  /\ Read(f, Text(f, x)) = x
         /\ \A v, w \in Text(f, x) : v = w
         /\ Read(f, {}) = DefaultState[f]
<1>1. Read(f, {}) = DefaultState[f]
  <2>1. parse_bho({}) = BhoUnset
    BY DEF parse_bho
  <2> QED BY <2>1 DEF Read, DefaultState, None, Fields, FanFields, PercentFields
<1>2. CASE f \in FanFields
  <2>1. x \in Option(FanModes)
    BY <1>2 DEF FieldWritten
  <2>2. CASE x = {}
    BY <1>2, <1>1, <2>2 DEF Text, Read, Fans, FanFields, PercentFields
  <2>3. CASE x # {}
    <3>1. PICK y \in FanModes : x = {y}
      BY <2>1, <2>3 DEF Option
    <3>2. parse_fan(describe_fan_mode(y)) = {y}
      BY <1>2, <3>1, FanReadsBack DEF FieldWritten, FanWritten
    <3>3. Text(f, x) = {describe_fan_mode(y)}
      BY <1>2, <3>1 DEF Text, Fans, FanFields, PercentFields
    <3>4. Read(f, {describe_fan_mode(y)}) = parse_fan(describe_fan_mode(y))
      BY <1>2 DEF Read, FanFields, PercentFields
    <3> QED BY <1>2, <1>1, <3>1, <3>2, <3>3, <3>4
  <2> QED BY <2>2, <2>3
<1>3. CASE f \in PercentFields
  <2>1. x \in Option(U8)
    BY <1>3 DEF FieldWritten
  <2>2. CASE x = {}
    BY <1>3, <1>1, <2>2 DEF Text, Read, Percents, FanFields, PercentFields
  <2>3. CASE x # {}
    <3>1. PICK y \in U8 : x = {y}
      BY <2>1, <2>3 DEF Option
    <3>2. parse_percent(<<Decimal(y)>>) = {y}
      BY <1>3, <3>1, PercentReadsBack DEF FieldWritten, PercentWritten
    <3>3. Text(f, x) = {<<Decimal(y)>>}
      BY <1>3, <3>1 DEF Text, Percents, FanFields, PercentFields
    <3>4. Read(f, {<<Decimal(y)>>}) = parse_percent(<<Decimal(y)>>)
      BY <1>3 DEF Read, FanFields, PercentFields
    <3> QED BY <1>3, <1>1, <3>1, <3>2, <3>3, <3>4
  <2> QED BY <2>2, <2>3
<1>4. CASE f = "profile"
  <2>1. x \in Option(Profiles)
    BY <1>4 DEF FieldWritten
  <2>2. CASE x = {}
    BY <1>4, <1>1, <2>2 DEF Text, Read, FanFields, PercentFields
  <2>3. CASE x # {}
    <3>1. PICK y \in Profiles : x = {y}
      BY <2>1, <2>3 DEF Option
    <3>2. parse_profile(describe_profile(y)) = {y}
      BY <1>4, <3>1, ProfileReadsBack DEF FieldWritten
    <3>3. Text(f, x) = {describe_profile(y)}
      BY <1>4, <3>1 DEF Text, FanFields, PercentFields
    <3>4. Read(f, {describe_profile(y)}) = parse_profile(describe_profile(y))
      BY <1>4 DEF Read, FanFields, PercentFields
    <3> QED BY <1>4, <1>1, <3>1, <3>2, <3>3, <3>4
  <2> QED BY <2>2, <2>3
<1>5. CASE f = "kbd_effect"
  <2>1. x \in Option(LightingEffects)
    BY <1>5 DEF FieldWritten
  <2>2. CASE x = {}
    BY <1>5, <1>1, <2>2 DEF Text, Read, FanFields, PercentFields
  <2>3. CASE x # {}
    <3>1. PICK y \in LightingEffects : x = {y}
      BY <2>1, <2>3 DEF Option
    <3>2. parse_effect(describe_effect(y)) = {y}
      BY <1>5, <3>1, EffectReadsBack DEF FieldWritten
    <3>3. Text(f, x) = {describe_effect(y)}
      BY <1>5, <3>1 DEF Text, FanFields, PercentFields
    <3>4. Read(f, {describe_effect(y)}) = parse_effect(describe_effect(y))
      BY <1>5 DEF Read, FanFields, PercentFields
    <3> QED BY <1>5, <1>1, <3>1, <3>2, <3>3, <3>4
  <2> QED BY <2>2, <2>3
<1>6. CASE f = "logo"
  <2>1. x \in Option(LogoModes)
    BY <1>6 DEF FieldWritten
  <2>2. CASE x = {}
    BY <1>6, <1>1, <2>2 DEF Text, Read, FanFields, PercentFields
  <2>3. CASE x # {}
    <3>1. PICK y \in LogoModes : x = {y}
      BY <2>1, <2>3 DEF Option
    <3>2. parse_logo(<<y>>) = {y}
      BY DEF parse_logo
    <3>3. Text(f, x) = {<<y>>}
      BY <1>6, <3>1 DEF Text, FanFields, PercentFields
    <3>4. Read(f, {<<y>>}) = parse_logo(<<y>>)
      BY <1>6 DEF Read, FanFields, PercentFields
    <3> QED BY <1>6, <1>1, <3>1, <3>2, <3>3, <3>4
  <2> QED BY <2>2, <2>3
<1>7. CASE f = "battery_health"
  <2>1. x \in BatteryHealths /\ (x \in {BhoOff, BhoUnset} \/ Number(x.limit))
    BY <1>7 DEF FieldWritten
  <2>2. Read(f, Text(f, x)) = x
    BY <1>7, <2>1, BhoReadsBack DEF Read, Text, FanFields, PercentFields
  <2>3. \A v, w \in describe_bho(x) : v = w
    <3>1. \/ x = BhoUnset /\ x # BhoOff /\ x.health = "unset"
          \/ x = BhoOff /\ x # BhoUnset /\ x.health = "off"
          \/ x # BhoOff /\ x # BhoUnset /\ x.health = "limit"
      BY <2>1 DEF BatteryHealths, BhoOff, BhoUnset
    <3> QED BY <3>1 DEF describe_bho
  <2> QED BY <1>1, <1>7, <2>2, <2>3 DEF Text, FanFields, PercentFields
<1> QED BY <1>2, <1>3, <1>4, <1>5, <1>6, <1>7 DEF Fields

-----------------------------------------------------------------------------
(* A setting that was not written to its end *)

LEMMA NoWord == ASSUME NEW n \in U16 PROVE Decimal(n) \notin Words
<1>1. n \in Nat /\ n <= u16_MAX /\ u16_MAX \in Nat
  BY DEF U16, u16_MAX
<1>2. n \in 0..u16_MAX
  BY <1>1
<1> QED BY <1>2, NumeralAssumption

LEMMA CutForms ==
  ASSUME NEW T, NEW v \in Seq(T), NEW c \in CutValue(v)
  PROVE  \/ Len(c) \in 1..(Len(v) - 1) /\ \A i \in 1..Len(c) : c[i] = v[i]
         \/ \E n \in 1..Len(v) : /\ Len(c) = n /\ c[n] \in CutWord(v[n])
                                 /\ \A i \in 1..(n - 1) : c[i] = v[i]
<1>1. DOMAIN v = 1..Len(v) /\ Len(v) \in Nat /\ \A i \in 1..Len(v) : v[i] \in T
  OBVIOUS
<1>2. ASSUME NEW U, NEW n \in 0..Len(v), \A i \in 1..n : v[i] \in U
      PROVE  /\ SubSeq(v, 1, n) \in Seq(U) /\ Len(SubSeq(v, 1, n)) = n
             /\ \A i \in 1..n : SubSeq(v, 1, n)[i] = v[i]
  <2>1. /\ SubSeq(v, 1, n) \in Seq(U)
        /\ Len(SubSeq(v, 1, n)) = IF 1 <= n THEN n - 1 + 1 ELSE 0
        /\ \A i \in 1..(n - 1 + 1) : SubSeq(v, 1, n)[i] = v[1 + i - 1]
    BY <1>1, <1>2, SubSeqProperties
  <2>2. n - 1 + 1 = n /\ n \in Nat /\ \A i \in 1..n : 1 + i - 1 = i
    BY <1>1
  <2> QED BY <2>1, <2>2
<1>3. CASE \E n \in 1..(Len(v) - 1) : c = SubSeq(v, 1, n)
  BY <1>1, <1>2, <1>3
<1>4. CASE \E n \in 1..Len(v) : \E w \in CutWord(v[n]) : c = Append(SubSeq(v, 1, n - 1), w)
  <2>0. PICK n \in 1..Len(v) : \E w \in CutWord(v[n]) : c = Append(SubSeq(v, 1, n - 1), w)
    BY <1>4
  <2>1. PICK w \in CutWord(v[n]) : c = Append(SubSeq(v, 1, n - 1), w)
    BY <2>0
  <2> DEFINE U == T \cup {w}
             b == SubSeq(v, 1, n - 1)
  <2>2. n - 1 \in 0..Len(v) /\ \A i \in 1..(n - 1) : v[i] \in U
    BY <1>1
  <2>3. b \in Seq(U) /\ Len(b) = n - 1 /\ \A i \in 1..(n - 1) : b[i] = v[i]
    BY <1>2, <2>2
  <2>4. w \in U
    OBVIOUS
  <2> HIDE DEF U, b
  <2>5. /\ Len(Append(b, w)) = Len(b) + 1 /\ Append(b, w)[Len(b) + 1] = w
        /\ \A i \in 1..Len(b) : Append(b, w)[i] = b[i]
    BY <2>3, <2>4, AppendProperties
  <2>6. Len(b) + 1 = n
    BY <2>3
  <2>7. Len(c) = n /\ c[n] \in CutWord(v[n]) /\ \A i \in 1..(n - 1) : c[i] = v[i]
    BY <2>1, <2>3, <2>5, <2>6 DEF b
  <2> QED BY <2>7
<1> QED BY <1>1, <1>3, <1>4 DEF CutValue

LEMMA CutOfWord ==
  ASSUME NEW w \in Words
  PROVE  w \notin DOMAIN Numerals /\ CutWord(w) = {"cut"}
BY TextAssumption DEF CutWord

LEMMA ShortenedFacts ==
  ASSUME NEW n \in U16, NEW k \in Shortened(n)
  PROVE  k \in U16 /\ (n \in U8 => k \in U8)
<1>1. PICK d \in {10, 100, 1000, 10000} : k = n \div d
  BY DEF Shortened
<1>2. n \in Nat
  BY Widths
<1>3. k \in Nat /\ k <= n
  <2>1. CASE d = 10
    BY <1>1, <1>2, <2>1
  <2>2. CASE d = 100
    BY <1>1, <1>2, <2>2
  <2>3. CASE d = 1000
    BY <1>1, <1>2, <2>3
  <2>4. CASE d = 10000
    BY <1>1, <1>2, <2>4
  <2> QED BY <2>1, <2>2, <2>3, <2>4
<1> QED BY <1>2, <1>3 DEF U8, U16

\* What is read of a number that was cut.
LEMMA CutOfNumber ==
  ASSUME NEW n \in U16, Number(n), NEW width \in SUBSET U16, NEW w \in CutWord(Decimal(n))
  PROVE  /\ parse_int(w, width) = {} \/ \E k \in Shortened(n) : parse_int(w, width) = {k}
         /\ w # "off"
<1>1. w = "" \/ \E k \in Shortened(n) : w = Decimal(k)
  BY DEF CutWord, Number
<1>2. CASE w = ""
  <2>1. "" \notin DOMAIN Numerals
    BY CutOfWord DEF Words
  <2> QED BY <1>2, <2>1 DEF parse_int
<1>3. CASE \E k \in Shortened(n) : w = Decimal(k)
  <2>1. PICK k \in Shortened(n) : w = Decimal(k)
    BY <1>3
  <2>2. k \in U16
    BY ShortenedFacts
  <2>3. parse_int(w, width) \subseteq {k}
    BY <2>1, <2>2, ReadBack
  <2>4. w # "off"
    BY <2>1, <2>2, NoWord DEF Words
  <2> QED BY <2>3, <2>4
<1> QED BY <1>1, <1>2, <1>3

LEMMA CutOne ==
  ASSUME NEW a, NEW c \in CutValue(<<a>>)
  PROVE  Len(c) = 1 /\ c[1] \in CutWord(a)
<1>1. <<a>> \in Seq({a}) /\ Len(<<a>>) = 1 /\ <<a>>[1] = a
  OBVIOUS
<1> DEFINE v == <<a>>
<1> HIDE DEF v
<1>2. \/ Len(c) \in 1..(Len(v) - 1) /\ \A i \in 1..Len(c) : c[i] = v[i]
      \/ \E n \in 1..Len(v) : /\ Len(c) = n /\ c[n] \in CutWord(v[n])
                              /\ \A i \in 1..(n - 1) : c[i] = v[i]
  BY <1>1, CutForms DEF v
<1>3. Len(v) = 1 /\ v[1] = a
  BY <1>1 DEF v
<1> QED BY <1>2, <1>3

LEMMA CutTwo ==
  ASSUME NEW a, NEW b, NEW c \in CutValue(<<a, b>>)
  PROVE  \/ Len(c) = 1 /\ c[1] \in {a} \cup CutWord(a)
         \/ Len(c) = 2 /\ c[1] = a /\ c[2] \in CutWord(b)
<1>1. <<a, b>> \in Seq({a, b}) /\ Len(<<a, b>>) = 2 /\ <<a, b>>[1] = a /\ <<a, b>>[2] = b
  OBVIOUS
<1> DEFINE v == <<a, b>>
<1> HIDE DEF v
<1>2. \/ Len(c) \in 1..(Len(v) - 1) /\ \A i \in 1..Len(c) : c[i] = v[i]
      \/ \E n \in 1..Len(v) : /\ Len(c) = n /\ c[n] \in CutWord(v[n])
                              /\ \A i \in 1..(n - 1) : c[i] = v[i]
  BY <1>1, CutForms DEF v
<1>3. Len(v) = 2 /\ v[1] = a /\ v[2] = b
  BY <1>1 DEF v
<1> QED BY <1>2, <1>3

LEMMA CutThree ==
  ASSUME NEW a, NEW b, NEW d, NEW c \in CutValue(<<a, b, d>>)
  PROVE  \/ Len(c) = 1 /\ c[1] \in {a} \cup CutWord(a)
         \/ Len(c) = 2
         \/ Len(c) = 3 /\ c[3] \in CutWord(d)
<1>1. /\ <<a, b, d>> \in Seq({a, b, d}) /\ Len(<<a, b, d>>) = 3
      /\ <<a, b, d>>[1] = a /\ <<a, b, d>>[3] = d
  OBVIOUS
<1> DEFINE v == <<a, b, d>>
<1> HIDE DEF v
<1>2. \/ Len(c) \in 1..(Len(v) - 1) /\ \A i \in 1..Len(c) : c[i] = v[i]
      \/ \E n \in 1..Len(v) : /\ Len(c) = n /\ c[n] \in CutWord(v[n])
                              /\ \A i \in 1..(n - 1) : c[i] = v[i]
  BY <1>1, CutForms DEF v
<1>3. Len(v) = 3 /\ v[1] = a /\ v[3] = d
  BY <1>1 DEF v
<1> QED BY <1>2, <1>3

LEMMA CutFan ==
  ASSUME NEW m \in FanModes, m = FanAuto \/ Number(m.rpm), NEW c \in CutValue(describe_fan_mode(m))
  PROVE  \/ parse_fan(c) = {}
         \/ m # FanAuto /\ \E k \in Shortened(m.rpm) : parse_fan(c) = {FanManual(k)}
<1>1. CutWord("auto") = {"cut"} /\ CutWord("manual") = {"cut"}
  BY CutOfWord DEF Words
<1>2. ASSUME Len(c) = 1, c[1] # "auto" PROVE parse_fan(c) = {}
  <2>1. c # <<"auto">> /\ Len(c) # 2
    BY <1>2
  <2> QED BY <2>1 DEF parse_fan, None
<1>3. CASE m = FanAuto
  <2>1. describe_fan_mode(m) = <<"auto">>
    BY <1>3 DEF describe_fan_mode
  <2>2. Len(c) = 1 /\ c[1] = "cut"
    BY <1>1, <2>1, CutOne
  <2> QED BY <1>2, <2>2
<1>4. CASE m # FanAuto
  <2>1. m.rpm \in U16 /\ Number(m.rpm)
    BY <1>4 DEF FanModes
  <2>2. describe_fan_mode(m) = <<"manual", Decimal(m.rpm)>>
    BY <1>4 DEF describe_fan_mode
  <2>3. \/ Len(c) = 1 /\ c[1] \in {"manual", "cut"}
        \/ Len(c) = 2 /\ c[1] = "manual" /\ c[2] \in CutWord(Decimal(m.rpm))
    BY <1>1, <2>2, CutTwo
  <2>4. CASE Len(c) = 1 /\ c[1] \in {"manual", "cut"}
    BY <1>2, <2>4
  <2>5. CASE Len(c) = 2 /\ c[1] = "manual" /\ c[2] \in CutWord(Decimal(m.rpm))
    <3>1. c # <<"auto">>
      BY <2>5
    <3>2. parse_fan(c) = Manual(<<c[2]>>)
      BY <2>5, <3>1 DEF parse_fan
    <3>3. Manual(<<c[2]>>) = {FanManual(n) : n \in parse_int(c[2], U16)}
      BY DEF Manual
    <3>4. parse_int(c[2], U16) = {} \/ \E k \in Shortened(m.rpm) : parse_int(c[2], U16) = {k}
      BY <2>1, <2>5, CutOfNumber
    <3> QED BY <1>4, <3>2, <3>3, <3>4
  <2> QED BY <2>3, <2>4, <2>5
<1> QED BY <1>3, <1>4

LEMMA CutPercent ==
  ASSUME NEW n \in U8, Number(n), NEW c \in CutValue(<<Decimal(n)>>)
  PROVE  /\ parse_percent(c) = {} \/ \E k \in Shortened(n) : parse_percent(c) = {k}
         /\ c[1] # "off"
<1>1. Len(c) = 1 /\ c[1] \in CutWord(Decimal(n))
  BY CutOne
<1>2. parse_percent(c) = parse_int(c[1], U8)
  BY <1>1 DEF parse_percent
<1>3. n \in U16 /\ U8 \in SUBSET U16
  BY Widths
<1> QED BY <1>1, <1>2, <1>3, CutOfNumber

LEMMA CutBho ==
  ASSUME NEW h \in BatteryHealths, h \in {BhoOff, BhoUnset} \/ Number(h.limit),
         NEW v \in describe_bho(h), NEW c \in CutValue(v)
  PROVE  \/ parse_bho({c}) = BhoUnset
         \/ /\ h = BhoLimit(h.limit)
            /\ \E k \in Shortened(h.limit) : parse_bho({c}) = BhoLimit(k)
<1> DEFINE V == {c}
<1>1. BhoOff # BhoUnset /\ BhoOff.health = "off" /\ BhoUnset.health = "unset"
  BY DEF BhoOff, BhoUnset
<1>2. UNION {parse_percent(w) : w \in V} = parse_percent(c)
  OBVIOUS
<1>3. c[1] # "off" => V # {<<"off">>}
  <2>1. c[1] # "off" => c # <<"off">>
    OBVIOUS
  <2> QED BY <2>1
<1> HIDE DEF V
<1>4. CASE h = BhoUnset
  BY <1>1, <1>4 DEF describe_bho
<1>5. CASE h = BhoOff
  <2>1. v = <<"off">>
    BY <1>1, <1>5 DEF describe_bho
  <2>2. Len(c) = 1 /\ c[1] = "cut"
    <3>1. CutWord("off") = {"cut"}
      BY CutOfWord DEF Words
    <3> QED BY <2>1, <3>1, CutOne
  <2>3. parse_percent(c) = {}
    <3>1. "cut" \notin DOMAIN Numerals
      BY CutOfWord DEF Words
    <3> QED BY <2>2, <3>1 DEF parse_percent, parse_int
  <2>4. parse_bho(V) = BhoUnset
    <3>1. V # {<<"off">>}
      BY <1>3, <2>2
    <3>2. UNION {parse_percent(w) : w \in V} = {}
      BY <1>2, <2>3
    <3> QED BY <3>1, <3>2 DEF parse_bho
  <2> QED BY <2>4 DEF V
<1>6. CASE h \notin {BhoOff, BhoUnset}
  <2>1. h = BhoLimit(h.limit) /\ h.limit \in U8 /\ h.health = "limit" /\ Number(h.limit)
    BY <1>6 DEF BatteryHealths, BhoLimit
  <2>2. v = <<Decimal(h.limit)>>
    BY <1>6, <2>1 DEF describe_bho
  <2>3. /\ parse_percent(c) = {} \/ \E k \in Shortened(h.limit) : parse_percent(c) = {k}
        /\ c[1] # "off"
    BY <2>1, <2>2, CutPercent
  <2>4. V # {<<"off">>}
    BY <1>3, <2>3
  <2>5. CASE parse_percent(c) = {}
    <3>1. parse_bho(V) = BhoUnset
      BY <1>2, <2>4, <2>5 DEF parse_bho
    <3> QED BY <3>1 DEF V
  <2>6. CASE \E k \in Shortened(h.limit) : parse_percent(c) = {k}
    <3>1. PICK k \in Shortened(h.limit) : parse_percent(c) = {k}
      BY <2>6
    <3>2. parse_bho(V) = BhoLimit(k)
      BY <1>2, <2>4, <3>1, BhoLimited
    <3> QED BY <2>1, <3>2 DEF V
  <2> QED BY <2>3, <2>5, <2>6
<1> QED BY <1>4, <1>5, <1>6

LEMMA CutProfile ==
  ASSUME NEW p \in Profiles, NEW c \in CutValue(describe_profile(p))
  PROVE  parse_profile(c) = {}
<1>1. p.name \in {"silent", "balanced", "gaming", "custom"}
  BY DEF Profiles, Silent, Balanced, Gaming
<1>2. \A w \in {"silent", "balanced", "gaming", "custom"} \cup BoostLevels : CutWord(w) = {"cut"}
  BY CutOfWord DEF Words
<1>3. \/ Len(c) = 1 /\ c[1] \in {"cut", "custom"}
      \/ Len(c) = 2
      \/ Len(c) = 3 /\ c[3] = "cut"
  <2>1. CASE p.name = "custom"
    <3>1. p.cpu \in BoostLevels /\ p.gpu \in BoostLevels
      BY <2>1 DEF Profiles, Silent, Balanced, Gaming
    <3>2. describe_profile(p) = <<"custom", p.cpu, p.gpu>>
      BY <2>1 DEF describe_profile
    <3>3. \/ Len(c) = 1 /\ c[1] \in {"custom"} \cup CutWord("custom")
          \/ Len(c) = 2
          \/ Len(c) = 3 /\ c[3] \in CutWord(p.gpu)
      BY <3>2, CutThree
    <3> QED BY <1>2, <3>1, <3>3
  <2>2. CASE p.name # "custom"
    <3>1. describe_profile(p) = <<p.name>>
      BY <2>2 DEF describe_profile
    <3>2. Len(c) = 1 /\ c[1] \in CutWord(p.name)
      BY <3>1, CutOne
    <3> QED BY <1>1, <1>2, <3>2
  <2> QED BY <2>1, <2>2
<1>4. \A q \in {Silent, Balanced, Gaming} : c # <<q.name>>
  <2>1. \A q \in {Silent, Balanced, Gaming} :
          Len(<<q.name>>) = 1 /\ <<q.name>>[1] \notin {"cut", "custom"}
    BY DEF Silent, Balanced, Gaming
  <2> QED BY <1>3, <2>1
<1>5. Len(c) = 3 => parse_custom(c[2], c[3]) = {}
  <2>1. ASSUME Len(c) = 3 PROVE parse_boost_level(c[3]) = {}
    BY <1>3, <2>1 DEF parse_boost_level, BoostLevels
  <2> QED BY <2>1 DEF parse_custom
<1> QED BY <1>4, <1>5 DEF parse_profile, None

LEMMA CutEffect ==
  ASSUME NEW e \in LightingEffects, e.name = "static" => Color(e.rgb),
         NEW c \in CutValue(describe_effect(e))
  PROVE  parse_effect(c) = {}
<1>1. \A w \in {"off", "wave", "spectrum", "static"} : CutWord(w) = {"cut"}
  BY CutOfWord DEF Words
<1>2. \/ Len(c) = 1 /\ c[1] \in {"cut", "static"}
      \/ Len(c) = 2 /\ c[2] \notin DOMAIN Hexes
  <2>1. CASE e.name = "static"
    <3>1. e.rgb \in DOMAIN Hexes
      BY <2>1 DEF Color
    <3>2. describe_effect(e) = <<"static", e.rgb>>
      BY <2>1 DEF describe_effect
    <3>3. \/ Len(c) = 1 /\ c[1] \in {"static"} \cup CutWord("static")
          \/ Len(c) = 2 /\ c[1] = "static" /\ c[2] \in CutWord(e.rgb)
      BY <3>2, CutTwo
    <3>4. CutWord(e.rgb) \cap DOMAIN Hexes = {}
      BY <3>1, ColorAssumption
    <3> QED BY <1>1, <3>3, <3>4
  <2>2. CASE e.name # "static"
    <3>1. e.name \in {"off", "wave", "spectrum"}
      BY <2>2 DEF LightingEffects
    <3>2. describe_effect(e) = <<e.name>>
      BY <2>2 DEF describe_effect
    <3>3. Len(c) = 1 /\ c[1] \in CutWord(e.name)
      BY <3>2, CutOne
    <3> QED BY <1>1, <3>1, <3>3
  <2> QED BY <2>1, <2>2
<1>3. \A x \in {"off", "spectrum", "wave"} : c # <<x>>
  <2>1. \A x \in {"off", "spectrum", "wave"} : Len(<<x>>) = 1 /\ <<x>>[1] \notin {"cut", "static"}
    OBVIOUS
  <2> QED BY <1>2, <2>1
<1>4. Len(c) = 2 => parse_rgb(c[2]) = {}
  BY <1>2 DEF parse_rgb
<1> QED BY <1>3, <1>4 DEF parse_effect, None

LEMMA CutLogo ==
  ASSUME NEW l \in LogoModes, NEW c \in CutValue(<<l>>)
  PROVE  parse_logo(c) = {}
<1>1. CutWord(l) = {"cut"}
  BY CutOfWord DEF LogoModes, Words
<1>2. Len(c) = 1 /\ c[1] = "cut"
  BY <1>1, CutOne
<1>3. \A x \in LogoModes : c # <<x>>
  <2>1. \A x \in LogoModes : <<x>>[1] # "cut"
    BY DEF LogoModes
  <2> QED BY <1>2, <2>1
<1> QED BY <1>3 DEF parse_logo

\* A number that lost digits.
Lessened(f, x, y) ==
  \E n \in Amount(f, x) : Amount(f, y) \subseteq Shortened(n) /\ Amount(f, y) # {}

LEMMA FieldCut ==
  ASSUME NEW f \in Fields, NEW x, FieldWritten(f, x), NEW v \in Text(f, x), NEW c \in CutValue(v)
  PROVE  Read(f, {c}) = DefaultState[f] \/ Lessened(f, x, Read(f, {c}))
<1> USE DEF FanFields, PercentFields
<1>1. CASE f \in FanFields
  <2>1. x \in Option(FanModes) /\ FanWritten(x)
    BY <1>1 DEF FieldWritten
  <2>2. PICK m \in x : v = describe_fan_mode(m)
    BY <1>1 DEF Text, Fans
  <2>3. x = {m} /\ m \in FanModes /\ (m = FanAuto \/ Number(m.rpm))
    BY <2>1, <2>2 DEF Option, FanWritten
  <2>4. Read(f, {c}) = parse_fan(c)
    BY <1>1 DEF Read
  <2>5. CASE parse_fan(c) = {}
    BY <1>1, <2>4, <2>5 DEF DefaultState, None
  <2>6. CASE \E k \in Shortened(m.rpm) : parse_fan(c) = {FanManual(k)}
    <3>1. PICK k \in Shortened(m.rpm) : parse_fan(c) = {FanManual(k)}
      BY <2>6
    <3>2. Amount(f, x) = {m.rpm}
      BY <1>1, <2>3 DEF Amount
    <3>3. Amount(f, Read(f, {c})) = {k}
      <4>1. FanManual(k).rpm = k
        BY DEF FanManual
      <4> DEFINE y == {FanManual(k)}
      <4>2. Amount(f, y) = {q.rpm : q \in y}
        BY <1>1 DEF Amount
      <4> QED BY <2>4, <3>1, <4>1, <4>2
    <3> QED BY <3>2, <3>3 DEF Lessened
  <2> QED BY <2>2, <2>3, <2>5, <2>6, CutFan
<1>2. CASE f \in PercentFields
  <2>1. x \in Option(U8) /\ PercentWritten(x)
    BY <1>2 DEF FieldWritten
  <2>2. PICK n \in x : v = <<Decimal(n)>>
    BY <1>2 DEF Text, Percents
  <2>3. x = {n} /\ n \in U8 /\ Number(n)
    BY <2>1, <2>2 DEF Option, PercentWritten
  <2>4. Read(f, {c}) = parse_percent(c)
    BY <1>2 DEF Read
  <2>5. CASE parse_percent(c) = {}
    BY <1>2, <2>4, <2>5 DEF DefaultState, None
  <2>6. CASE \E k \in Shortened(n) : parse_percent(c) = {k}
    <3>1. PICK k \in Shortened(n) : parse_percent(c) = {k}
      BY <2>6
    <3>2. Amount(f, x) = {n} /\ Amount(f, Read(f, {c})) = {k}
      BY <1>2, <2>3, <2>4, <3>1 DEF Amount
    <3> QED BY <3>2 DEF Lessened
  <2> QED BY <2>2, <2>3, <2>5, <2>6, CutPercent
<1>3. CASE f = "battery_health"
  <2>1. x \in BatteryHealths /\ (x \in {BhoOff, BhoUnset} \/ Number(x.limit))
    BY <1>3 DEF FieldWritten
  <2>2. v \in describe_bho(x)
    BY <1>3 DEF Text
  <2>3. Read(f, {c}) = parse_bho({c})
    BY <1>3 DEF Read
  <2>4. CASE parse_bho({c}) = BhoUnset
    BY <1>3, <2>3, <2>4 DEF DefaultState
  <2>5. CASE x = BhoLimit(x.limit) /\ \E k \in Shortened(x.limit) : parse_bho({c}) = BhoLimit(k)
    <3>1. PICK k \in Shortened(x.limit) : parse_bho({c}) = BhoLimit(k)
      BY <2>5
    <3>2. \A n : BhoLimit(n).limit = n /\ BhoLimit(n) \notin {BhoOff, BhoUnset}
      BY DEF BhoLimit, BhoOff, BhoUnset
    <3>3. ASSUME NEW n PROVE Amount(f, BhoLimit(n)) = {n}
      <4>1. {BhoLimit(n)} \ {BhoOff, BhoUnset} = {BhoLimit(n)}
        BY <3>2
      <4>2. Amount(f, BhoLimit(n)) = {h.limit : h \in {BhoLimit(n)} \ {BhoOff, BhoUnset}}
        BY <1>3 DEF Amount
      <4> QED BY <3>2, <4>1, <4>2
    <3>4. Amount(f, x) = {x.limit}
      BY <2>5, <3>3
    <3>5. Amount(f, Read(f, {c})) = {k}
      BY <2>3, <3>1, <3>3
    <3> QED BY <3>1, <3>4, <3>5 DEF Lessened
  <2> QED BY <2>1, <2>2, <2>4, <2>5, CutBho
<1>4. CASE f = "profile"
  <2>1. PICK p \in x : v = describe_profile(p)
    BY <1>4 DEF Text
  <2>2. p \in Profiles
    BY <1>4 DEF FieldWritten, Option
  <2>3. parse_profile(c) = {}
    BY <2>1, <2>2, CutProfile
  <2> QED BY <1>4, <2>3 DEF Read, DefaultState, None
<1>5. CASE f = "kbd_effect"
  <2>1. PICK e \in x : v = describe_effect(e)
    BY <1>5 DEF Text
  <2>2. e \in LightingEffects /\ (e.name = "static" => Color(e.rgb))
    BY <1>5 DEF FieldWritten, Option
  <2>3. parse_effect(c) = {}
    BY <2>1, <2>2, CutEffect
  <2> QED BY <1>5, <2>3 DEF Read, DefaultState, None
<1>6. CASE f = "logo"
  <2>1. PICK l \in x : v = <<l>>
    BY <1>6 DEF Text
  <2>2. l \in LogoModes
    BY <1>6 DEF FieldWritten, Option
  <2>3. parse_logo(c) = {}
    BY <2>1, <2>2, CutLogo
  <2> QED BY <1>6, <2>3 DEF Read, DefaultState, None
<1> QED BY <1>1, <1>2, <1>3, <1>4, <1>5, <1>6 DEF Fields

-----------------------------------------------------------------------------
(* The lines of the state file *)

Occurs(x, lines) == \E i \in DOMAIN lines : lines[i] = x

LEMMA ConcatOccurs ==
  ASSUME NEW T, NEW a \in Seq(T), NEW b \in Seq(T)
  PROVE  /\ a \o b \in Seq(T)
         /\ \A x : Occurs(x, a) \/ Occurs(x, b) => Occurs(x, a \o b)
<1> DEFINE c == a \o b
<1>1. /\ c \in Seq(T) /\ Len(c) = Len(a) + Len(b)
      /\ \A i \in 1..(Len(a) + Len(b)) : c[i] = IF i <= Len(a) THEN a[i] ELSE b[i - Len(a)]
  BY ConcatProperties
<1>2. /\ DOMAIN a = 1..Len(a) /\ DOMAIN b = 1..Len(b) /\ DOMAIN c = 1..Len(c)
      /\ Len(a) \in Nat /\ Len(b) \in Nat
  BY <1>1
<1> HIDE DEF c
<1>3. ASSUME NEW i \in DOMAIN a PROVE i \in DOMAIN c /\ c[i] = a[i]
  BY <1>1, <1>2
<1>4. ASSUME NEW i \in DOMAIN b PROVE Len(a) + i \in DOMAIN c /\ c[Len(a) + i] = b[i]
  <2>1. Len(a) + i \in 1..(Len(a) + Len(b)) /\ ~(Len(a) + i <= Len(a)) /\ Len(a) + i - Len(a) = i
    BY <1>2
  <2> QED BY <1>1, <1>2, <2>1
<1>5. \A x : Occurs(x, a) \/ Occurs(x, b) => Occurs(x, c)
  BY <1>3, <1>4 DEF Occurs
<1> QED BY <1>1, <1>5 DEF c

LEMMA OneLine ==
  ASSUME NEW y, NEW g \in [1..1 -> {y}], NEW T, y \in T
  PROVE  g \in Seq(T) /\ Occurs(y, g)
<1>1. g \in [1..1 -> T] /\ 1 \in DOMAIN g /\ g[1] = y
  OBVIOUS
<1>2. 1 \in Nat /\ [1..1 -> T] \in {[1..n -> T] : n \in Nat}
  OBVIOUS
<1>3. g \in Seq(T)
  BY <1>1, <1>2, SeqDef, Zenon
<1> QED BY <1>1, <1>3 DEF Occurs

LEMMA LineOccurs ==
  ASSUME NEW key, NEW values, \A v, w \in values : v = w,
         NEW T, \A v \in values : <<key, v>> \in T
  PROVE  /\ Line(key, values) \in Seq(T)
         /\ \A v \in values : Occurs(<<key, v>>, Line(key, values))
<1> DEFINE S == {<<key, v>> : v \in values}
           line == Line(key, values)
<1>1. line = CHOOSE g \in [1..Cardinality(S) -> S] : IsInjective(g)
  BY DEF Line, SetToSeq
<1>2. CASE values = {}
  <2>1. S = {} /\ Cardinality(S) = 0
    BY <1>2, FS_EmptySet
  <2>2. [i \in 1..0 |-> i] \in [1..0 -> {}] /\ IsInjective([i \in 1..0 |-> i])
    BY DEF IsInjective
  <2>3. line \in [1..0 -> {}]
    BY <1>1, <2>1, <2>2
  <2>4. line \in [1..0 -> T]
    BY <2>3
  <2>5. line \in Seq(T)
    BY <2>4
  <2> QED BY <1>2, <2>5
<1>3. CASE values # {}
  <2>1. PICK v : values = {v}
    BY <1>3
  <2>2. S = {<<key, v>>} /\ Cardinality(S) = 1
    BY <2>1, FS_Singleton
  <2>3. [i \in 1..1 |-> <<key, v>>] \in [1..1 -> S] /\ IsInjective([i \in 1..1 |-> <<key, v>>])
    BY <2>2 DEF IsInjective
  <2>4. line \in [1..1 -> S]
    <3> HIDE DEF line, S
    <3> QED BY <1>1, <2>2, <2>3
  <2>5. <<key, v>> \in T
    BY <2>1
  <2> HIDE DEF line, S
  <2>6. line \in Seq(T) /\ Occurs(<<key, v>>, line)
    BY <2>2, <2>4, <2>5, OneLine
  <2> QED BY <2>1, <2>6 DEF line
<1> QED BY <1>2, <1>3

\* Every line that settings have in the file.
Written(s) == UNION {{<<Key(f), v>> : v \in Text(f, s[f])} : f \in Fields}

\* A listing of such lines that has the fields of a set.
Holds(lines, s, set) ==
  /\ lines \in Seq(Written(s))
  /\ \A f \in set : \A v \in Text(f, s[f]) : Occurs(<<Key(f), v>>, lines)

LEMMA LineWritten ==
  ASSUME NEW s, WellWritten(s), NEW f \in Fields
  PROVE  /\ Line(Key(f), Text(f, s[f])) \in Seq(Written(s))
         /\ \A v \in Text(f, s[f]) : Occurs(<<Key(f), v>>, Line(Key(f), Text(f, s[f])))
<1>1. \A v, w \in Text(f, s[f]) : v = w
  BY FieldByField, FieldReadsBack
<1>2. \A v \in Text(f, s[f]) : <<Key(f), v>> \in Written(s)
  BY DEF Written
<1> QED BY <1>1, <1>2, LineOccurs

LEMMA OneMore ==
  ASSUME NEW s, WellWritten(s), NEW lines, NEW set, Holds(lines, s, set), NEW f \in Fields
  PROVE  Holds(lines \o Line(Key(f), Text(f, s[f])), s, set \cup {f})
<1> DEFINE line == Line(Key(f), Text(f, s[f]))
<1>1. /\ line \in Seq(Written(s))
      /\ \A v \in Text(f, s[f]) : Occurs(<<Key(f), v>>, line)
  BY LineWritten
<1> HIDE DEF line
<1>2. /\ lines \o line \in Seq(Written(s))
      /\ \A x : Occurs(x, lines) \/ Occurs(x, line) => Occurs(x, lines \o line)
  BY <1>1, ConcatOccurs DEF Holds
<1>3. Holds(lines \o line, s, set \cup {f})
  BY <1>1, <1>2 DEF Holds
<1> QED BY <1>3 DEF line

LEMMA RenderHolds ==
  ASSUME NEW s, WellWritten(s)
  PROVE  Holds(render(s), s, Fields)
<1> DEFINE L(f) == Line(Key(f), Text(f, s[f]))
           a1 == L("fan")
           f1 == {"fan"}
           a2 == a1 \o L("battery_health")
           f2 == f1 \cup {"battery_health"}
           a3 == a2 \o L("fan_on_ac")
           f3 == f2 \cup {"fan_on_ac"}
           a4 == a3 \o L("fan_on_battery")
           f4 == f3 \cup {"fan_on_battery"}
           a5 == a4 \o L("profile")
           f5 == f4 \cup {"profile"}
           a6 == a5 \o L("kbd_brightness")
           f6 == f5 \cup {"kbd_brightness"}
           a7 == a6 \o L("kbd_effect")
           f7 == f6 \cup {"kbd_effect"}
           a8 == a7 \o L("logo")
           f8 == f7 \cup {"logo"}
           a9 == a8 \o L("kbd_on_ac")
           f9 == f8 \cup {"kbd_on_ac"}
           a10 == a9 \o L("kbd_on_battery")
           f10 == f9 \cup {"kbd_on_battery"}
<1>1. /\ "fan" \in Fields
      /\ "battery_health" \in Fields
      /\ "fan_on_ac" \in Fields
      /\ "fan_on_battery" \in Fields
      /\ "profile" \in Fields
      /\ "kbd_brightness" \in Fields
      /\ "kbd_effect" \in Fields
      /\ "logo" \in Fields
      /\ "kbd_on_ac" \in Fields
      /\ "kbd_on_battery" \in Fields
  BY DEF Fields, FanFields, PercentFields
<1>2. Holds(a1, s, f1)
  BY <1>1, LineWritten DEF Holds
<1>3. render(s) = a10
  <2>1. /\ L("fan") = Line("fan", Fans(s.fan))
        /\ L("battery_health") = Line("bho", describe_bho(s.battery_health))
        /\ L("fan_on_ac") = Line("fan_on_ac", Fans(s.fan_on_ac))
        /\ L("fan_on_battery") = Line("fan_on_battery", Fans(s.fan_on_battery))
        /\ L("profile") = Line("profile", {describe_profile(p) : p \in s.profile})
        /\ L("kbd_brightness") = Line("kbd_brightness", Percents(s.kbd_brightness))
        /\ L("kbd_effect") = Line("kbd_effect", {describe_effect(e) : e \in s.kbd_effect})
        /\ L("logo") = Line("logo", {<<l>> : l \in s.logo})
        /\ L("kbd_on_ac") = Line("kbd_on_ac", Percents(s.kbd_on_ac))
        /\ L("kbd_on_battery") = Line("kbd_on_battery", Percents(s.kbd_on_battery))
    BY DEF Key, Text, FanFields, PercentFields
  <2> HIDE DEF L
  <2> QED BY <2>1 DEF render
<1>4. ASSUME NEW lines, NEW set, Holds(lines, s, set), NEW f \in Fields
      PROVE  Holds(lines \o L(f), s, set \cup {f})
  BY <1>4, OneMore
<1> HIDE DEF L, a1, f1
<1>5. Holds(a2, s, f2)
  BY <1>1, <1>4, <1>2
<1> HIDE DEF a2, f2
<1>6. Holds(a3, s, f3)
  BY <1>1, <1>4, <1>5
<1> HIDE DEF a3, f3
<1>7. Holds(a4, s, f4)
  BY <1>1, <1>4, <1>6
<1> HIDE DEF a4, f4
<1>8. Holds(a5, s, f5)
  BY <1>1, <1>4, <1>7
<1> HIDE DEF a5, f5
<1>9. Holds(a6, s, f6)
  BY <1>1, <1>4, <1>8
<1> HIDE DEF a6, f6
<1>10. Holds(a7, s, f7)
  BY <1>1, <1>4, <1>9
<1> HIDE DEF a7, f7
<1>11. Holds(a8, s, f8)
  BY <1>1, <1>4, <1>10
<1> HIDE DEF a8, f8
<1>12. Holds(a9, s, f9)
  BY <1>1, <1>4, <1>11
<1> HIDE DEF a9, f9
<1>13. Holds(a10, s, f10)
  BY <1>1, <1>4, <1>12
<1> HIDE DEF a10, f10
<1>14. f10 = Fields
  BY DEF f10, f9, f8, f7, f6, f5, f4, f3, f2, f1,
         Fields, FanFields, PercentFields
<1> QED BY <1>3, <1>13, <1>14

-----------------------------------------------------------------------------
(* What is read of a file, whole or torn *)

LEMMA KeysDiffer == \A f, g \in Fields : Key(f) = Key(g) => f = g
BY DEF Key, Fields, FanFields, PercentFields

LEMMA SeqListing == ASSUME NEW T, NEW lines \in Seq(T) PROVE IsListing(lines)
BY DEF IsListing

\* Lines that settings have tell of a field what they say, or nothing.
LEMMA WrittenValue ==
  ASSUME NEW s, NEW lines \in Seq(Written(s)), NEW f \in Fields
  PROVE  Value(lines, Key(f)) \subseteq Text(f, s[f])
<1>1. IsListing(lines) /\ \A i \in DOMAIN lines : lines[i] \in Written(s)
  BY SeqListing
<1>2. ASSUME NEW v \in Value(lines, Key(f))
      PROVE  v \in Text(f, s[f])
  <2>1. PICK i \in DOMAIN lines : Len(lines[i]) = 2 /\ lines[i][1] = Key(f) /\ lines[i][2] = v
    BY <1>1, ValueOne
  <2>2. PICK g \in Fields : \E w \in Text(g, s[g]) : lines[i] = <<Key(g), w>>
    BY <1>1 DEF Written
  <2> PICK w \in Text(g, s[g]) : lines[i] = <<Key(g), w>>
    BY <2>2
  <2>3. Key(g) = Key(f) /\ w = v
    BY <2>1
  <2>4. g = f
    BY <2>3, KeysDiffer
  <2> QED BY <2>3, <2>4
<1> QED BY <1>2

\* A field that has its text, or none, is read as it was or as not set.
LEMMA WholeRead ==
  ASSUME NEW f \in Fields, NEW x, FieldWritten(f, x), NEW V, V \subseteq Text(f, x)
  PROVE  Read(f, V) \in {x, DefaultState[f]} /\ (V # {} => Read(f, V) = x)
<1>1. V = {} \/ V = Text(f, x)
  BY FieldReadsBack
<1> QED BY <1>1, FieldReadsBack

\* The file that was saved is the settings.
LEMMA RenderReads ==
  ASSUME NEW s, WellWritten(s)
  PROVE  parse(render(s)) = s
<1>1. render(s) \in Seq(Written(s)) /\ IsListing(render(s))
  BY RenderHolds, SeqListing DEF Holds
<1>2. ASSUME NEW f \in Fields
      PROVE  Read(f, Value(render(s), Key(f))) = s[f]
  <2>1. Value(render(s), Key(f)) \subseteq Text(f, s[f])
    BY <1>1, WrittenValue
  <2>2. CASE Text(f, s[f]) = {}
    <3>1. Value(render(s), Key(f)) = Text(f, s[f])
      BY <2>1, <2>2
    <3> QED BY <3>1, FieldByField, FieldReadsBack
  <2>3. CASE Text(f, s[f]) # {}
    <3>1. PICK v \in Text(f, s[f]) : TRUE
      BY <2>3
    <3>2. PICK i \in DOMAIN render(s) : render(s)[i] = <<Key(f), v>>
      BY RenderHolds DEF Holds, Occurs
    <3>3. Len(render(s)[i]) = 2 /\ render(s)[i][1] = Key(f)
      BY <3>2
    <3>4. Value(render(s), Key(f)) # {}
      BY <1>1, <3>3, ValueSome
    <3> QED BY <2>1, <3>4, FieldByField, WholeRead
  <2> QED BY <2>2, <2>3
<1>3. s = [f \in Fields |-> s[f]]
  BY FieldByField
<1>4. parse(render(s)) = [f \in Fields |-> Read(f, Value(render(s), Key(f)))]
  BY ParseReads
<1> QED BY <1>2, <1>3, <1>4

\* What a torn file says of each field: at most one of them was cut.
LEMMA TornValues ==
  ASSUME NEW s, WellWritten(s), NEW lines \in Seq(Written(s)), NEW t \in Torn(lines)
  PROVE  /\ IsListing(t)
         /\ \/ \A f \in Fields : Value(t, Key(f)) \subseteq Text(f, s[f])
            \/ \E g \in Fields :
                 /\ \A f \in Fields \ {g} : Value(t, Key(f)) \subseteq Text(f, s[f])
                 /\ \E v \in Text(g, s[g]) : \E w \in CutValue(v) : Value(t, Key(g)) = {w}
<1>1. PICK n \in DOMAIN lines :
        \/ t = SubSeq(lines, 1, n - 1)
        \/ \E c \in Cut(lines[n]) : t = Append(SubSeq(lines, 1, n - 1), c)
  BY DEF Torn
<1> DEFINE b == SubSeq(lines, 1, n - 1)
<1>2. n \in 1..Len(lines) /\ Len(lines) \in Nat /\ \A i \in 1..Len(lines) : lines[i] \in Written(s)
  OBVIOUS
<1>3. b \in Seq(Written(s))
  <2>1. 1 \in Int /\ n - 1 \in Int /\ \A i \in 1..(n - 1) : lines[i] \in Written(s)
    BY <1>2
  <2> QED BY <2>1, SubSeqProperties
<1> HIDE DEF b
<1>4. \A f \in Fields : Value(b, Key(f)) \subseteq Text(f, s[f])
  BY <1>3, WrittenValue
<1>5. CASE t = b
  BY <1>3, <1>4, <1>5, SeqListing
<1>6. CASE \E c \in Cut(lines[n]) : t = Append(b, c)
  <2>1. PICK c \in Cut(lines[n]) : t = Append(b, c)
    BY <1>6
  <2>2. PICK g \in Fields : \E v \in Text(g, s[g]) : lines[n] = <<Key(g), v>>
    BY <1>2 DEF Written
  <2> PICK v \in Text(g, s[g]) : lines[n] = <<Key(g), v>>
    BY <2>2
  <2>3. c = <<Key(g)>> \/ \E w \in CutValue(v) : c = <<Key(g), w>>
    BY DEF Cut
  <2> DEFINE T == Written(s) \cup {c}
  <2>4. b \in Seq(T) /\ c \in T
    BY <1>3
  <2> HIDE DEF T
  <2>5. ASSUME NEW key
        PROVE  /\ Len(c) = 2 /\ c[1] = key => Value(t, key) = {c[2]}
               /\ ~(Len(c) = 2 /\ c[1] = key) => \A u \in Value(t, key) : u \in Value(b, key)
    <3>1. /\ Len(c) = 2 /\ c[1] = key => Value(Append(b, c), key) = {c[2]}
          /\ ~(Len(c) = 2 /\ c[1] = key) =>
               \A u \in Value(Append(b, c), key) : u \in Value(b, key)
      BY <2>4, ValueAppend
    <3> QED BY <2>1, <3>1
  <2>6. IsListing(t)
    <3>1. t \in Seq(T)
      BY <2>1, <2>4, AppendProperties
    <3> QED BY <3>1, SeqListing
  <2>7. CASE c = <<Key(g)>>
    <3>1. Len(c) # 2
      BY <2>7
    <3>2. \A f \in Fields : Value(t, Key(f)) \subseteq Text(f, s[f])
      BY <1>4, <2>5, <3>1
    <3> QED BY <2>6, <3>2
  <2>8. CASE \E w \in CutValue(v) : c = <<Key(g), w>>
    <3>1. PICK w \in CutValue(v) : c = <<Key(g), w>>
      BY <2>8
    <3>2. Len(c) = 2 /\ c[1] = Key(g) /\ c[2] = w
      BY <3>1
    <3>3. Value(t, Key(g)) = {w}
      BY <2>5, <3>2
    <3>4. \A f \in Fields \ {g} : Value(t, Key(f)) \subseteq Text(f, s[f])
      <4>1. \A f \in Fields \ {g} : c[1] # Key(f)
        BY <3>2, KeysDiffer
      <4> QED BY <1>4, <2>5, <4>1
    <3> QED BY <2>6, <3>3, <3>4
  <2> QED BY <2>3, <2>7, <2>8
<1> QED BY <1>1, <1>5, <1>6 DEF b

\* What the settings last written say of a file.
Tells(lines, s) ==
  LET read == parse(lines)
      Odd  == {k \in DOMAIN read : read[k] \notin {s[k], DefaultState[k]}}
  IN  /\ Cardinality(Odd) <= 1
      /\ \A k \in Odd : \E n \in Amount(k, s[k]) :
           Amount(k, read[k]) \subseteq Shortened(n) /\ Amount(k, read[k]) # {}

LEMMA OneOdd ==
  ASSUME NEW lines, NEW s, NEW g,
         \A f \in Fields \ {g} : parse(lines)[f] \in {s[f], DefaultState[f]},
         g \in Fields => \/ parse(lines)[g] \in {s[g], DefaultState[g]}
                        \/ Lessened(g, s[g], parse(lines)[g])
  PROVE  Tells(lines, s)
<1> DEFINE read == parse(lines)
           Odd  == {k \in DOMAIN read : read[k] \notin {s[k], DefaultState[k]}}
<1>1. DOMAIN read = Fields
  BY ParseReads
<1>2. Odd = {} \/ Odd = {g}
  BY <1>1
<1>3. Cardinality(Odd) <= 1
  <2> HIDE DEF Odd
  <2>1. CASE Odd = {}
    BY <2>1, FS_EmptySet
  <2>2. CASE Odd = {g}
    <3>1. Cardinality({g}) = 1
      BY FS_Singleton
    <3> QED BY <2>2, <3>1
  <2> QED BY <1>2, <2>1, <2>2
<1>4. \A k \in Odd : Lessened(k, s[k], read[k])
  BY <1>1
<1> QED BY <1>3, <1>4 DEF Tells, Lessened

LEMMA TornTells ==
  ASSUME NEW s, WellWritten(s), NEW t \in Torn(render(s))
  PROVE  IsListing(t) /\ Tells(t, s)
<1>1. render(s) \in Seq(Written(s))
  BY RenderHolds DEF Holds
<1>2. \A f \in Fields : FieldWritten(f, s[f])
  BY FieldByField
<1>3. \A f \in Fields : parse(t)[f] = Read(f, Value(t, Key(f)))
  BY ParseReads
<1>4. \A f \in Fields : Value(t, Key(f)) \subseteq Text(f, s[f])
                          => parse(t)[f] \in {s[f], DefaultState[f]}
  BY <1>2, <1>3, WholeRead
<1>5. CASE \A f \in Fields : Value(t, Key(f)) \subseteq Text(f, s[f])
  <2>1. Tells(t, s)
    BY <1>4, <1>5, OneOdd
  <2> QED BY <1>1, <2>1, TornValues
<1>6. CASE \E g \in Fields :
             /\ \A f \in Fields \ {g} : Value(t, Key(f)) \subseteq Text(f, s[f])
             /\ \E v \in Text(g, s[g]) : \E w \in CutValue(v) : Value(t, Key(g)) = {w}
  <2>1. PICK g \in Fields :
             /\ \A f \in Fields \ {g} : Value(t, Key(f)) \subseteq Text(f, s[f])
             /\ \E v \in Text(g, s[g]) : \E w \in CutValue(v) : Value(t, Key(g)) = {w}
    BY <1>6
  <2>2. PICK v \in Text(g, s[g]) : \E w \in CutValue(v) : Value(t, Key(g)) = {w}
    BY <2>1
  <2>3. PICK w \in CutValue(v) : Value(t, Key(g)) = {w}
    BY <2>2
  <2>4. parse(t)[g] = DefaultState[g] \/ Lessened(g, s[g], parse(t)[g])
    BY <1>2, <1>3, <2>3, FieldCut
  <2>5. Tells(t, s)
    BY <1>4, <2>1, <2>4, OneOdd
  <2> QED BY <1>1, <2>5, TornValues
<1> QED BY <1>1, <1>5, <1>6, TornValues

\* A file that reads as the settings tells them.
LEMMA WholeTells == ASSUME NEW lines PROVE Tells(lines, parse(lines))
BY OneOdd

-----------------------------------------------------------------------------
(* The inductive invariant *)

IInv ==
  /\ TypeOK
  /\ WellWritten(state)
  /\ \A f, g \in file : f = g /\ IsListing(f)
  /\ up /\ ~dirty /\ synced => Loaded = state
  /\ \A f \in file : Tells(f, saved)

LEMMA InvTells == IInv => FileTellsSettings
BY DEF IInv, FileTellsSettings, Tells

LEMMA LoadedWritten ==
  ASSUME \A f, g \in file : f = g /\ IsListing(f)
  PROVE  WellWritten(Loaded)
<1>1. CASE file = None
  BY <1>1, FactoryWritten DEF Loaded
<1>2. CASE file # None
  <2> DEFINE f == CHOOSE g \in file : TRUE
  <2>1. f \in file
    BY <1>2 DEF None
  <2>2. Loaded = parse(f)
    BY <1>2 DEF Loaded
  <2> HIDE DEF f
  <2> QED BY <2>1, <2>2, ParseWellWritten
<1> QED BY <1>1, <1>2

LEMMA SettingTypes ==
  ASSUME NEW s, WellWritten(s)
  PROVE  /\ s \in PersistedStates
         /\ \A m \in s.fan : m \in FanModes
         /\ \A p \in s.profile : p \in Profiles
BY DEF WellWritten, PersistedStates, Option

LEMMA BackendNames ==
  ASSUME NEW rest
  PROVE  parse_backend_flag(rest) \subseteq {"dry-run", "hidraw"}
BY DEF parse_backend_flag

LEMMA CandidateIsLaptop ==
  ASSUME NEW candidates
  PROVE  \A c \in select_hid_candidate(candidates) : c.id = Laptop
<1> DEFINE ours    == {i \in DOMAIN candidates : candidates[i].id = Laptop}
           control == Indices({i \in ours : candidates[i].interface = 0})
           vendor  == Indices({i \in ours : candidates[i].usage_page >= 65280})
<1>1. control \subseteq ours /\ vendor \subseteq ours
  BY DEF Indices
<1>2. select_hid_candidate(candidates)
        = {candidates[i] : i \in IF control # {} THEN control ELSE vendor}
  BY DEF select_hid_candidate
<1>3. \A i \in ours : candidates[i].id = Laptop
  OBVIOUS
<1> HIDE DEF ours, control, vendor
<1> QED BY <1>1, <1>2, <1>3

LEMMA InvInit == Init => IInv
<1> SUFFICES ASSUME Init PROVE IInv
  OBVIOUS
<1>1. \A f, g \in file : f = g /\ IsListing(f)
  BY SessionAssumption DEF Init, IsListing
<1>2. saved \in PersistedStates /\ \A f \in file : Tells(f, saved)
  <2>1. CASE file = None
    <3>1. saved = DefaultState
      BY <2>1 DEF Init
    <3> QED BY <2>1, <3>1, FactoryWritten DEF WellWritten, None
  <2>2. CASE file # None
    <3> DEFINE f == CHOOSE g \in file : TRUE
    <3>1. f \in file
      BY <2>2 DEF None
    <3>2. saved = parse(f)
      BY <2>2 DEF Init
    <3> HIDE DEF f
    <3>3. \A g \in file : g = f
      BY <1>1, <3>1
    <3>4. WellWritten(saved) /\ Tells(f, saved)
      BY <1>1, <3>1, <3>2, ParseWellWritten, WholeTells
    <3> QED BY <3>3, <3>4 DEF WellWritten
  <2> QED BY <2>1, <2>2
<1>3. FanAuto \in FanModes /\ Balanced \in Profiles /\ 0 \in 0..MaxChanges
  BY SessionAssumption DEF FanModes, Profiles
<1>4. TypeOK
  BY <1>2, <1>3, FactoryWritten DEF Init, TypeOK, WellWritten, None
<1> QED BY <1>1, <1>2, <1>4, FactoryWritten DEF Init, IInv

LEMMA InvStart == ASSUME IInv, Start PROVE IInv'
<1>1. WellWritten(state') /\ synced' \in BOOLEAN /\ (synced' => state' = Loaded)
  BY LoadedWritten, FactoryWritten DEF IInv, Start, Load
<1>2. state' \in PersistedStates /\ fan_mode' \in FanModes /\ profile' \in Profiles
  <2>1. FanAuto \in FanModes /\ Balanced \in Profiles
    BY DEF FanModes, Profiles
  <2>2. /\ fan_mode' = FanAuto \/ \E m \in state'.fan : fan_mode' = m
        /\ profile' = Balanced \/ \E p \in state'.profile : profile' = p
    BY DEF Start
  <2> QED BY <1>1, <2>1, <2>2, SettingTypes
<1>3. /\ backend' \in {"dry-run", "hidraw"} /\ experimental' \in BOOLEAN
      /\ \A c \in node' : backend' = "hidraw" /\ c.id = Laptop
  <2>1. PICK rest \in CommandLines, candidates \in Enumerations :
           /\ backend' \in parse_backend_flag(rest)
           /\ experimental' = (\E i \in DOMAIN rest : rest[i] = "--experimental")
           /\ Open(backend', candidates)
    BY DEF Start
  <2>2. \A c \in node' : backend' = "hidraw" /\ c.id = Laptop
    BY <2>1, CandidateIsLaptop DEF Open, None
  <2> QED BY <2>1, <2>2, BackendNames
<1>4. up' = TRUE /\ dirty' = FALSE /\ UNCHANGED <<file, saved, changes>>
  BY DEF Start
<1>5. synced' => Loaded' = state'
  BY <1>1, <1>4 DEF Loaded
<1>6. TypeOK'
  BY <1>1, <1>2, <1>3, <1>4 DEF IInv, TypeOK
<1> QED BY <1>1, <1>4, <1>5, <1>6 DEF IInv

LEMMA InvSave == ASSUME IInv, Save PROVE IInv'
<1>1. /\ file' = {render(state)} /\ saved' = state /\ dirty' = FALSE /\ synced' = TRUE
      /\ UNCHANGED <<daemon, fan_mode, profile, state, changes>>
  BY DEF Save, Some
<1>2. parse(render(state)) = state /\ IsListing(render(state))
  BY RenderReads, RenderHolds, SeqListing DEF IInv, Holds
<1>3. Tells(render(state), state)
  BY <1>2, WholeTells
<1>4. Loaded' = state
  <2>1. (CHOOSE f \in file' : TRUE) = render(state)
    BY <1>1, ChooseOne
  <2>2. file' # None
    BY <1>1 DEF None
  <2> QED BY <1>2, <2>1, <2>2 DEF Loaded
<1>5. TypeOK'
  BY <1>1 DEF IInv, TypeOK, daemon
<1> QED BY <1>1, <1>2, <1>3, <1>4, <1>5 DEF IInv

\* A write cut short.
LEMMA TornFile ==
  ASSUME IInv, file' \in {Some(t) : t \in Torn(render(state))}, saved' = state
  PROVE  /\ \A f, g \in file' : f = g /\ IsListing(f)
         /\ \A f \in file' : Tells(f, saved')
         /\ saved' \in PersistedStates
<1>1. PICK t \in Torn(render(state)) : file' = {t}
  BY DEF Some
<1>2. IsListing(t) /\ Tells(t, state)
  BY TornTells DEF IInv
<1> QED BY <1>1, <1>2 DEF IInv, TypeOK

LEMMA InvSaveFails == ASSUME IInv, SaveFails PROVE IInv'
<1>1. /\ dirty' = FALSE /\ synced' = FALSE
      /\ UNCHANGED <<daemon, fan_mode, profile, state, changes>>
  BY DEF SaveFails
<1>2. /\ \A f, g \in file' : f = g /\ IsListing(f)
      /\ \A f \in file' : Tells(f, saved')
      /\ saved' \in PersistedStates
  <2>1. CASE UNCHANGED <<file, saved>>
    BY <2>1 DEF IInv, TypeOK
  <2>2. CASE file' \in {Some(t) : t \in Torn(render(state))} /\ saved' = state
    BY <2>2, TornFile
  <2> QED BY <2>1, <2>2 DEF SaveFails
<1>3. TypeOK'
  BY <1>1, <1>2 DEF IInv, TypeOK, daemon
<1> QED BY <1>1, <1>2, <1>3 DEF IInv

LEMMA InvEnd == ASSUME IInv, Stop \/ Crash PROVE IInv'
<1>1. /\ up' = FALSE /\ backend' = "dry-run" /\ experimental' = FALSE /\ node' = {}
      /\ fan_mode' = FanAuto /\ profile' = Balanced /\ state' = DefaultState
      /\ dirty' = FALSE /\ synced' = TRUE /\ changes' = changes
  BY DEF Stop, Crash, End, None
<1>2. /\ \A f, g \in file' : f = g /\ IsListing(f)
      /\ \A f \in file' : Tells(f, saved')
      /\ saved' \in PersistedStates
  <2>1. CASE UNCHANGED <<file, saved>>
    BY <2>1 DEF IInv, TypeOK
  <2>2. CASE file' \in {Some(t) : t \in Torn(render(state))} /\ saved' = state
    BY <2>2, TornFile
  <2> QED BY <2>1, <2>2 DEF Stop, Crash
<1>3. WellWritten(state') /\ state' \in PersistedStates
  BY <1>1, FactoryWritten DEF WellWritten
<1>4. fan_mode' \in FanModes /\ profile' \in Profiles
  BY <1>1 DEF FanModes, Profiles
<1>5. TypeOK'
  BY <1>1, <1>2, <1>3, <1>4 DEF IInv, TypeOK
<1> QED BY <1>1, <1>2, <1>3, <1>5 DEF IInv

LEMMA InvAnswer ==
  ASSUME IInv, NEW accepted, Answer(accepted)
  PROVE  IInv'
<1>1. UNCHANGED <<up, backend, experimental, node, fan_mode, profile, state, dirty, file, saved,
                  synced, changes>>
  BY DEF Answer, daemon
<1>2. TypeOK' /\ Loaded' = Loaded
  BY <1>1 DEF IInv, TypeOK, Loaded
<1> QED BY <1>1, <1>2 DEF IInv

LEMMA InvChange ==
  ASSUME IInv, NEW line, Change(line), WellWritten(state'), fan_mode' \in FanModes,
         profile' \in Profiles
  PROVE  IInv'
<1>1. /\ dirty' = TRUE /\ changes < MaxChanges /\ changes' = changes + 1
      /\ UNCHANGED <<up, backend, experimental, node, file, saved, synced>>
  BY DEF Change, daemon
<1>2. changes' \in 0..MaxChanges
  BY <1>1, SessionAssumption DEF IInv, TypeOK
<1>3. state' \in PersistedStates
  BY DEF WellWritten
<1>4. TypeOK'
  BY <1>1, <1>2, <1>3 DEF IInv, TypeOK
<1> QED BY <1>1, <1>4 DEF IInv

LEMMA InvLine ==
  ASSUME IInv, NEW line, Malformed(line) \/ Ask(line) \/ Configure(line) \/ Operate(line)
  PROVE  IInv'
<1>1. CASE Malformed(line) \/ Ask(line)
  BY <1>1, InvAnswer DEF Malformed, Ask
<1>2. CASE Configure(line)
  <2>1. PICK r \in parse_request(line) :
           /\ r.req \in {"automation", "kbd-automation"}
           /\ \/ Change(line) /\ state' = WithRule(state, r) /\ UNCHANGED <<fan_mode, profile>>
              \/ Answer(None)
    BY <1>2 DEF Configure
  <2>2. WellWritten(WithRule(state, r))
    BY <2>1, ParseRequest, WithRuleWritten DEF IInv
  <2>3. CASE Answer(None)
    BY <2>3, InvAnswer
  <2>4. CASE Change(line) /\ state' = WithRule(state, r) /\ UNCHANGED <<fan_mode, profile>>
    <3>1. fan_mode' \in FanModes /\ profile' \in Profiles
      BY <2>4 DEF IInv, TypeOK
    <3> QED BY <2>2, <2>4, <3>1, InvChange
  <2> QED BY <2>1, <2>3, <2>4
<1>3. CASE Operate(line)
  <2>1. PICK r \in parse_request(line) :
           /\ r.req = "operation"
           /\ \/ Answer(None)
              \/ /\ Change(line)
                 /\ state' = Persist(state, r.operation)
                 /\ fan_mode' = IF r.operation.op = "fan" THEN r.operation.mode ELSE fan_mode
                 /\ profile' = IF r.operation.op = "profile" THEN r.operation.profile ELSE profile
    BY <1>3 DEF Operate
  <2> DEFINE o == r.operation
  <2>2. OperationWritten(o)
    BY <2>1, ParseRequest
  <2> HIDE DEF o
  <2>3. CASE Answer(None)
    BY <2>3, InvAnswer
  <2>4. CASE /\ Change(line)
             /\ state' = Persist(state, o)
             /\ fan_mode' = IF o.op = "fan" THEN o.mode ELSE fan_mode
             /\ profile' = IF o.op = "profile" THEN o.profile ELSE profile
    <3>1. WellWritten(state')
      BY <2>2, <2>4, PersistWritten DEF IInv
    <3>2. /\ o.op = "fan" => o.mode \in FanModes
          /\ o.op = "profile" => o.profile \in Profiles
      BY <2>2 DEF OperationWritten, RequestedOperations, BhoOffOp
    <3>3. fan_mode' \in FanModes /\ profile' \in Profiles
      BY <2>4, <3>2 DEF IInv, TypeOK
    <3> QED BY <2>4, <3>1, <3>3, InvChange
  <2> QED BY <2>1, <2>3, <2>4 DEF o
<1> QED BY <1>1, <1>2, <1>3

LEMMA InvNext == ASSUME IInv, [Next]_vars PROVE IInv'
<1>1. CASE UNCHANGED vars
  <2>1. UNCHANGED <<up, backend, experimental, node, fan_mode, profile, state, dirty, file, saved,
                    synced, changes>>
    BY <1>1 DEF vars, daemon
  <2>2. TypeOK' /\ Loaded' = Loaded
    BY <2>1 DEF IInv, TypeOK, Loaded
  <2> QED BY <2>1, <2>2 DEF IInv
<1>2. CASE Start
  BY <1>2, InvStart
<1>3. CASE Save
  BY <1>3, InvSave
<1>4. CASE SaveFails
  BY <1>4, InvSaveFails
<1>5. CASE Stop \/ Crash
  BY <1>5, InvEnd
<1>6. CASE \E line \in Lines : Malformed(line) \/ Ask(line) \/ Configure(line) \/ Operate(line)
  BY <1>6, InvLine
<1> QED BY <1>1, <1>2, <1>3, <1>4, <1>5, <1>6 DEF Next

LEMMA InvHolds == Spec => []IInv
BY InvInit, InvNext, PTL DEF Spec

\* Whatever the file held and whatever lines are sent, what the daemon is set to
\* is a setting of its type, and the node a hidraw backend opened is the laptop's
\* (ipc.rs:28-126, config.rs:109-138, backend.rs).
THEOREM TypeCorrect == Spec => []TypeOK
<1>1. IInv => TypeOK
  BY DEF IInv
<1> QED BY <1>1, InvHolds, PTL

\* For every setting, every number of digits it lost and every line a write may
\* stop in: a file saved is read as the settings, and in one cut short at most
\* one setting reads as neither what it was nor as not set, and that one only by
\* digits it lost (config.rs:70-138, daemon_unix.rs:121-141).
THEOREM FileCorrect == Spec => []FileTellsSettings
BY InvHolds, InvTells, PTL
=============================================================================
