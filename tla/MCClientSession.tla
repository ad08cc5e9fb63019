-------------------------- MODULE MCClientSession --------------------------
(***************************************************************************)
(* A small instance of ClientSession for TLC.                              *)
(***************************************************************************)
EXTENDS ClientSession

\* Numbers at and around the limits of the policy and of the integer types,
\* what is left of them when digits are lost, and the two spellings that
\* str::parse also reads.
Numbers == {0, 2, 3, 5, 8, 20, 35, 40, 54, 80, 81, 101, 255, 306, 355, 540, 3550, 5400, 5401,
            65535, 68086}
MCNumerals ==
  [t \in {Decimal(n) : n \in Numbers} |-> CHOOSE n \in Numbers : Decimal(n) = t]
    @@ "+80" :> 80 @@ "0080" :> 80

MCColors == {"44d62c"}
MCHexes  == "44d62c" :> "44d62c" @@ "44D62C" :> "44d62c"

MCCommandLines ==
  {<<>>, <<"--experimental">>, <<"--backend", "--experimental">>, <<"--experimental", "--backend">>,
   <<"--backend", "dry-run", "--backend", "hidraw">>,
   <<"--backend", "hidraw", "--experimental">>}

\* A mouse alone, and with the laptop's interfaces behind it.
Mouse == [id |-> "1532:0084", interface |-> 0, usage_page |-> 65280]
Blade(interface, usage_page) ==
  [id |-> "1532:029d", interface |-> interface, usage_page |-> usage_page]
MCEnumerations == {<<Mouse>>, <<Mouse, Blade(1, 1), Blade(2, 65280)>>}

\* No file, one somebody edited, and one with every setting.
MCFirstFiles ==
  {None,
   Some(<< <<"fan", <<"manual">> >>, <<"junk">>, <<"kbd_brightness", <<"+80">> >>,
           <<"colour", <<"auto">> >>, <<"bho", <<"306">> >> >>),
   Some(<< <<"fan", <<"manual", "3550">> >>, <<"bho", <<"off">> >>,
           <<"fan_on_ac", <<"manual", "5400">> >>, <<"fan_on_battery", <<"auto">> >>,
           <<"profile", <<"custom", "low", "high">> >>, <<"kbd_brightness", <<"20">> >>,
           <<"kbd_effect", <<"static", "44d62c">> >>, <<"logo", <<"static">> >>,
           <<"kbd_on_ac", <<"40">> >>, <<"kbd_on_battery", <<"0">> >> >>)}

MCLines ==
  {<<"ping">>, <<"fan", "auto">>, <<"fan", "manual", "3550">>, <<"fan", "manual", "5401">>,
   <<"fan", "manual", "68086">>, <<"fan", "manual">>,
   <<"bho", "off">>, <<"bho", "+80">>, <<"bho", "81">>, <<"bho", "306">>, <<"bho", "many">>,
   <<"profile", "gaming">>, <<"profile", "custom", "cpu", "boost", "gpu", "high">>,
   <<"profile", "custom", "cpu", "low", "gpu", "boost">>,
   <<"profile", "custom", "gpu", "low", "cpu", "low">>,
   <<"kbd", "brightness", "20">>, <<"kbd", "brightness", "101">>,
   <<"kbd", "effect", "wave">>, <<"kbd", "effect", "static", "44D62C">>,
   <<"kbd", "effect", "static", "green">>, <<"logo", "breathing">>, <<"logo", "on">>,
   <<"automation", "ac", "fan", "manual", "5400">>, <<"automation", "battery", "off">>,
   <<"automation", "usb", "off">>, <<"automation", "ac", "fan", "manual", "65535">>,
   <<"kbd-automation", "battery", "40">>, <<"kbd-automation", "ac", "101">>,
   <<>>}
=============================================================================
