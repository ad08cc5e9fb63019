-------------------------- MODULE MCChoiceControl --------------------------
(***************************************************************************)
(* Small instances of ChoiceControl for TLC.                               *)
(***************************************************************************)
EXTENDS ChoiceControl

AllControls ==
  {PerformanceModes(<<"medium", "high">>), KeyboardEffects(<<"green", "white">>), Logo, FanRules,
   GraphicsModes, SuperGfxModes}
=============================================================================
