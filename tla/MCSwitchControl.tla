-------------------------- MODULE MCSwitchControl --------------------------
(***************************************************************************)
(* Small instances of SwitchControl for TLC.                               *)
(***************************************************************************)
EXTENDS SwitchControl

\* The fan's slider: 2020 snaps to 2000.
FanPositions == {2000, 2020, 3800}
=============================================================================
