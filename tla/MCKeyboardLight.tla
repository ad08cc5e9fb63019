-------------------------- MODULE MCKeyboardLight --------------------------
(***************************************************************************)
(* Small instances of KeyboardLight for TLC.                               *)
(***************************************************************************)
EXTENDS KeyboardLight

\* The factory rules, and what a restore falls back on.
MCLevels  == {20, 40}
MCShipped == [s \in Sources |-> IF s = "ac" THEN 40 ELSE 20]

\* What is claimed of the lights, the rows and the flag is claimed until the
\* first mishap; TLC need not go further.
UntilAMishap == calm
=============================================================================
