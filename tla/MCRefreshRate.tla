--------------------------- MODULE MCRefreshRate ---------------------------
(***************************************************************************)
(* Small instances of RefreshRate for TLC.                                 *)
(***************************************************************************)
EXTENDS RefreshRate

Mode(resolution, rate) == [resolution |-> resolution, rate |-> rate]

\* Three rates, listed from the highest, and one of another resolution.
Panel == <<Mode("wide", 24000), Mode("wide", 12000), Mode("small", 5000), Mode("wide", 6001)>>

\* Two rates, of which one comes in two modes that round to the same.
Twins == <<Mode("wide", 12000), Mode("wide", 5994), Mode("wide", 6000)>>

MCListings  == {Panel, Twins}
MCAdapters  == <<"Battery", "Mains", "USB">>
=============================================================================
