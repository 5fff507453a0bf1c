----------------------------- MODULE MCPeakRate -----------------------------
(* Instances of PeakRate for TLC: the default windows and one that crosses   *)
(* midnight in Beijing.                                                      *)
EXTENDS PeakRate

MCHolidays == <<{0}, {1, 7}, {4, 5}>>
MCWindows == {<<1, 4>>, <<6, 10>>, <<14, 18>>}
=============================================================================
