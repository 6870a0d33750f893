---------------------- MODULE MCTaskPhaseCoordinator ----------------------
(* Two review angles, and a reviewer that reports without one: expected, as  *)
(* the general reviewer, or not, when it was started under other settings.   *)
EXTENDS TaskPhaseCoordinator, TLC
CONSTANTS a1, a2, none
MCAngles == {a1, a2}
OnlyAngles == {a1, a2}
AnglesAndGeneral == {a1, a2, none}
=============================================================================
