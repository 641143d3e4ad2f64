------------------------- MODULE MCObservatoryStatus -------------------------
(* Small instances of ObservatoryStatus.                                   *)
EXTENDS ObservatoryStatus, TLC

MCUserStatuses ==
  {{"OPERATIONAL"}, {"OPERATIONAL", "DOWNTIME"}, {"DAYTIME", "DOWNTIME"}}

MCFewStatuses == {{"OPERATIONAL", "DOWNTIME"}, {"DAYTIME", "FAULT"}}

MCDaytime == {{"DAYTIME"}}

(* One session: the states that follow a return to STANDBY are left to the *)
(* run with a single component, and to the proofs.                         *)
OneSession == lastStatus = Unknown

SameComponents == Permutations(Components)
=============================================================================
