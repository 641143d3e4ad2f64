---------------------------- MODULE MCDriverState ----------------------------
(* DriverState for TLC: a few targets, the last of which only a load       *)
(* brings, and one that may need wavefront sensing first.                  *)
EXTENDS DriverState, TLC

CONSTANTS ta, tb, tc

MCTargets == {ta, tb, tc}
MCLate == {tc}
MCCwfs == {tb}

FewStrays == stray = None \/ (loads = 0 /\ At("load", "off"))
================================================================================
