--------------------------- MODULE MCScriptTracking ---------------------------
(* Small instances of ScriptTracking: a block of one or more scripts, the  *)
(* others of one.                                                          *)
EXTENDS ScriptTracking, TLC

CONSTANTS LongTarget,   \* the target whose block may have several scripts
          LongSize      \* so many

MCSize == [t \in Targets |-> IF t = LongTarget THEN LongSize ELSE 1]

(* With LongSize = 1 the targets are all alike.                            *)
SameTargets == Permutations(Targets)

(* A behaviour is followed until a second target is lost.                  *)
FewLost == Cardinality(In("lost")) <= 1
===============================================================================
