----------------------------- MODULE MCTargetLoop -----------------------------
(* Small instances of TargetLoop.                                          *)
EXTENDS TargetLoop

MCOperators == {"resume", "stop", "disable", "faultFlag"}

MCPredictions == {"resume", "stop", "predict"}

MCBlocks == {"resume", "stop", "addBlock"}
===============================================================================
