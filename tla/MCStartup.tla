------------------------------ MODULE MCStartup ------------------------------
(* A small instance of Startup, where up to two nights come and one ends.  *)
EXTENDS Startup, TLC

Symmetry == Permutations(Sources) \cup Permutations(Threads) \cup Permutations(Starters)

(* What follows an update that did not come in time is left out.           *)
InTime == ~driver.upset
==============================================================================
