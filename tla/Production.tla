------------------------------ MODULE Production ------------------------------
(***************************************************************************)
(* What resume and stop promise to whoever sends them, in terms of what    *)
(* can be seen from outside: the target production loop sends targets to   *)
(* the ScriptQueue from the moment it is resumed, and a stop lets the      *)
(* target being sent come to its end; afterwards nothing is sent until the *)
(* next resume (doc/developer-guide/developer-guide.rst, Scheduler CSC).   *)
(***************************************************************************)
VARIABLES phase,    \* "stopped", "running", or "stopping"
          sending,  \* is the loop sending a target?
          sent      \* the targets with scripts on the ScriptQueue

vars == <<phase, sending, sent>>

Init == phase = "stopped" /\ ~sending /\ sent = {}

Resume == phase' = "running" /\ UNCHANGED <<sending, sent>>

(* Stop, disable and standby; targets may be withdrawn meanwhile.          *)
BeginStop == phase' = "stopping" /\ UNCHANGED <<sending, sent>>

EndStop ==
  /\ ~sending
  /\ phase' = "stopped"
  /\ UNCHANGED <<sending, sent>>

Send(target) ==
  /\ phase # "stopped"
  /\ ~sending
  /\ sending' = TRUE
  /\ sent' = sent \cup {target}
  /\ UNCHANGED phase

Sent ==
  /\ sending
  /\ sending' = FALSE
  /\ sent' \subseteq sent
  /\ UNCHANGED phase

(* Scripts end, or are withdrawn.                                          *)
Withdraw == sent' \subseteq sent /\ UNCHANGED <<phase, sending>>

Next == \/ Resume \/ BeginStop \/ EndStop \/ Sent \/ Withdraw
        \/ \E target \in sent' : Send(target)

Spec == Init /\ [][Next]_vars
===============================================================================
