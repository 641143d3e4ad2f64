--------------------------- MODULE TargetLoopProofs ----------------------------
(***************************************************************************)
(* The two locks of TargetLoop and what they protect, for any blocks,      *)
(* targets, commands and mishaps.                                          *)
(***************************************************************************)
EXTENDS TargetLoop, FiniteSetTheorems, SequenceTheorems, TLAPS

(***************************************************************************)
(* A lock is a queue.  Whoever is in M waits for it or holds it, nobody    *)
(* else than Y does, and of those who are in the queue, H hold it.         *)
(***************************************************************************)
LockOK(l, M, Y, H) ==
  /\ l \in Seq(Procs) /\ IsInjective(l)
  /\ M \subseteq Range(l) /\ Range(l) \subseteq Y
  /\ \A p \in H \cap Range(l) : Holds(l, p)

(* One step of a coroutine p, and what it then must and may be.            *)
Turn(l, m, p, M, Y, H) ==
  \/ m = l /\ p \notin Range(l) /\ p \notin M
  \/ m = l /\ Holds(l, p) /\ p \in Y
  \/ m = Append(l, p) /\ p \notin Range(l) /\ p \in Y \ H
  \/ m = Tail(l) /\ Holds(l, p) /\ p \notin M
  \/ m = Append(Tail(l), p) /\ Holds(l, p) /\ p \in Y \ H
  \/ m = Leave(l, p) /\ p \notin M
  \/ m = Append(Leave(l, p), p) /\ p \in Y \ H

LEMMA Appended ==
  ASSUME NEW l \in Seq(Procs), IsInjective(l), NEW p \in Procs, p \notin Range(l)
  PROVE  /\ Append(l, p) \in Seq(Procs) /\ IsInjective(Append(l, p))
         /\ Range(Append(l, p)) = Range(l) \cup {p}
         /\ \A q : Holds(l, q) => Holds(Append(l, p), q)
<1>1. /\ Append(l, p) \in Seq(Procs) /\ DOMAIN l = 1..Len(l) /\ Len(l) \in Nat
      /\ DOMAIN Append(l, p) = 1..(Len(l) + 1)
      /\ \A i \in 1..Len(l) : Append(l, p)[i] = l[i]
      /\ Append(l, p)[Len(l) + 1] = p
  OBVIOUS
<1>2. IsInjective(Append(l, p))
  BY <1>1 DEF IsInjective, Range
<1>3. Range(Append(l, p)) = Range(l) \cup {p}
  BY <1>1 DEF Range
<1>4. \A q : Holds(l, q) => Holds(Append(l, p), q)
  BY <1>1 DEF Holds
<1> QED
  BY <1>1, <1>2, <1>3, <1>4

LEMMA HolderIn ==
  ASSUME NEW l \in Seq(Procs), NEW p, Holds(l, p)
  PROVE  p \in Range(l) /\ p \in Procs /\ 1 \in DOMAIN l /\ l[1] = p
BY DEF Holds, Range

LEMMA Passed ==
  ASSUME NEW l \in Seq(Procs), IsInjective(l), NEW p, Holds(l, p)
  PROVE  /\ Tail(l) \in Seq(Procs) /\ IsInjective(Tail(l))
         /\ Range(Tail(l)) = Range(l) \ {p}
<1>1. /\ Tail(l) \in Seq(Procs) /\ DOMAIN l = 1..Len(l) /\ Len(l) \in Nat \ {0}
      /\ DOMAIN Tail(l) = 1..(Len(l) - 1)
      /\ \A i \in 1..(Len(l) - 1) : Tail(l)[i] = l[i + 1]
      /\ l[1] = p
  BY DEF Holds
<1>2. \A i \in 1..(Len(l) - 1) : i + 1 \in DOMAIN l /\ i + 1 # 1
  BY <1>1
<1>3. IsInjective(Tail(l))
  BY <1>1, <1>2 DEF IsInjective
<1>4. Range(Tail(l)) \subseteq Range(l) \ {p}
  <2>1. ASSUME NEW i \in 1..(Len(l) - 1) PROVE l[i + 1] \in Range(l) /\ l[i + 1] # p
    BY <1>1, <1>2 DEF IsInjective, Range
  <2> QED
    BY <1>1, <2>1 DEF Range
<1>5. ASSUME NEW q \in Range(l), q # p PROVE q \in Range(Tail(l))
  <2>1. PICK i \in 1..Len(l) : l[i] = q
    BY <1>1 DEF Range
  <2>2. i - 1 \in 1..(Len(l) - 1) /\ Tail(l)[i - 1] = q
    BY <1>1, <1>5, <2>1
  <2> QED
    BY <1>1, <2>2 DEF Range
<1> QED
  BY <1>1, <1>3, <1>4, <1>5

(* A queue without one of its coroutines.                                  *)
LEMMA LeftAt ==
  ASSUME NEW l \in Seq(Procs), NEW p \in Range(l)
  PROVE  \E k \in 1..Len(l) :
           /\ l[k] = p /\ Leave(l, p) \in Seq(Procs)
           /\ Len(Leave(l, p)) = Len(l) - 1 /\ DOMAIN Leave(l, p) = 1..(Len(l) - 1)
           /\ \A i \in 1..(Len(l) - 1) :
                Leave(l, p)[i] = IF i < k THEN l[i] ELSE l[i + 1]
<1> DEFINE k == CHOOSE i \in DOMAIN l : l[i] = p
           m == RemoveAt(l, k)
<1>1. k \in 1..Len(l) /\ l[k] = p /\ Len(l) \in Nat /\ DOMAIN l = 1..Len(l)
  BY DEF Range
<1>2. Leave(l, p) = m
  BY DEF Leave
<1> HIDE DEF k
<1>3. /\ SubSeq(l, 1, k - 1) \in Seq(Procs) /\ SubSeq(l, k + 1, Len(l)) \in Seq(Procs)
      /\ Len(SubSeq(l, 1, k - 1)) = k - 1 /\ Len(SubSeq(l, k + 1, Len(l))) = Len(l) - k
  <2>1. /\ \A i \in 1..(k - 1) : l[i] \in Procs
        /\ \A i \in (k + 1)..Len(l) : l[i] \in Procs
        /\ {1, k - 1, k + 1, Len(l)} \subseteq Int
    BY <1>1
  <2>2. /\ SubSeq(l, 1, k - 1) \in Seq(Procs)
        /\ Len(SubSeq(l, 1, k - 1)) = IF 1 <= k - 1 THEN (k - 1) - 1 + 1 ELSE 0
    BY <2>1, SubSeqProperties
  <2>3. /\ SubSeq(l, k + 1, Len(l)) \in Seq(Procs)
        /\ Len(SubSeq(l, k + 1, Len(l))) = IF k + 1 <= Len(l) THEN Len(l) - (k + 1) + 1 ELSE 0
    BY <2>1, SubSeqProperties
  <2> QED
    <3>1. k \in 1..Len(l) /\ Len(l) \in Nat
      BY <1>1
    <3>2. /\ (IF 1 <= k - 1 THEN (k - 1) - 1 + 1 ELSE 0) = k - 1
          /\ (IF k + 1 <= Len(l) THEN Len(l) - (k + 1) + 1 ELSE 0) = Len(l) - k
      BY <3>1
    <3> QED
      BY <2>2, <2>3, <3>2
<1>4. \A i \in 1..(k - 1) : SubSeq(l, 1, k - 1)[i] = l[i]
  BY <1>1
<1>5. \A i \in 1..(Len(l) - k) : SubSeq(l, k + 1, Len(l))[i] = l[k + i]
  BY <1>1
<1>6. /\ m \in Seq(Procs) /\ Len(m) = Len(l) - 1 /\ DOMAIN m = 1..(Len(l) - 1)
      /\ \A i \in 1..(Len(l) - 1) : m[i] = IF i < k THEN l[i] ELSE l[i + 1]
  <2>1. m = SubSeq(l, 1, k - 1) \o SubSeq(l, k + 1, Len(l))
    BY DEF RemoveAt
  <2>2. /\ m \in Seq(Procs) /\ Len(m) = Len(l) - 1
        /\ \A i \in 1..(Len(l) - 1) :
             m[i] = IF i <= k - 1 THEN SubSeq(l, 1, k - 1)[i]
                                  ELSE SubSeq(l, k + 1, Len(l))[i - (k - 1)]
    <3> DEFINE s == SubSeq(l, 1, k - 1)
               t == SubSeq(l, k + 1, Len(l))
    <3>1. s \in Seq(Procs) /\ t \in Seq(Procs) /\ Len(s) = k - 1 /\ Len(t) = Len(l) - k
      BY <1>3
    <3> HIDE DEF s, t
    <3>2. /\ s \o t \in Seq(Procs) /\ Len(s \o t) = Len(l) - 1
          /\ \A i \in 1..(Len(l) - 1) :
               (s \o t)[i] = IF i <= k - 1 THEN s[i] ELSE t[i - (k - 1)]
      <4>1. /\ s \o t \in Seq(Procs)
            /\ Len(s \o t) = Len(s) + Len(t)
            /\ \A i \in 1..(Len(s) + Len(t)) :
                 (s \o t)[i] = IF i <= Len(s) THEN s[i] ELSE t[i - Len(s)]
        BY <3>1, ConcatProperties
      <4>2. Len(s) + Len(t) = Len(l) - 1
        BY <1>1, <3>1
      <4> QED
        BY <3>1, <4>1, <4>2
    <3> QED
      BY <2>1, <3>2 DEF s, t
  <2> HIDE DEF m
  <2>3. ASSUME NEW i \in 1..(Len(l) - 1) PROVE m[i] = IF i < k THEN l[i] ELSE l[i + 1]
    <3>1. CASE i < k
      BY <1>1, <1>4, <2>2, <3>1
    <3>2. CASE ~(i < k)
      <4>1. i - (k - 1) \in 1..(Len(l) - k) /\ k + (i - (k - 1)) = i + 1
        BY <1>1, <3>2
      <4> QED
        BY <1>1, <1>5, <2>2, <3>2, <4>1
    <3> QED
      BY <3>1, <3>2
  <2> QED
    BY <2>2, <2>3
<1> QED
  BY <1>1, <1>2, <1>6

LEMMA Left ==
  ASSUME NEW l \in Seq(Procs), IsInjective(l), NEW p
  PROVE  /\ Leave(l, p) \in Seq(Procs) /\ IsInjective(Leave(l, p))
         /\ Range(Leave(l, p)) = Range(l) \ {p}
         /\ \A q : Holds(l, q) /\ q # p => Holds(Leave(l, p), q)
<1>1. CASE p \notin Range(l)
  BY <1>1 DEF Leave
<1>2. CASE p \in Range(l)
  <2> DEFINE m == Leave(l, p)
  <2>1. PICK k \in 1..Len(l) :
          /\ l[k] = p /\ Len(l) \in Nat /\ DOMAIN l = 1..Len(l)
          /\ m \in Seq(Procs) /\ Len(m) = Len(l) - 1 /\ DOMAIN m = 1..(Len(l) - 1)
          /\ \A i \in 1..(Len(l) - 1) : m[i] = IF i < k THEN l[i] ELSE l[i + 1]
    <3>1. Len(l) \in Nat /\ DOMAIN l = 1..Len(l)
      OBVIOUS
    <3>2. \E k \in 1..Len(l) :
            /\ l[k] = p /\ m \in Seq(Procs)
            /\ Len(m) = Len(l) - 1 /\ DOMAIN m = 1..(Len(l) - 1)
            /\ \A i \in 1..(Len(l) - 1) : m[i] = IF i < k THEN l[i] ELSE l[i + 1]
      BY <1>2, LeftAt
    <3> HIDE DEF m
    <3> QED
      BY <3>1, <3>2
  <2> HIDE DEF m
  <2> DEFINE at(i) == IF i < k THEN i ELSE i + 1
  <2>2. /\ \A i \in 1..(Len(l) - 1) : at(i) \in 1..Len(l) \ {k} /\ m[i] = l[at(i)]
        /\ \A i, j \in 1..(Len(l) - 1) : at(i) = at(j) => i = j
        /\ \A j \in 1..Len(l) \ {k} : \E i \in 1..(Len(l) - 1) : at(i) = j
    <3>1. \A i \in 1..(Len(l) - 1) : at(i) \in 1..Len(l) \ {k} /\ m[i] = l[at(i)]
      BY <2>1
    <3>2. \A i, j \in 1..(Len(l) - 1) : at(i) = at(j) => i = j
      BY <2>1
    <3>3. ASSUME NEW j \in 1..Len(l) \ {k} PROVE \E i \in 1..(Len(l) - 1) : at(i) = j
      <4>1. CASE j < k
        <5>1. j \in 1..(Len(l) - 1) /\ at(j) = j
          BY <2>1, <4>1
        <5> QED
          BY <5>1
      <4>2. CASE j > k
        <5>1. j - 1 \in 1..(Len(l) - 1) /\ at(j - 1) = j
          BY <2>1, <4>2
        <5> QED
          BY <5>1
      <4> QED
        BY <2>1, <4>1, <4>2
    <3> QED
      BY <3>1, <3>2, <3>3
  <2> HIDE DEF at
  <2>3. \A i, j \in 1..Len(l) : l[i] = l[j] => i = j
    BY <2>1 DEF IsInjective
  <2>4. IsInjective(m)
    <3>1. ASSUME NEW i \in 1..(Len(l) - 1), NEW j \in 1..(Len(l) - 1), m[i] = m[j]
          PROVE  i = j
      BY <2>2, <2>3, <3>1
    <3> QED
      BY <2>1, <3>1 DEF IsInjective
  <2>5. Range(m) = Range(l) \ {p}
    <3>1. ASSUME NEW q \in Range(m) PROVE q \in Range(l) \ {p}
      <4>1. PICK i \in 1..(Len(l) - 1) : q = m[i]
        BY <2>1 DEF Range
      <4>2. at(i) \in 1..Len(l) \ {k} /\ q = l[at(i)]
        BY <2>2, <4>1
      <4> QED
        BY <2>1, <2>3, <4>2 DEF Range
    <3>2. ASSUME NEW q \in Range(l) \ {p} PROVE q \in Range(m)
      <4>1. PICK j \in 1..Len(l) : q = l[j]
        BY <2>1 DEF Range
      <4>2. PICK i \in 1..(Len(l) - 1) : at(i) = j
        BY <2>1, <2>2, <4>1
      <4> QED
        BY <2>1, <2>2, <4>1, <4>2 DEF Range
    <3> QED
      BY <3>1, <3>2
  <2>6. ASSUME NEW q, Holds(l, q), q # p PROVE Holds(m, q)
    <3>1. l # << >> /\ l[1] = q
      BY <2>6 DEF Holds
    <3>2. k # 1 /\ 1 \in 1..(Len(l) - 1) /\ 1 < k
      BY <2>1, <2>6, <3>1
    <3>3. m[1] = q /\ m # << >>
      BY <2>1, <3>1, <3>2
    <3> QED
      BY <2>1, <3>3 DEF Holds
  <2> QED
    BY <2>1, <2>4, <2>5, <2>6 DEF m
<1> QED
  BY <1>1, <1>2

(* Whatever a coroutine does at a lock, the queue stays right if the       *)
(* others must and may be no more than before.                             *)
LEMMA LockTurns ==
  ASSUME NEW l, NEW m, NEW p \in Procs,
         NEW M, NEW Y, NEW H, LockOK(l, M, Y, H),
         NEW M2, NEW Y2, NEW H2,
         M2 \ {p} \subseteq M, Y \ {p} \subseteq Y2, H2 \ {p} \subseteq H,
         Turn(l, m, p, M2, Y2, H2)
  PROVE  LockOK(m, M2, Y2, H2) /\ Range(m) \ {p} = Range(l) \ {p}
<1>1. l \in Seq(Procs) /\ IsInjective(l) /\ M \subseteq Range(l) /\ Range(l) \subseteq Y
  BY DEF LockOK
<1>2. \A q \in H \cap Range(l) : Holds(l, q)
  BY DEF LockOK
<1>3. \A q : Holds(l, q) => q \in Range(l)
  BY <1>1, HolderIn
<1>4. \A q, r : Holds(l, q) /\ Holds(l, r) => q = r
  BY DEF Holds
<1>5. CASE m = l /\ p \notin Range(l) /\ p \notin M2
  BY <1>1, <1>2, <1>5 DEF LockOK
<1>6. CASE m = l /\ Holds(l, p) /\ p \in Y2
  BY <1>1, <1>2, <1>3, <1>6 DEF LockOK
<1>7. CASE m = Append(l, p) /\ p \notin Range(l) /\ p \in Y2 \ H2
  BY <1>1, <1>2, <1>7, Appended DEF LockOK
<1>8. CASE m = Tail(l) /\ Holds(l, p) /\ p \notin M2
  <2>1. /\ m \in Seq(Procs) /\ IsInjective(m) /\ Range(m) = Range(l) \ {p}
    BY <1>1, <1>8, Passed
  <2> QED
    BY <1>1, <1>2, <1>4, <1>8, <2>1 DEF LockOK
<1>9. CASE m = Append(Tail(l), p) /\ Holds(l, p) /\ p \in Y2 \ H2
  <2>1. /\ Tail(l) \in Seq(Procs) /\ IsInjective(Tail(l)) /\ Range(Tail(l)) = Range(l) \ {p}
    BY <1>1, <1>9, Passed
  <2>2. /\ m \in Seq(Procs) /\ IsInjective(m) /\ Range(m) = (Range(l) \ {p}) \cup {p}
    BY <1>9, <2>1, Appended
  <2> QED
    BY <1>1, <1>2, <1>3, <1>4, <1>9, <2>2 DEF LockOK
<1>10. CASE m = Leave(l, p) /\ p \notin M2
  BY <1>1, <1>2, <1>10, Left DEF LockOK
<1>11. CASE m = Append(Leave(l, p), p) /\ p \in Y2 \ H2
  <2>1. /\ Leave(l, p) \in Seq(Procs) /\ IsInjective(Leave(l, p))
        /\ Range(Leave(l, p)) = Range(l) \ {p}
        /\ \A q : Holds(l, q) /\ q # p => Holds(Leave(l, p), q)
    BY <1>1, Left
  <2>2. /\ m \in Seq(Procs) /\ IsInjective(m) /\ Range(m) = (Range(l) \ {p}) \cup {p}
        /\ \A q : Holds(l, q) /\ q # p => Holds(m, q)
    BY <1>11, <2>1, Appended
  <2> QED
    BY <1>1, <1>2, <1>11, <2>2 DEF LockOK
<1> QED
  BY <1>5, <1>6, <1>7, <1>8, <1>9, <1>10, <1>11 DEF Turn

(***************************************************************************)
(* The inductive invariant.                                                *)
(***************************************************************************)
(* Where each coroutine may be.                                            *)
ResumeLabels == {"off", "wantLoop", "acking", "toRunning", "running"}
StopLabels == {"off", "acking", "wantLoop", "cleaning", "killing", "recleaning",
               "toIdle", "idling"}
PredictLabels == {"off", "asked", "toRunning", "running", "polling", "cleaning",
                  "toIdle", "idling"}
LoopLabels == {"off", "top", "toWait", "WAITING", "gate", "paused", "wantLoop",
               "toGenerate", "GENERATING", "checking", "deciding", "toQueue",
               "QUEUEING", "toPredict", "PREDICTING", "sleeping", "failed", "faulting"}
BlockLabels == {"off", "wantLoop", "toRunning", "running", "toQueue", "QUEUEING",
                "toIdle", "idling"}

Allowed(p) ==
  CASE p = "resume" -> ResumeLabels
    [] p = "stop" -> StopLabels
    [] p = "predict" -> PredictLabels
    [] p = "compute" -> {"off", "toPredict", "PREDICTING"}
    [] p = "check" -> {"off", "wantLoop"}
    [] p = "telemetry" -> {"off", "asked", "wantState", "faulting"}
    [] p = "lifecycle" -> {"off", "settling"}
    [] p = "loop" -> LoopLabels
    [] OTHER -> BlockLabels

PcTypes == pc \in [Procs -> Labels] /\ \A p \in Procs : pc[p] \in Allowed(p)

(* Who is in the queue of _detailed_state_lock, and who must be first.     *)
StateLabels == {"toRunning", "running", "toIdle", "idling", "toWait", "toGenerate",
                "toQueue", "toPredict", "wantState"} \cup Operations
HolderLabels == {"running", "idling"} \cup Operations
StateUsers == {p \in Procs : pc[p] \in StateLabels}
StateHolders == {p \in Procs : pc[p] \in HolderLabels}

(* Who is in the queue of target_loop_lock: a stop on its way to IDLE only *)
(* if it has not been abandoned.                                           *)
Body == {"toGenerate", "GENERATING", "checking", "deciding", "toQueue", "QUEUEING",
         "toPredict", "PREDICTING", "sleeping"}
UsesLoop(p, l) ==
  \/ l = "wantLoop"
  \/ p = "resume" /\ l \in {"acking", "toRunning", "running"}
  \/ p = "stop" /\ l = "cleaning"
  \/ p = "loop" /\ l \in Body
MayUseLoop(p, l) == UsesLoop(p, l) \/ (p = "stop" /\ l \in {"toIdle", "idling"})
LoopUsers == {p \in Procs : UsesLoop(p, pc[p])}
LoopUsersAtMost == {p \in Procs : MayUseLoop(p, pc[p])}
LoopHolders == {p \in Procs : ~At(p, "wantLoop")}

LocksOK ==
  /\ LockOK(dlock, StateUsers, StateUsers, StateHolders)
  /\ LockOK(tlock, LoopUsers, LoopUsersAtMost, LoopHolders)

(* There is one target production loop, and the task of a prediction       *)
(* does not outlive its command: a stop that was abandoned has killed the  *)
(* loop before it starts another, and a CSC that is not enabled has none   *)
(* that gets beyond its first turn.                                        *)
TasksOK ==
  /\ csc = "DISABLED" => pc["loop"] \in {"off", "top"}
  /\ \/ At("stop", "recleaning")
     \/ pc["stop"] \in {"toIdle", "idling"} /\ "stop" \notin Range(tlock)
     => ~Alive("loop") /\ ~registered
  /\ Alive("compute") => pc["predict"] \in {"polling", "cleaning"}

(* The types of the rest.                                                  *)
DataTypes ==
  /\ csc \in {"DISABLED", "ENABLED", "FAULT"}
  /\ {runLoop, registered, runSet, faultBit, needQueue, needPredict, counting} \subseteq BOOLEAN
  /\ detailed \in DetailedStates
  /\ queue \in Seq(Items)
  /\ scheduled \subseteq Items /\ posted \subseteq Items
  /\ inHand \in Items \cup {None}
  /\ timer \in {"done", "armed", "cancelled"}

(* The detailed state names what a coroutine does, and whoever queues a    *)
(* target has one in hand.                                                 *)
OperationsOK ==
  \A p \in Procs :
    /\ pc[p] \in Operations /\ csc = "ENABLED" => detailed = pc[p]
    /\ At(p, "QUEUEING") => inHand \in Items

CoreInv == PcTypes /\ LocksOK /\ TasksOK /\ DataTypes /\ OperationsOK

(***************************************************************************)
(* The steps, as the locks see them.                                       *)
(***************************************************************************)
(* Nobody but p moves, except that a loop may be started.                  *)
Alike(p) ==
  \A q \in Procs \ {p} :
    pc'[q] = pc[q] \/ (q = "loop" /\ pc[q] \in {"off", "top"} /\ pc'[q] = "top")

(* p and _detailed_state_lock.                                             *)
StateTurn(p) ==
  \/ dlock' = dlock /\ pc[p] \notin StateLabels /\ pc'[p] \notin StateLabels
  \/ dlock' = dlock /\ Holds(dlock, p) /\ pc'[p] \in StateLabels
  \/ /\ dlock' = Append(dlock, p)
     /\ pc[p] \notin StateLabels /\ pc'[p] \in StateLabels \ HolderLabels
  \/ dlock' = Tail(dlock) /\ Holds(dlock, p) /\ pc'[p] \notin StateLabels
  \/ /\ dlock' = Append(Tail(dlock), p)
     /\ Holds(dlock, p) /\ pc'[p] \in StateLabels \ HolderLabels
  \/ dlock' = Leave(dlock, p) /\ pc'[p] \notin StateLabels
  \/ dlock' = Append(Leave(dlock, p), p) /\ pc'[p] \in StateLabels \ HolderLabels

(* p and target_loop_lock.                                                 *)
LoopTurn(p) ==
  \/ tlock' = tlock /\ p \notin Range(tlock) /\ ~UsesLoop(p, pc'[p])
  \/ tlock' = tlock /\ Holds(tlock, p) /\ MayUseLoop(p, pc'[p])
  \/ tlock' = Append(tlock, p) /\ p \notin Range(tlock) /\ pc'[p] = "wantLoop"
  \/ tlock' = Tail(tlock) /\ Holds(tlock, p) /\ ~UsesLoop(p, pc'[p])
  \/ tlock' = Leave(tlock, p) /\ ~UsesLoop(p, pc'[p])

Step(p) ==
  /\ pc' \in [Procs -> Labels] /\ pc'[p] \in Allowed(p)
  /\ Alike(p) /\ StateTurn(p) /\ LoopTurn(p)

LEMMA StepKeeps ==
  ASSUME PcTypes, LocksOK, NEW p \in Procs, Step(p)
  PROVE  /\ PcTypes' /\ LocksOK'
         /\ Range(tlock') \ {p} = Range(tlock) \ {p}
<1>1. PcTypes'
  <2>1. ASSUME NEW q \in Procs, q # p PROVE pc'[q] \in Allowed(q)
    <3>1. CASE pc'[q] = pc[q]
      BY <3>1 DEF PcTypes
    <3>2. CASE q = "loop" /\ pc'[q] = "top"
      BY <3>2 DEF Allowed, LoopLabels
    <3> QED
      BY <2>1, <3>1, <3>2 DEF Step, Alike
  <2> QED
    BY <2>1 DEF PcTypes, Step
<1>2. LockOK(dlock, StateUsers, StateUsers, StateHolders)'
  <2>1. /\ StateUsers' \ {p} \subseteq StateUsers /\ StateUsers \ {p} \subseteq StateUsers'
        /\ StateHolders' \ {p} \subseteq StateHolders
    BY DEF Step, Alike, StateUsers, StateHolders, StateLabels, HolderLabels, Operations
  <2>2. p \in StateUsers' <=> pc'[p] \in StateLabels
    BY DEF StateUsers
  <2>3. p \in StateHolders' <=> pc'[p] \in HolderLabels
    BY DEF StateHolders
  <2>4. p \in Range(dlock) => pc[p] \in StateLabels
    BY DEF LocksOK, LockOK, StateUsers
  <2>5. Turn(dlock, dlock', p, StateUsers', StateUsers', StateHolders')
    BY <2>2, <2>3, <2>4 DEF Step, StateTurn, Turn
  <2>6. LockOK(dlock, StateUsers, StateUsers, StateHolders)
    BY DEF LocksOK
  <2>7. LockOK(dlock', StateUsers', StateUsers', StateHolders')
    BY <2>1, <2>5, <2>6, LockTurns
  <2> QED
    BY <2>7
<1>3. /\ LockOK(tlock, LoopUsers, LoopUsersAtMost, LoopHolders)'
      /\ Range(tlock') \ {p} = Range(tlock) \ {p}
  <2>1. /\ LoopUsers' \ {p} \subseteq LoopUsers /\ LoopUsersAtMost \ {p} \subseteq LoopUsersAtMost'
        /\ LoopHolders' \ {p} \subseteq LoopHolders
    BY DEF Step, Alike, LoopUsers, LoopUsersAtMost, LoopHolders, UsesLoop, MayUseLoop, Body, At
  <2>2. p \in LoopUsers' <=> UsesLoop(p, pc'[p])
    BY DEF LoopUsers
  <2>3. p \in LoopUsersAtMost' <=> MayUseLoop(p, pc'[p])
    BY DEF LoopUsersAtMost
  <2>4. p \in LoopHolders' <=> pc'[p] # "wantLoop"
    BY DEF LoopHolders, At
  <2>5. pc'[p] = "wantLoop" => MayUseLoop(p, pc'[p])
    BY DEF MayUseLoop, UsesLoop
  <2>6. Turn(tlock, tlock', p, LoopUsers', LoopUsersAtMost', LoopHolders')
    BY <2>2, <2>3, <2>4, <2>5 DEF Step, LoopTurn, Turn
  <2>7. LockOK(tlock, LoopUsers, LoopUsersAtMost, LoopHolders)
    BY DEF LocksOK
  <2>8. /\ LockOK(tlock', LoopUsers', LoopUsersAtMost', LoopHolders')
        /\ Range(tlock') \ {p} = Range(tlock) \ {p}
    BY <2>1, <2>6, <2>7, LockTurns
  <2> QED
    BY <2>8
<1> QED
  BY <1>1, <1>2, <1>3 DEF LocksOK

(* Who is in a queue, and who is first.                                    *)
LEMMA Stands ==
  ASSUME LocksOK, NEW p \in Procs
  PROVE  /\ p \in Range(dlock) <=> pc[p] \in StateLabels
         /\ pc[p] \in HolderLabels => Holds(dlock, p)
         /\ UsesLoop(p, pc[p]) => p \in Range(tlock)
         /\ p \in Range(tlock) => MayUseLoop(p, pc[p])
         /\ p \in Range(tlock) /\ ~At(p, "wantLoop") => Holds(tlock, p)
         /\ Holds(tlock, p) => p \in Range(tlock)
         /\ Holds(dlock, p) => p \in Range(dlock)
<1>1. HolderLabels \subseteq StateLabels
  BY DEF HolderLabels, StateLabels
<1>2. dlock \in Seq(Procs) /\ tlock \in Seq(Procs)
  BY DEF LocksOK, LockOK
<1>3. /\ Holds(tlock, p) => p \in Range(tlock)
      /\ Holds(dlock, p) => p \in Range(dlock)
  BY <1>2, HolderIn
<1> QED
  BY <1>1, <1>3 DEF LocksOK, LockOK, StateUsers, StateHolders, LoopUsers, LoopUsersAtMost,
     LoopHolders

LEMMA Named ==
  /\ {"resume", "stop", "predict", "compute", "loop", "check", "telemetry",
      "lifecycle"} \cup Blocks \subseteq Procs
  /\ \A b \in Blocks : b \notin {"resume", "stop", "predict", "compute", "loop", "check",
                                 "telemetry", "lifecycle"}
BY TargetLoopAssumption DEF Procs, Workers

LEMMA Goes ==
  ASSUME PcTypes, NEW p \in Procs, NEW l \in Labels, Goto(p, l), l \in Allowed(p),
         StateTurn(p), LoopTurn(p)
  PROVE  Step(p)
BY DEF Step, Goto, Alike, PcTypes

(* The steps from IDLE to RUNNING and back, whoever makes them.            *)
LEMMA Transitions ==
  ASSUME PcTypes, LocksOK
  PROVE  /\ \A p \in {"resume", "predict"} \cup Blocks : ToRunning(p) \/ NotIdle(p) => Step(p)
         /\ \A p \in {"stop", "predict"} \cup Blocks :
              ToIdle(p) \/ NotRunning(p) \/ BackToIdle(p) => Step(p)
<1> USE DEF Goto, At, StateTurn, LoopTurn, PcTypes, StateLabels, HolderLabels, Operations,
            UsesLoop, MayUseLoop, Labels
<1>1. ASSUME NEW p \in {"resume", "stop", "predict"} \cup Blocks
      PROVE  /\ p \in Procs /\ p # "loop"
             /\ p \in {"resume", "predict"} \cup Blocks => p # "stop" /\ {"off", "running"} \subseteq Allowed(p)
             /\ p \in {"stop", "predict"} \cup Blocks => p # "resume" /\ {"off", "idling"} \subseteq Allowed(p)
             /\ p \in {"predict"} \cup Blocks => "toIdle" \in Allowed(p)
  BY Named DEF Allowed, ResumeLabels, StopLabels, PredictLabels, BlockLabels
<1>2. ASSUME NEW p \in {"resume", "predict"} \cup Blocks, ToRunning(p)
      PROVE  Step(p)
  BY <1>1, <1>2, Stands, Goes DEF ToRunning
<1>3. ASSUME NEW p \in {"resume", "predict"} \cup Blocks, NotIdle(p)
      PROVE  Step(p)
  BY <1>1, <1>3, Stands, Goes DEF NotIdle
<1>4. ASSUME NEW p \in {"stop", "predict"} \cup Blocks, ToIdle(p)
      PROVE  Step(p)
  BY <1>1, <1>4, Stands, Goes DEF ToIdle
<1>5. ASSUME NEW p \in {"stop", "predict"} \cup Blocks, NotRunning(p)
      PROVE  Step(p)
  BY <1>1, <1>5, Stands, Goes DEF NotRunning
<1>6. ASSUME NEW p \in {"stop", "predict"} \cup Blocks, BackToIdle(p)
      PROVE  Step(p)
  BY <1>1, <1>6, Stands, Goes DEF BackToIdle
<1> QED
  BY <1>2, <1>3, <1>4, <1>5, <1>6

LEMMA ResumeSteps ==
  ASSUME PcTypes, LocksOK, Resume \/ ResumeAsks
  PROVE  Step("resume")
<1> USE DEF StateTurn, LoopTurn, At, Goto, PcTypes, Allowed, ResumeLabels, StateLabels,
            HolderLabels, Operations, UsesLoop, MayUseLoop, Body, Labels
<1>1. "resume" \in Procs
  BY Named
<1>2. CASE ResumeAsks
  BY <1>1, <1>2, Stands, Goes DEF ResumeAsks
<1>3. CASE ResumeRefused
  BY <1>1, <1>3, Stands, Goes DEF ResumeRefused
<1>4. CASE ResumeChecks
  BY <1>1, <1>4, Stands, Goes DEF ResumeChecks
<1>5. CASE ResumeRestarts
  BY <1>1, <1>5, Stands DEF ResumeRestarts, LoopStarts, Alive, Step, Alike
<1>6. CASE ResumeSets
  BY <1>1, <1>6, Stands, Goes DEF ResumeSets
<1>7. CASE ToRunning("resume") \/ NotIdle("resume")
  BY <1>7, Transitions
<1> QED
  BY <1>2, <1>3, <1>4, <1>5, <1>6, <1>7 DEF Resume, Stop, Predict, Compute, Telemetry

LEMMA StopSteps ==
  ASSUME PcTypes, LocksOK, TasksOK, (Stop /\ ~StopKills) \/ StopAsks \/ StopFails \/ StopTimesOut
  PROVE  Step("stop")
<1> USE DEF StateTurn, LoopTurn, At, Goto, PcTypes, Allowed, StopLabels, StateLabels,
            HolderLabels, Operations, UsesLoop, MayUseLoop, Body, Labels
<1>1. "stop" \in Procs
  BY Named
<1>2. CASE StopAsks
  BY <1>1, <1>2, Stands, Goes DEF StopAsks
<1>3. CASE StopClears
  BY <1>1, <1>3, Stands, Goes DEF StopClears
<1>4. CASE StopCleansUp
  BY <1>1, <1>4, Stands, Goes DEF StopCleansUp, StopForgets
<1>5. CASE StopFails
  BY <1>1, <1>5, Stands, Goes DEF StopFails, StopForgets
<1>6. CASE StopCancelsTimer
  BY <1>1, <1>6, Stands, Goes DEF StopCancelsTimer
<1>7. CASE StopTimesOut
  BY <1>1, <1>7, Stands, Goes DEF StopTimesOut
<1>8. CASE StopFinishes
  BY <1>1, <1>8, Stands DEF StopFinishes, LoopStarts, Alive, Step, Alike, TasksOK
<1>9. CASE ToIdle("stop") \/ NotRunning("stop")
  BY <1>9, Transitions
<1> QED
  BY <1>2, <1>3, <1>4, <1>5, <1>6, <1>7, <1>8, <1>9 DEF Resume, Stop, Predict, Compute, Telemetry

LEMMA PredictSteps ==
  ASSUME PcTypes, LocksOK, (Predict /\ ~PredictStarts) \/ PredictAsks
  PROVE  Step("predict")
<1> USE DEF StateTurn, LoopTurn, At, Goto, PcTypes, Allowed, PredictLabels, StateLabels,
            HolderLabels, Operations, UsesLoop, MayUseLoop, Body, Labels
<1>1. "predict" \in Procs
  BY Named
<1>2. CASE PredictAsks
  BY <1>1, <1>2, Stands, Goes DEF PredictAsks
<1>3. CASE PredictBegins
  BY <1>1, <1>3, Stands, Goes DEF PredictBegins
<1>4. CASE PredictPolls
  BY <1>1, <1>4, Stands, Goes DEF PredictPolls
<1>5. CASE PredictEnds
  BY <1>1, <1>5, Stands, Goes DEF PredictEnds
<1>6. CASE ToRunning("predict") \/ NotIdle("predict") \/ ToIdle("predict")
           \/ NotRunning("predict") \/ BackToIdle("predict")
  BY <1>6, Transitions
<1> QED
  BY <1>2, <1>3, <1>4, <1>5, <1>6 DEF Resume, Stop, Predict, Compute, Telemetry

LEMMA ComputeSteps ==
  ASSUME PcTypes, LocksOK, Compute
  PROVE  Step("compute")
<1> USE DEF StateTurn, LoopTurn, At, Goto, PcTypes, Allowed, LoopLabels, StateLabels,
            HolderLabels, Operations, UsesLoop, MayUseLoop, Body, Labels
<1>1. "compute" \in Procs
  BY Named
<1>2. CASE ComputeBegins
  BY <1>1, <1>2, Stands, Goes DEF ComputeBegins, Enter, Refused
<1>3. CASE ComputeEnds
  BY <1>1, <1>3, Stands, Goes DEF ComputeEnds, Exit
<1> QED
  BY <1>2, <1>3 DEF Resume, Stop, Predict, Compute, Telemetry

LEMMA CheckSteps ==
  ASSUME PcTypes, LocksOK, ScriptEvent \/ CheckTargets
  PROVE  Step("check")
<1> USE DEF StateTurn, LoopTurn, At, Goto, PcTypes, Allowed, LoopLabels, StateLabels,
            HolderLabels, Operations, UsesLoop, MayUseLoop, Body, Labels
<1>1. "check" \in Procs
  BY Named
<1>2. CASE ScriptEvent
  BY <1>1, <1>2, Stands, Goes DEF ScriptEvent
<1>3. CASE CheckTargets
  BY <1>1, <1>3, Stands, Goes DEF CheckTargets
<1> QED
  BY <1>2, <1>3 DEF Resume, Stop, Predict, Compute, Telemetry

LEMMA TelemetrySteps ==
  ASSUME PcTypes, LocksOK, Telemetry \/ TelemetryFails
  PROVE  Step("telemetry")
<1> USE DEF StateTurn, LoopTurn, At, Goto, PcTypes, Allowed, LoopLabels, StateLabels,
            HolderLabels, Operations, UsesLoop, MayUseLoop, Body, Labels
<1>1. "telemetry" \in Procs
  BY Named
<1>2. CASE InfoAsks
  BY <1>1, <1>2, Stands, Goes DEF InfoAsks
<1>3. CASE InfoPublishes
  BY <1>1, <1>3, Stands, Goes DEF InfoPublishes
<1>4. CASE TelemetryEnds
  BY <1>1, <1>4, Stands, Goes DEF TelemetryEnds
<1>5. CASE TelemetryFails
  BY <1>1, <1>5, Stands, Goes DEF TelemetryFails
<1>6. CASE Faults("telemetry")
  BY <1>1, <1>6, Stands, Goes DEF Faults
<1> QED
  BY <1>2, <1>3, <1>4, <1>5, <1>6 DEF Resume, Stop, Predict, Compute, Telemetry

(* queue_targets and what comes before it, in the task of a block.         *)
LEMMA BlockSteps ==
  ASSUME PcTypes, LocksOK, NEW b \in Blocks, Block(b) \/ AddAsks(b)
  PROVE  Step(b)
<1> USE DEF StateTurn, LoopTurn, At, Goto, PcTypes, StateLabels, HolderLabels, Operations,
            UsesLoop, MayUseLoop, Labels
<1>1. b \in Procs /\ b # "loop" /\ b # "resume" /\ b # "stop"
      /\ Allowed(b) = BlockLabels /\ BlockLabels \subseteq Labels
  BY Named DEF Allowed, BlockLabels
<1> USE DEF BlockLabels
<1>2. CASE AddAsks(b)
  <2>1. At(b, "off") /\ tlock' = Append(tlock, b) /\ Goto(b, "wantLoop") /\ dlock' = dlock
    BY <1>2 DEF AddAsks
  <2> QED
    BY <1>1, <2>1, Stands, Goes
<1>3. CASE AddAppends(b)
  BY <1>1, <1>3, Stands, Goes DEF AddAppends
<1>4. CASE AddInserts(b)
  BY <1>1, <1>4, Stands, Goes DEF AddInserts
<1>5. CASE ExecuteBegins(b)
  BY <1>1, <1>5, Stands, Goes DEF ExecuteBegins
<1>6. CASE QueueTakes(b)
  BY <1>1, <1>6, Stands, Goes DEF QueueTakes, Enter
<1>7. CASE QueueRefused(b)
  <2>1. b # "loop" /\ b \notin Range(tlock)
    BY <1>1, <1>7, Stands DEF QueueRefused
  <2>2. tlock' = tlock /\ dlock' = Append(Tail(dlock), b) /\ Goto(b, "toIdle")
    BY <1>7, <2>1 DEF QueueRefused, Releases, AfterError, Leave
  <2>3. Holds(dlock, b)
    BY <1>1, <1>7, Stands DEF QueueRefused
  <2> QED
    BY <1>1, <2>1, <2>2, <2>3, Goes
<1>8. CASE QueuePuts(b)
  <2>1. b # "loop" /\ b \notin Range(tlock)
    BY <1>1, <1>8, Stands DEF QueuePuts
  <2>2. tlock' = tlock /\ dlock' = Append(Tail(dlock), b) /\ Goto(b, "toIdle")
    BY <1>8, <2>1 DEF QueuePuts, Releases, AfterWork, Leave
  <2>3. Holds(dlock, b)
    BY <1>1, <1>8, Stands DEF QueuePuts
  <2> QED
    BY <1>1, <2>1, <2>2, <2>3, Goes
<1>9. CASE QueueFails(b)
  <2>1. b # "loop" /\ b \notin Range(tlock)
    BY <1>1, <1>9, Stands DEF QueueFails
  <2>2. tlock' = tlock /\ dlock' = Append(Tail(dlock), b) /\ Goto(b, "toIdle")
    BY <1>9, <2>1 DEF QueueFails, Releases, AfterError, Leave
  <2>3. Holds(dlock, b)
    BY <1>1, <1>9, Stands DEF QueueFails
  <2> QED
    BY <1>1, <2>1, <2>2, <2>3, Goes
<1>10. CASE ToRunning(b) \/ NotIdle(b) \/ ToIdle(b) \/ NotRunning(b) \/ BackToIdle(b)
  BY <1>10, Transitions
<1> QED
  BY <1>2, <1>3, <1>4, <1>5, <1>6, <1>7, <1>8, <1>9, <1>10 DEF Block, Execute

LEMMA LoopTurns ==
  ASSUME PcTypes, LocksOK, TasksOK, LoopSteps \/ EnableBegins
  PROVE  Step("loop")
<1> USE DEF StateTurn, LoopTurn, At, Goto, PcTypes, Allowed, LoopLabels, StateLabels,
            HolderLabels, Operations, UsesLoop, MayUseLoop, Body, Labels
<1>1. "loop" \in Procs
  BY Named
<1>2. CASE LoopTop
  BY <1>1, <1>2, Stands, Goes DEF LoopTop
<1>3. CASE LoopPasses
  BY <1>1, <1>3, Stands, Goes DEF LoopPasses
<1>4. CASE LoopUnpauses
  BY <1>1, <1>4, Stands, Goes DEF LoopUnpauses
<1>5. CASE LoopLocks
  BY <1>1, <1>5, Stands, Goes DEF LoopLocks
<1>6. CASE LoopChecks
  BY <1>1, <1>6, Stands, Goes DEF LoopChecks
<1>7. CASE LoopCheckFails
  BY <1>1, <1>7, Stands, Goes DEF LoopCheckFails
<1>8. CASE LoopDecides
  BY <1>1, <1>8, Stands, Goes DEF LoopDecides
<1>9. CASE LoopSleeps
  BY <1>1, <1>9, Stands, Goes DEF LoopSleeps
<1>10. CASE LoopFails
  BY <1>1, <1>10, Stands, Goes DEF LoopFails
<1>11. CASE LoopWaits
  BY <1>1, <1>11, Stands, Goes DEF LoopWaits, Enter, Refused
<1>12. CASE LoopGenerates
  BY <1>1, <1>12, Stands, Goes DEF LoopGenerates, Enter, Refused
<1>13. CASE LoopPredicts
  BY <1>1, <1>13, Stands, Goes DEF LoopPredicts, Enter, Refused
<1>14. CASE LoopWaited
  BY <1>1, <1>14, Stands, Goes DEF LoopWaited, Exit
<1>15. CASE LoopGenerated
  BY <1>1, <1>15, Stands, Goes DEF LoopGenerated, Exit
<1>16. CASE LoopGenerateFails
  BY <1>1, <1>16, Stands, Goes DEF LoopGenerateFails, Exit
<1>17. CASE LoopPredicted
  BY <1>1, <1>17, Stands, Goes DEF LoopPredicted, Exit
<1>18. CASE LoopPredictFails
  BY <1>1, <1>18, Stands, Goes DEF LoopPredictFails, Exit
<1>19. CASE QueueTakes("loop")
  BY <1>1, <1>19, Stands, Goes DEF QueueTakes, Enter
<1>20. CASE QueueRefused("loop")
  <2>1. Holds(tlock, "loop") /\ Holds(dlock, "loop")
    BY <1>1, <1>20, Stands DEF QueueRefused
  <2>2. tlock' = Leave(tlock, "loop") /\ dlock' = Tail(dlock) /\ Goto("loop", "failed")
    BY <1>20 DEF QueueRefused, Releases, AfterError, AfterWork
  <2> QED
    BY <1>1, <2>1, <2>2, Goes
<1>21. CASE QueuePuts("loop")
  <2>1. Holds(tlock, "loop") /\ Holds(dlock, "loop")
    BY <1>1, <1>21, Stands DEF QueuePuts
  <2>2. tlock' = Leave(tlock, "loop") /\ dlock' = Tail(dlock) /\ Goto("loop", "top")
    BY <1>21 DEF QueuePuts, Releases, AfterError, AfterWork
  <2> QED
    BY <1>1, <2>1, <2>2, Goes
<1>22. CASE QueueFails("loop")
  <2>1. Holds(tlock, "loop") /\ Holds(dlock, "loop")
    BY <1>1, <1>22, Stands DEF QueueFails
  <2>2. tlock' = Leave(tlock, "loop") /\ dlock' = Tail(dlock) /\ Goto("loop", "failed")
    BY <1>22 DEF QueueFails, Releases, AfterError, AfterWork
  <2> QED
    BY <1>1, <2>1, <2>2, Goes
<1>23. CASE Faults("loop")
  BY <1>1, <1>23, Stands, Goes DEF Faults
<1>24. CASE EnableBegins
  BY <1>1, <1>24, Stands DEF EnableBegins, LoopStarts, Step, Alike, TasksOK
<1> QED
  BY <1>2, <1>3, <1>4, <1>5, <1>6, <1>7, <1>8, <1>9, <1>10, <1>11, <1>12, <1>13, <1>14, <1>15, <1>16, <1>17, <1>18, <1>19, <1>20, <1>21, <1>22, <1>23, <1>24 DEF LoopSteps

(* A task that is cancelled leaves both queues.                            *)
LEMMA KilledSteps ==
  ASSUME PcTypes, LocksOK, NEW p \in Workers, Killed(p)
  PROVE  Step(p)
<1>1. p \in Procs /\ p # "resume" /\ p # "stop"
  BY Named DEF Workers
<1>2. dlock \in Seq(Procs) /\ IsInjective(dlock)
  BY DEF LocksOK, LockOK
<1>3. /\ Leave(dlock, p) \in Seq(Procs)
      /\ Leave(dlock, p) \o << >> = Leave(dlock, p)
      /\ Leave(dlock, p) \o <<p>> = Append(Leave(dlock, p), p)
  BY <1>1, <1>2, Left, AppendProperties, AppendIsConcat, ConcatEmptySeq
<1>4. /\ Resting(p) \in {"off", "toIdle"}
      /\ Resting(p) = "toIdle" => p \in Blocks
  BY DEF Resting
<1>5. Resting(p) \in Labels /\ Resting(p) \in Allowed(p)
  BY <1>1, <1>4, Named DEF Labels, Allowed, BlockLabels, LoopLabels, PredictLabels, Workers
<1>6. StateTurn(p)
  BY <1>1, <1>3, <1>4 DEF Killed, Goto, StateTurn, StateLabels, HolderLabels, Operations, PcTypes
<1>7. LoopTurn(p)
  BY <1>1, <1>4 DEF Killed, Goto, LoopTurn, UsesLoop, Body, PcTypes
<1> QED
  BY <1>1, <1>5, <1>6, <1>7, Goes DEF Killed

LEMMA LifecycleSteps ==
  ASSUME PcTypes, LocksOK, StopTasks
  PROVE  Step("lifecycle")
<1>1. "lifecycle" \in Procs
  BY Named
<1> QED
  BY <1>1, Stands, Goes DEF StopTasks, StateTurn, LoopTurn, At, Goto, Allowed, PcTypes,
     StateLabels, HolderLabels, Operations, UsesLoop, MayUseLoop, Labels

(* The task of a prediction asks for the lock its command leaves.          *)
LEMMA PredictionStarts ==
  ASSUME PcTypes, LocksOK, PredictStarts, ~Alive("compute")
  PROVE  PcTypes' /\ LocksOK' /\ tlock' = tlock
<1>1. {"predict", "compute"} \subseteq Procs /\ "predict" # "compute"
  BY Named
<1>2. pc' = [pc EXCEPT !["predict"] = "polling", !["compute"] = "toPredict"]
  BY DEF PredictStarts
<1>3. PcTypes'
  BY <1>1, <1>2 DEF PcTypes, Allowed, PredictLabels, Labels
<1>4. LockOK(tlock, LoopUsers, LoopUsersAtMost, LoopHolders)'
  <2>1. /\ LoopUsers' = LoopUsers /\ LoopUsersAtMost' = LoopUsersAtMost
        /\ LoopHolders' = LoopHolders
    BY <1>1, <1>2 DEF LoopUsers, LoopUsersAtMost, LoopHolders, UsesLoop, MayUseLoop, At, Body,
       PcTypes, PredictStarts, Alive
  <2>2. tlock' = tlock
    BY DEF PredictStarts
  <2> QED
    BY <2>1, <2>2 DEF LocksOK
<1>5. LockOK(dlock, StateUsers, StateUsers, StateHolders)'
  <2> DEFINE users == StateUsers \ {"predict"}
             holders == StateHolders \ {"predict"}
  <2>1. LockOK(dlock, StateUsers, StateUsers, StateHolders)
    BY DEF LocksOK
  <2>2. Holds(dlock, "predict") /\ "compute" \notin Range(dlock)
    BY <1>1, Stands DEF PredictStarts, At, HolderLabels, Alive, StateLabels, Operations
  <2>3. Turn(dlock, Tail(dlock), "predict", users, users, holders)
    BY <2>2 DEF Turn
  <2>4. LockOK(Tail(dlock), users, users, holders)
    BY <1>1, <2>1, <2>3, LockTurns
  <2>5. /\ StateUsers' = users \cup {"compute"} /\ "compute" \notin StateHolders'
        /\ StateHolders' = holders
    BY <1>1, <1>2 DEF StateUsers, StateHolders, StateLabels, HolderLabels, Operations, PcTypes,
       PredictStarts, Alive
  <2>6. "compute" \notin Range(Tail(dlock))
    BY <1>1, <2>4 DEF LockOK, StateUsers, StateLabels, Operations, Alive
  <2>7. /\ Tail(dlock) \in Seq(Procs) /\ IsInjective(Tail(dlock))
        /\ Range(Tail(dlock)) = users
        /\ \A p \in holders \cap users : Holds(Tail(dlock), p)
    BY <2>4 DEF LockOK
  <2>8. /\ dlock' \in Seq(Procs) /\ IsInjective(dlock')
        /\ Range(dlock') = users \cup {"compute"}
        /\ \A p : Holds(Tail(dlock), p) => Holds(dlock', p)
    BY <1>1, <2>6, <2>7, Appended DEF PredictStarts
  <2> HIDE DEF users, holders
  <2>9. LockOK(dlock', StateUsers', StateUsers', StateHolders')
    BY <2>5, <2>7, <2>8 DEF LockOK
  <2> QED
    BY <2>9
<1> QED
  BY <1>3, <1>4, <1>5 DEF LocksOK, PredictStarts

(* Whoever moves, the queues stay right.                                   *)
LEMMA Moves ==
  ASSUME PcTypes, LocksOK, TasksOK, Next
  PROVE  \/ \E p \in Procs : Step(p)
         \/ PredictStarts \/ Settles
         \/ UNCHANGED <<pc, dlock, tlock>>
<1>1. CASE Resume \/ ResumeAsks
  BY <1>1, ResumeSteps, Named
<1>2. CASE (Stop /\ ~StopKills) \/ StopAsks \/ StopFails \/ StopTimesOut
  BY <1>2, StopSteps, Named
<1>3. CASE StopKills
  BY <1>3, KilledSteps, Named DEF StopKills, Workers
<1>4. CASE (Predict /\ ~PredictStarts) \/ PredictAsks
  BY <1>4, PredictSteps, Named
<1>5. CASE Compute
  BY <1>5, ComputeSteps, Named
<1>6. CASE ScriptEvent \/ CheckTargets
  BY <1>6, CheckSteps, Named
<1>7. CASE Telemetry \/ TelemetryFails
  BY <1>7, TelemetrySteps, Named
<1>8. ASSUME NEW b \in Blocks, Block(b) \/ AddAsks(b) PROVE \E p \in Procs : Step(p)
  BY <1>8, BlockSteps, Named
<1>9. CASE LoopSteps \/ EnableBegins
  BY <1>9, LoopTurns, Named
<1>10. ASSUME NEW p \in Workers, LifecycleKills(p) PROVE \E q \in Procs : Step(q)
  BY <1>10, KilledSteps, Named DEF LifecycleKills, Workers
<1>11. CASE StopTasks
  BY <1>11, LifecycleSteps, Named
<1>12. CASE TimerEnds \/ FaultFlagMoves \/ \E i \in Items : ScriptsEnd(i)
  BY <1>12 DEF TimerEnds, FaultFlagMoves, ScriptsEnd
<1> QED
  BY <1>1, <1>2, <1>3, <1>4, <1>5, <1>6, <1>7, <1>8, <1>9, <1>10, <1>11, <1>12
     DEF Next, Lifecycle, Asks, Environment

(* Once a task has ended and the telemetry loop is started again.          *)
LEMMA Settled1 ==
  ASSUME PcTypes, LocksOK, Settles
  PROVE  /\ PcTypes' /\ LocksOK'
         /\ pc["loop"] = "off" /\ pc["compute"] = "off" /\ pc["telemetry"] = "off"
         /\ \A p \in Procs \ {"telemetry", "lifecycle"} : pc'[p] = pc[p]
<1>1. {"loop", "compute", "telemetry", "lifecycle"} \subseteq Procs
  BY Named
<1>2. pc["loop"] = "off" /\ pc["compute"] = "off" /\ pc["telemetry"] = "off"
  BY Named DEF Settles, Alive, Workers
<1>3. pc' = [pc EXCEPT !["lifecycle"] = "off", !["telemetry"] = "asked"]
  BY DEF Settles
<1>4. PcTypes'
  BY <1>1, <1>3 DEF PcTypes, Allowed, Labels
<1>5. /\ LoopUsers' = LoopUsers /\ LoopUsersAtMost' = LoopUsersAtMost
      /\ LoopHolders' = LoopHolders
  BY <1>1, <1>2, <1>3 DEF LoopUsers, LoopUsersAtMost, LoopHolders, UsesLoop, MayUseLoop, At,
     PcTypes, Allowed, Settles
<1>6. StateUsers' = StateUsers /\ StateHolders' = StateHolders
  BY <1>1, <1>2, <1>3 DEF StateUsers, StateHolders, StateLabels, HolderLabels, Operations,
     PcTypes, Settles, At
<1>7. LocksOK'
  BY <1>5, <1>6 DEF LocksOK, Settles
<1> QED
  BY <1>1, <1>2, <1>3, <1>4, <1>7 DEF PcTypes

LEMMA TasksStep ==
  ASSUME PcTypes, LocksOK, TasksOK, [Next]_vars
  PROVE  TasksOK'
<1> DEFINE others == Procs \ {"stop", "loop", "predict", "compute"}
<1>1. {"stop", "loop", "predict", "compute"} \subseteq Procs
  BY Named
<1>2. ASSUME NEW p \in Procs, Step(p)
      PROVE  /\ p # "stop" => /\ pc'["stop"] = pc["stop"]
                              /\ "stop" \in Range(tlock') <=> "stop" \in Range(tlock)
             /\ p # "predict" => pc'["predict"] = pc["predict"]
             /\ p # "compute" => pc'["compute"] = pc["compute"]
             /\ p # "loop" => pc'["loop"] = pc["loop"] \/ pc'["loop"] = "top"
  BY <1>1, <1>2, StepKeeps DEF Step, Alike
<1> DEFINE SameStop == /\ pc'["stop"] = pc["stop"]
                       /\ "stop" \in Range(tlock') <=> "stop" \in Range(tlock)
           SamePredict == pc'["predict"] = pc["predict"]
           SameCompute == pc'["compute"] = pc["compute"]
           SameLoop == pc'["loop"] = pc["loop"] \/ pc'["loop"] = "top"
<1>2a. /\ Step("stop") => SamePredict /\ SameCompute /\ SameLoop
       /\ Step("predict") => SameStop /\ SameCompute /\ SameLoop
       /\ Step("compute") => SameStop /\ SamePredict /\ SameLoop
       /\ Step("loop") => SameStop /\ SamePredict /\ SameCompute
       /\ Step("resume") => SameStop /\ SamePredict /\ SameCompute /\ SameLoop
  BY <1>1, <1>2, Named
<1>3. ASSUME NEW p \in others, Step(p), pc'["loop"] = pc["loop"],
             registered' => registered, csc' \in {csc, "FAULT"}
      PROVE  TasksOK'
  BY <1>2, <1>3 DEF TasksOK, At, Alive
<1>4. CASE Resume \/ ResumeAsks
  <2>1. Step("resume") /\ "resume" \in others
    BY <1>4, ResumeSteps, Named
  <2>2. CASE ResumeRestarts
    <3>1. /\ UNCHANGED <<csc, registered>>
          /\ pc'["loop"] = pc["loop"] \/ (pc'["loop"] = "top" /\ registered)
      BY <1>1, <2>2 DEF ResumeRestarts, LoopStarts, PcTypes
    <3> QED
      BY <1>2a, <2>1, <3>1 DEF TasksOK, At, Alive
  <2>3. CASE ~ResumeRestarts
    <3>1. UNCHANGED <<csc, registered>> /\ pc'["loop"] = pc["loop"]
      BY <1>1, <1>4, <2>3 DEF Resume, ResumeAsks, ResumeRefused, ResumeChecks, ResumeSets,
         ToRunning, NotIdle, Goto, life, PcTypes
    <3> QED
      BY <1>3, <2>1, <3>1
  <2> QED
    BY <2>2, <2>3
<1>5. CASE (Stop /\ ~StopKills) \/ StopAsks \/ StopFails \/ StopTimesOut
  <2>1. Step("stop")
    BY <1>5, StopSteps
  <2>2. CASE StopCleansUp \/ StopFails
    <3>1. /\ pc'["loop"] = pc["loop"] /\ UNCHANGED csc
          /\ pc'["stop"] \in {"cleaning", "off"} \/ (At("stop", "killing") /\ ~Alive("loop"))
          /\ At("stop", "killing") => ~registered'
      BY <1>1, <2>2 DEF StopCleansUp, StopFails, StopForgets, Goto, PcTypes, At
    <3> QED
      BY <1>2a, <2>1, <2>2, <3>1 DEF TasksOK, At, Alive
  <2>3. CASE StopCancelsTimer
    <3>1. /\ pc'["loop"] = pc["loop"] /\ UNCHANGED <<csc, registered, tlock>>
          /\ pc'["stop"] = "toIdle" /\ pc["stop"] \in {"cleaning", "recleaning"}
      BY <1>1, <2>3 DEF StopCancelsTimer, Goto, PcTypes, life
    <3>2. At("stop", "cleaning") => "stop" \in Range(tlock)
      BY <1>1, Stands DEF At, UsesLoop
    <3> QED
      BY <1>2a, <2>1, <3>1, <3>2 DEF TasksOK, At, Alive
  <2>4. CASE ToIdle("stop")
    <3>1. /\ pc'["loop"] = pc["loop"] /\ UNCHANGED <<csc, registered, tlock>>
          /\ pc'["stop"] = "idling" /\ pc["stop"] = "toIdle"
      BY <1>1, <2>4 DEF ToIdle, Goto, PcTypes, life, At
    <3> QED
      BY <1>2a, <2>1, <3>1 DEF TasksOK, At, Alive
  <2>5. CASE StopFinishes
    <3>1. /\ UNCHANGED csc /\ pc'["stop"] = "off"
          /\ pc'["loop"] \in {pc["loop"], "top"}
      BY <1>1, <2>5 DEF StopFinishes, LoopStarts, PcTypes
    <3> QED
      BY <1>2a, <2>1, <3>1 DEF TasksOK, At, Alive
  <2>6. CASE StopAsks \/ StopClears \/ StopTimesOut \/ NotRunning("stop")
    <3>1. /\ UNCHANGED csc /\ pc'["stop"] \in {"acking", "wantLoop", "killing", "off"}
          /\ pc'["loop"] = pc["loop"]
      BY <1>1, <2>6 DEF StopAsks, StopClears, StopTimesOut, NotRunning, Goto, PcTypes, life
    <3> QED
      BY <1>2a, <2>1, <3>1 DEF TasksOK, At, Alive
  <2> QED
    BY <1>5, <2>2, <2>3, <2>4, <2>5, <2>6 DEF Stop
<1>6. ASSUME NEW p \in Workers, Killed(p), UNCHANGED csc, registered' => registered
      PROVE  TasksOK'
  <2>1. Step(p) /\ p \in Procs /\ p \notin {"stop", "predict"}
    BY <1>6, KilledSteps, Named DEF Workers, Procs
  <2>2. CASE p = "loop" \/ p = "compute"
    <3>1. pc'[p] = "off"
      BY <1>6, <2>1, <2>2, Named DEF Killed, Resting, Goto, PcTypes
    <3>2. p = "compute" => pc'["loop"] = pc["loop"]
      BY <1>1, <1>6 DEF Killed, Goto, PcTypes
    <3>3. CASE p = "loop"
      BY <1>2a, <1>6, <2>1, <3>1, <3>3 DEF TasksOK, At, Alive
    <3>4. CASE p = "compute"
      BY <1>2a, <1>6, <2>1, <3>1, <3>2, <3>4 DEF TasksOK, At, Alive
    <3> QED
      BY <2>2, <3>3, <3>4
  <2>3. CASE p # "loop" /\ p # "compute"
    <3>1. pc'["loop"] = pc["loop"]
      BY <1>1, <1>6, <2>3 DEF Killed, Goto, PcTypes
    <3> QED
      BY <1>3, <1>6, <2>1, <2>3, <3>1
  <2> QED
    BY <2>2, <2>3
<1>7. CASE StopKills \/ \E p \in Workers : LifecycleKills(p)
  BY <1>6, <1>7 DEF StopKills, LifecycleKills, Workers
<1>8. CASE PredictStarts
  <2>1. /\ UNCHANGED <<csc, registered, tlock>> /\ pc'["predict"] = "polling"
        /\ pc'["stop"] = pc["stop"] /\ pc'["loop"] = pc["loop"]
    BY <1>1, <1>8 DEF PredictStarts, PcTypes, life
  <2> QED
    BY <2>1 DEF TasksOK, At, Alive
<1>9. CASE (Predict /\ ~PredictStarts) \/ PredictAsks
  <2>1. Step("predict")
    BY <1>9, PredictSteps
  <2>2. /\ UNCHANGED <<csc, registered>> /\ pc'["loop"] = pc["loop"]
        /\ Alive("compute") => pc["predict"] = "cleaning" \/ pc'["predict"] = "cleaning"
        /\ pc["predict"] = "cleaning" => ~Alive("compute")
    BY <1>1, <1>9 DEF Predict, PredictAsks, PredictBegins, PredictPolls, PredictEnds, ToRunning,
       NotIdle, ToIdle, NotRunning, BackToIdle, Goto, PcTypes, At, life, TasksOK
  <2> QED
    BY <1>2a, <2>1, <2>2 DEF TasksOK, At, Alive
<1>10. CASE Compute
  <2>1. Step("compute")
    BY <1>10, ComputeSteps
  <2>2. /\ UNCHANGED <<csc, registered>> /\ pc'["loop"] = pc["loop"] /\ Alive("compute")
    BY <1>1, <1>10 DEF Compute, ComputeBegins, ComputeEnds, Enter, Exit, Refused, Goto, PcTypes,
       At, life, Alive
  <2> QED
    BY <1>2a, <2>1, <2>2 DEF TasksOK, At, Alive
<1>11. CASE ScriptEvent \/ CheckTargets
  <2>1. Step("check") /\ "check" \in others
    BY <1>11, CheckSteps, Named
  <2>2. UNCHANGED <<csc, registered>> /\ pc'["loop"] = pc["loop"]
    BY <1>1, <1>11 DEF ScriptEvent, CheckTargets, Goto, PcTypes, life
  <2> QED
    BY <1>3, <2>1, <2>2
<1>12. CASE Telemetry \/ TelemetryFails
  <2>1. Step("telemetry") /\ "telemetry" \in others
    BY <1>12, TelemetrySteps, Named
  <2>2. csc' \in {csc, "FAULT"} /\ UNCHANGED registered /\ pc'["loop"] = pc["loop"]
    BY <1>1, <1>12 DEF Telemetry, TelemetryFails, InfoAsks, InfoPublishes, TelemetryEnds, Faults,
       Goto, PcTypes, life
  <2> QED
    BY <1>3, <2>1, <2>2
<1>13. ASSUME NEW b \in Blocks, Block(b) \/ AddAsks(b) PROVE TasksOK'
  <2>1. Step(b) /\ b \in others
    BY <1>13, BlockSteps, Named
  <2>2. UNCHANGED <<csc, registered>> /\ \E l : Goto(b, l)
    BY <1>13 DEF Block, Execute, AddAsks, AddAppends, AddInserts, ExecuteBegins, QueueTakes,
       QueueRefused, QueuePuts, QueueFails, ToRunning, NotIdle, ToIdle, NotRunning, BackToIdle,
       Enter, life
  <2>3. pc'["loop"] = pc["loop"]
    BY <1>1, <2>1, <2>2 DEF Goto, PcTypes
  <2> QED
    BY <1>3, <2>1, <2>2, <2>3
<1>14. CASE LoopSteps
  <2>1. Step("loop")
    BY <1>14, LoopTurns
  <2>2. /\ csc' \in {csc, "FAULT"} /\ UNCHANGED registered
        /\ Alive("loop")
        /\ csc = "DISABLED" => pc'["loop"] = "off"
    <3>1. csc = "DISABLED" => pc["loop"] \in {"off", "top"}
      BY DEF TasksOK
    <3> QED
      BY <1>1, <1>14, <3>1 DEF LoopSteps, LoopTop, LoopWaits, LoopWaited, LoopPasses, LoopUnpauses,
         LoopLocks, LoopGenerates, LoopGenerated, LoopGenerateFails, LoopChecks, LoopCheckFails,
         LoopDecides, LoopPredicts, LoopPredicted, LoopPredictFails, LoopSleeps, LoopFails, Faults,
         QueueTakes, QueueRefused, QueuePuts, QueueFails, Enter, Exit, Refused, Goto, At, Alive,
         PcTypes, life
  <2> QED
    BY <1>2a, <2>1, <2>2 DEF TasksOK, At, Alive
<1>15. CASE EnableBegins
  <2>1. Step("loop")
    BY <1>15, LoopTurns
  <2>2. csc' = "ENABLED" /\ pc["stop"] = "off"
    BY <1>1, <1>15 DEF EnableBegins, Quiet, At, PcTypes, Allowed, StopLabels
  <2> QED
    BY <1>2a, <2>1, <2>2 DEF TasksOK, At, Alive
<1>16. CASE StopTasks
  <2>1. Step("lifecycle") /\ "lifecycle" \in others
    BY <1>16, LifecycleSteps, Named
  <2>2. UNCHANGED <<csc, registered>> /\ pc'["loop"] = pc["loop"]
    BY <1>1, <1>16 DEF StopTasks, Goto, PcTypes
  <2> QED
    BY <1>3, <2>1, <2>2
<1>17. CASE Settles
  <2>1. pc["loop"] = "off" /\ pc["compute"] = "off" /\ \A p \in Procs \ {"telemetry", "lifecycle"} : pc'[p] = pc[p]
    BY <1>17, Settled1
  <2>2. ~registered' /\ tlock' = tlock
    BY <1>17 DEF Settles
  <2> QED
    BY <1>1, <2>1, <2>2 DEF TasksOK, At, Alive
<1>18. CASE TimerEnds \/ FaultFlagMoves \/ \E i \in Items : ScriptsEnd(i)
  BY <1>18 DEF TimerEnds, FaultFlagMoves, ScriptsEnd, TasksOK, life, At, Alive
<1>19. CASE UNCHANGED vars
  BY <1>19 DEF vars, life, TasksOK, At, Alive
<1> QED
  BY <1>4, <1>5, <1>7, <1>8, <1>9, <1>10, <1>11, <1>12, <1>13, <1>14, <1>15, <1>16, <1>17, <1>18, <1>19
     DEF Next, Lifecycle, Asks, Environment

(***************************************************************************)
(* What the lock of the detailed state protects.                           *)
(***************************************************************************)
LEMMA HolderAlone ==
  ASSUME LocksOK, NEW p \in Procs, Holds(dlock, p), NEW q \in Procs, pc[q] \in Operations
  PROVE  q = p
<1>1. Holds(dlock, q)
  BY Stands DEF HolderLabels
<1> QED
  BY <1>1 DEF Holds

LEMMA OperationsStep ==
  ASSUME CoreInv, [Next]_vars
  PROVE  OperationsOK'
<1> DEFINE workers == {"loop"} \cup Blocks
<1>1. PcTypes /\ LocksOK /\ TasksOK /\ DataTypes /\ OperationsOK
  BY DEF CoreInv
<1>2. ASSUME NEW p \in Procs, Step(p), NEW q \in Procs, q # p, pc'[q] \in Operations
      PROVE  pc'[q] = pc[q]
  BY <1>2 DEF Step, Alike, Operations
<1>3. ASSUME NEW p \in Procs, Step(p), Holds(dlock, p), pc'[p] \notin Operations
      PROVE  OperationsOK'
  <2>1. \A q \in Procs : pc'[q] \notin Operations
    BY <1>1, <1>2, <1>3, HolderAlone
  <2> QED
    BY <2>1 DEF OperationsOK, Operations, At
<1>4. ASSUME NEW p \in Procs, Step(p), pc'[p] \notin Operations,
             inHand' = inHand, detailed' = detailed, csc' = csc \/ csc' # "ENABLED"
      PROVE  OperationsOK'
  BY <1>1, <1>2, <1>4 DEF OperationsOK, Operations, At
<1>5. ASSUME NEW p \in Procs, NEW op \in Operations, Step(p), Enter(p, op),
             pc'[p] = op, op = "QUEUEING" => inHand' \in Items
      PROVE  OperationsOK'
  <2>1. Holds(dlock, p) /\ detailed' = op
    BY <1>5 DEF Enter
  <2>2. \A q \in Procs : pc'[q] \in Operations => q = p
    <3>1. ASSUME NEW q \in Procs, pc'[q] \in Operations, q # p PROVE FALSE
      <4>1. pc[q] \in Operations
        BY <1>2, <1>5, <3>1
      <4> QED
        BY <1>1, <2>1, <3>1, <4>1, HolderAlone
    <3> QED
      BY <3>1
  <2> QED
    BY <1>5, <2>1, <2>2 DEF OperationsOK, Operations, At
<1>6. \A p \in Procs : \A l : Goto(p, l) => pc'[p] = l
  BY <1>1 DEF Goto, PcTypes
<1>7. {"loop", "compute", "stop", "resume", "predict", "check", "telemetry", "lifecycle"}
      \cup Blocks \subseteq Procs
  BY Named
<1>8. \A p \in Procs : pc[p] \in HolderLabels => Holds(dlock, p)
  BY <1>1, Stands
<1>9. ASSUME NEW p \in Procs, Step(p),
             ToRunning(p) \/ ToIdle(p) \/ NotIdle(p) \/ NotRunning(p) \/ BackToIdle(p)
      PROVE  OperationsOK'
  <2>1. Holds(dlock, p)
    BY <1>8, <1>9 DEF ToRunning, ToIdle, NotIdle, NotRunning, BackToIdle, At, HolderLabels
  <2>2. \E l \in {"running", "off", "toIdle", "idling"} : Goto(p, l)
    BY <1>9 DEF ToRunning, ToIdle, NotIdle, NotRunning, BackToIdle
  <2>3. pc'[p] \notin Operations
    BY <1>6, <2>2 DEF Operations
  <2> QED
    BY <1>3, <1>9, <2>1, <2>3
<1>10. ASSUME NEW p \in workers, Step(p),
              QueueTakes(p) \/ QueueRefused(p) \/ QueuePuts(p) \/ QueueFails(p)
       PROVE  OperationsOK'
  <2>1. CASE QueueTakes(p)
    <3>1. Enter(p, "QUEUEING") /\ inHand' = Head(queue) /\ queue # << >>
      BY <2>1 DEF QueueTakes
    <3>2. inHand' \in Items /\ pc'[p] = "QUEUEING"
      BY <1>1, <1>6, <1>7, <3>1 DEF DataTypes, Enter
    <3> QED
      BY <1>5, <1>7, <1>10, <3>1, <3>2 DEF Operations
  <2>2. CASE QueueRefused(p) \/ QueuePuts(p) \/ QueueFails(p)
    <3>1. Holds(dlock, p)
      BY <1>7, <1>8, <2>2 DEF QueueRefused, QueuePuts, QueueFails, At, HolderLabels, Operations
    <3>2. pc'[p] \notin Operations
      BY <1>6, <1>7, <2>2 DEF QueueRefused, QueuePuts, QueueFails, AfterError, AfterWork, Operations
    <3> QED
      BY <1>3, <1>7, <1>10, <3>1, <3>2
  <2> QED
    BY <1>10, <2>1, <2>2
<1>11. ASSUME NEW p \in Workers, Killed(p), UNCHANGED csc
       PROVE  OperationsOK'
  <2>1. Step(p) /\ p \in Procs /\ pc'[p] \notin Operations
    BY <1>1, <1>6, <1>11, KilledSteps DEF Killed, Resting, Procs, Operations
  <2>2. CASE pc[p] \in Operations
    BY <1>3, <1>8, <2>1, <2>2 DEF HolderLabels
  <2>3. CASE pc[p] \notin Operations
    BY <1>4, <1>11, <2>1, <2>3 DEF Killed, At, Operations
  <2> QED
    BY <2>2, <2>3
<1>12. CASE Resume \/ ResumeAsks
  <2>1. Step("resume")
    BY <1>1, <1>12, ResumeSteps
  <2>2. CASE ToRunning("resume") \/ NotIdle("resume")
    BY <1>7, <1>9, <2>1, <2>2
  <2>3. CASE ~(ToRunning("resume") \/ NotIdle("resume"))
    <3>1. /\ pc'["resume"] \notin Operations
          /\ UNCHANGED <<inHand, detailed, csc>>
      BY <1>1, <1>7, <1>12, <2>3 DEF Resume, ResumeAsks, ResumeRefused, ResumeChecks, ResumeRestarts,
         LoopStarts, ResumeSets, Goto, PcTypes, Operations, work, life
    <3> QED
      BY <1>4, <1>7, <2>1, <3>1
  <2> QED
    BY <2>2, <2>3
<1>13. CASE (Stop /\ ~StopKills) \/ StopAsks \/ StopFails \/ StopTimesOut
  <2>1. Step("stop")
    BY <1>1, <1>13, StopSteps
  <2>2. CASE ToIdle("stop") \/ NotRunning("stop")
    BY <1>7, <1>9, <2>1, <2>2
  <2>3. CASE ~(ToIdle("stop") \/ NotRunning("stop"))
    <3>1. /\ pc'["stop"] \notin Operations
          /\ UNCHANGED <<inHand, detailed, csc>>
      BY <1>1, <1>7, <1>13, <2>3 DEF Stop, StopAsks, StopClears, StopCleansUp, StopFails, StopForgets,
         StopCancelsTimer, StopTimesOut, StopFinishes, LoopStarts, Goto, PcTypes, Operations, work, life
    <3> QED
      BY <1>4, <1>7, <2>1, <3>1
  <2> QED
    BY <2>2, <2>3
<1>14. CASE StopKills \/ \E p \in Workers : LifecycleKills(p)
  BY <1>11, <1>14 DEF StopKills, LifecycleKills, Workers
<1>15. CASE PredictStarts
  <2>1. UNCHANGED <<inHand, detailed, csc>>
    BY <1>15 DEF PredictStarts, work, life
  <2>2. \A q \in Procs : pc'[q] \in Operations => pc'[q] = pc[q]
    BY <1>1, <1>7, <1>15 DEF PredictStarts, PcTypes, Operations
  <2> QED
    BY <1>1, <2>1, <2>2 DEF OperationsOK, Operations, At
<1>16. CASE (Predict /\ ~PredictStarts) \/ PredictAsks
  <2>1. Step("predict")
    BY <1>1, <1>16, PredictSteps
  <2>2. CASE PredictAsks \/ PredictBegins \/ PredictPolls \/ PredictEnds
    <3>1. pc'["predict"] \notin Operations /\ UNCHANGED <<inHand, detailed, csc>>
      BY <1>6, <1>7, <2>2 DEF PredictAsks, PredictBegins, PredictPolls, PredictEnds, Operations, work, life
    <3> QED
      BY <1>4, <1>7, <2>1, <3>1
  <2> QED
    BY <1>7, <1>9, <1>16, <2>1, <2>2 DEF Predict
<1>17. CASE Compute
  <2>1. Step("compute")
    BY <1>1, <1>17, ComputeSteps
  <2>2. CASE ComputeEnds \/ (ComputeBegins /\ Refused("compute", "off"))
    <3>1. Holds(dlock, "compute") /\ pc'["compute"] \notin Operations
      BY <1>6, <1>7, <1>8, <2>2 DEF ComputeEnds, Exit, Refused, At, HolderLabels, Operations
    <3> QED
      BY <1>3, <1>7, <2>1, <3>1
  <2>3. CASE Enter("compute", "PREDICTING")
    BY <1>5, <1>6, <1>7, <2>1, <2>3 DEF Enter, Operations
  <2> QED
    BY <1>17, <2>2, <2>3 DEF Compute, ComputeBegins
<1>18. CASE ScriptEvent \/ CheckTargets
  <2>1. Step("check")
    BY <1>1, <1>18, CheckSteps
  <2>2. pc'["check"] \notin Operations /\ UNCHANGED <<inHand, detailed, csc>>
    BY <1>6, <1>7, <1>18 DEF ScriptEvent, CheckTargets, Observes, Discards, DiscardFails, Operations,
       work, life
  <2> QED
    BY <1>4, <1>7, <2>1, <2>2
<1>19. CASE Telemetry \/ TelemetryFails
  <2>1. Step("telemetry")
    BY <1>1, <1>19, TelemetrySteps
  <2>2. CASE Faults("telemetry")
    <3>1. csc' = "FAULT" /\ inHand' = inHand /\ pc'["telemetry"] = "off"
      BY <1>6, <1>7, <2>2 DEF Faults, work
    <3> QED
      BY <1>1, <1>2, <1>7, <2>1, <3>1 DEF OperationsOK, Operations, At
  <2>3. CASE ~Faults("telemetry")
    <3>1. pc'["telemetry"] \notin Operations /\ UNCHANGED <<inHand, detailed, csc>>
      BY <1>6, <1>7, <1>19, <2>3 DEF Telemetry, TelemetryFails, InfoAsks, InfoPublishes, TelemetryEnds,
         Operations, work, life
    <3> QED
      BY <1>4, <1>7, <2>1, <3>1
  <2> QED
    BY <2>2, <2>3
<1>20. ASSUME NEW b \in Blocks, Block(b) \/ AddAsks(b) PROVE OperationsOK'
  <2>1. Step(b)
    BY <1>1, <1>20, BlockSteps
  <2>2. CASE AddAsks(b) \/ AddAppends(b) \/ AddInserts(b) \/ ExecuteBegins(b)
    <3>1. pc'[b] \notin Operations /\ UNCHANGED <<inHand, detailed, csc>>
      BY <1>6, <1>7, <2>2 DEF AddAsks, AddAppends, AddInserts, ExecuteBegins, Operations, work, life
    <3> QED
      BY <1>4, <1>7, <2>1, <3>1
  <2> QED
    BY <1>7, <1>9, <1>10, <1>20, <2>1, <2>2 DEF Block, Execute
<1>21. CASE LoopSteps
  <2>1. Step("loop")
    BY <1>1, <1>21, LoopTurns
  <2>2. ASSUME NEW op \in {"WAITING", "GENERATING", "PREDICTING"}, Enter("loop", op)
        PROVE  OperationsOK'
    BY <1>5, <1>6, <1>7, <2>1, <2>2 DEF Enter, Operations
  <2>3. ASSUME NEW l \in {"off", "failed"}, Refused("loop", l)
        PROVE  OperationsOK'
    <3>1. Holds(dlock, "loop") /\ pc'["loop"] \notin Operations
      BY <1>6, <1>7, <2>3 DEF Refused, Operations
    <3> QED
      BY <1>3, <1>7, <2>1, <3>1
  <2>4. ASSUME NEW op \in Operations, NEW l \in {"off", "gate", "checking", "failed", "top"},
               Exit("loop", op, l)
        PROVE  OperationsOK'
    <3>1. Holds(dlock, "loop") /\ pc'["loop"] \notin Operations
      BY <1>6, <1>7, <1>8, <2>4 DEF Exit, Operations, At, HolderLabels
    <3> QED
      BY <1>3, <1>7, <2>1, <3>1
  <2>5. CASE LoopTop \/ LoopPasses \/ LoopUnpauses \/ LoopLocks \/ LoopChecks \/ LoopCheckFails
             \/ LoopDecides \/ LoopSleeps \/ LoopFails
    <3>1. pc'["loop"] \notin Operations /\ UNCHANGED <<inHand, detailed, csc>>
      BY <1>6, <1>7, <2>5 DEF LoopTop, LoopPasses, LoopUnpauses, LoopLocks, LoopChecks, LoopCheckFails,
         LoopDecides, LoopSleeps, LoopFails, Observes, Discards, DiscardFails, Operations, work, life
    <3> QED
      BY <1>4, <1>7, <2>1, <3>1
  <2>6. CASE LoopWaits \/ LoopGenerates \/ LoopPredicts
    BY <2>2, <2>3, <2>6 DEF LoopWaits, LoopGenerates, LoopPredicts
  <2>7. CASE LoopWaited
    BY <2>4, <2>7 DEF LoopWaited, Operations
  <2>8. CASE LoopGenerated \/ LoopGenerateFails \/ LoopPredicted \/ LoopPredictFails
    BY <2>4, <2>8 DEF LoopGenerated, LoopGenerateFails, LoopPredicted, LoopPredictFails, Operations
  <2>9. CASE Faults("loop")
    <3>1. csc' = "FAULT" /\ inHand' = inHand /\ pc'["loop"] = "off"
      BY <1>6, <1>7, <2>9 DEF Faults, work
    <3> QED
      BY <1>1, <1>2, <1>7, <2>1, <3>1 DEF OperationsOK, Operations, At
  <2> QED
    BY <1>10, <1>21, <2>1, <2>5, <2>6, <2>7, <2>8, <2>9 DEF LoopSteps
<1>22. CASE EnableBegins
  <2>1. Step("loop")
    BY <1>1, <1>22, LoopTurns
  <2>2. \A p \in Procs : pc[p] \notin Operations
    <3>1. pc["loop"] \in {"off", "top"}
      BY <1>1, <1>22 DEF EnableBegins, TasksOK
    <3>2. ~Alive("compute")
      BY <1>1, <1>22 DEF EnableBegins, TasksOK, Quiet, At
    <3>3. \A p \in {"resume", "stop", "predict"} \cup Blocks : pc[p] \notin Operations
      BY <1>22 DEF EnableBegins, Quiet, At, Operations
    <3>4. \A p \in {"check", "telemetry", "lifecycle"} : pc[p] \notin Operations
      BY <1>1, <1>7 DEF PcTypes, Allowed, Operations
    <3> QED
      BY <3>1, <3>2, <3>3, <3>4 DEF Procs, Workers, Operations, Alive
  <2>3. pc'["loop"] = "top"
    BY <1>1, <1>7, <1>22 DEF EnableBegins, LoopStarts, PcTypes
  <2>4. \A p \in Procs : pc'[p] \notin Operations
    BY <1>2, <1>7, <2>1, <2>2, <2>3 DEF Operations
  <2> QED
    BY <2>4 DEF OperationsOK, Operations, At
<1>23. CASE StopTasks
  <2>1. Step("lifecycle")
    BY <1>1, <1>23, LifecycleSteps
  <2>2. pc'["lifecycle"] \notin Operations /\ UNCHANGED <<inHand, detailed, csc>>
    BY <1>6, <1>7, <1>23 DEF StopTasks, Operations, work
  <2> QED
    BY <1>4, <1>7, <2>1, <2>2
<1>24. CASE Settles
  <2>1. \A p \in Procs : pc'[p] \in Operations => pc'[p] = pc[p]
    BY <1>1, <1>24 DEF Settles, PcTypes, Operations
  <2>2. csc' = "DISABLED" /\ inHand' = inHand
    BY <1>24 DEF Settles, work
  <2> QED
    BY <1>1, <2>1, <2>2 DEF OperationsOK, Operations, At
<1>25. CASE TimerEnds \/ FaultFlagMoves \/ \E i \in Items : ScriptsEnd(i)
  BY <1>1, <1>25 DEF TimerEnds, FaultFlagMoves, ScriptsEnd, OperationsOK, At, life, work
<1>26. CASE UNCHANGED vars
  BY <1>1, <1>26 DEF vars, life, work, OperationsOK, At
<1> QED
  BY <1>12, <1>13, <1>14, <1>15, <1>16, <1>17, <1>18, <1>19, <1>20, <1>21, <1>22, <1>23, <1>24,
     <1>25, <1>26 DEF Next, Lifecycle, Asks, Environment

(***************************************************************************)
(* The types of the rest.                                                  *)
(***************************************************************************)
LEMMA SequenceOfSet ==
  ASSUME NEW S, NEW T \in SUBSET S, IsFiniteSet(T)
  PROVE  SetToSeq(T) \in Seq(S)
<1>1. Cardinality(T) \in Nat /\ ExistsBijection(1..Cardinality(T), T)
  BY FS_CardinalityType
<1>2. \E f \in [1..Cardinality(T) -> T] : IsInjective(f)
  BY <1>1 DEF ExistsBijection, Bijection, Injection, IsInjective
<1>3. SetToSeq(T) \in [1..Cardinality(T) -> T]
  BY <1>2 DEF SetToSeq
<1>4. SetToSeq(T) \in [1..Cardinality(T) -> S]
  BY <1>3
<1> QED
  BY <1>1, <1>4

LEMMA DataStep ==
  ASSUME CoreInv, [Next]_vars
  PROVE  DataTypes'
<1>1. PcTypes /\ DataTypes /\ OperationsOK
  BY DEF CoreInv
<1>2. \A items : items \subseteq Items => \A s \in Removals(items) : s \subseteq Items
  BY <1>1 DEF Removals, DataTypes
<1>3. \A s \in Removals(scheduled) : s \subseteq Items
  BY <1>1, <1>2 DEF DataTypes
<1>4. Cancelled \in {"done", "armed", "cancelled"}
  BY <1>1 DEF Cancelled, DataTypes
<1>4a. << >> \in Seq(Items)
  OBVIOUS
<1>5. CASE Resume \/ ResumeAsks
  BY <1>1, <1>4a, <1>5 DEF Resume, ResumeAsks, ResumeRefused, ResumeChecks, ResumeRestarts, LoopStarts,
     ResumeSets, ToRunning, NotIdle, DataTypes, life, switches, work, aims, DetailedStates
<1>6. CASE (Stop /\ ~StopKills) \/ StopAsks \/ StopFails \/ StopTimesOut
  BY <1>1, <1>3, <1>4, <1>4a, <1>6 DEF Stop, StopAsks, StopClears, StopCleansUp, StopFails, StopForgets,
     StopCancelsTimer, StopTimesOut, StopFinishes, LoopStarts, ToIdle, NotRunning, DataTypes,
     life, switches, work, aims, DetailedStates
<1>7. CASE StopKills \/ \E p \in Workers : LifecycleKills(p)
  BY <1>1, <1>7 DEF StopKills, LifecycleKills, Killed, DataTypes, life, switches, aims, DetailedStates
<1>8. CASE Predict \/ PredictAsks
  BY <1>1, <1>8 DEF Predict, PredictAsks, PredictBegins, PredictStarts, PredictPolls, PredictEnds,
     ToRunning, NotIdle, ToIdle, NotRunning, BackToIdle, DataTypes, life, switches, work, aims,
     DetailedStates
<1>9. CASE Compute
  BY <1>1, <1>9 DEF Compute, ComputeBegins, ComputeEnds, Enter, Exit, Refused, DataTypes,
     life, switches, work, aims, DetailedStates, Operations
<1>10. Observes \/ Discards \/ DiscardFails =>
         /\ queue' \in Seq(Items) /\ scheduled' \subseteq Items /\ posted' \subseteq Items
         /\ inHand' \in Items \cup {None} /\ timer' \in {"done", "armed", "cancelled"}
  BY <1>1, <1>3, <1>4, <1>4a DEF Observes, Discards, DiscardFails, DataTypes
<1>11. CASE ScriptEvent \/ CheckTargets
  BY <1>1, <1>10, <1>11 DEF ScriptEvent, CheckTargets, DataTypes, life, switches, work, aims
<1>12. CASE Telemetry \/ TelemetryFails
  BY <1>1, <1>3, <1>12 DEF Telemetry, TelemetryFails, CleansUpRegardless, InfoAsks, InfoPublishes,
     TelemetryEnds, Faults, DataTypes, life, switches, work, aims, DetailedStates
<1>13. ASSUME NEW p \in {"loop"} \cup Blocks,
              QueueTakes(p) \/ QueueRefused(p) \/ QueuePuts(p) \/ QueueFails(p)
       PROVE  DataTypes'
  <2>1. CASE QueueTakes(p)
    <3>1. Head(queue) \in Items /\ Tail(queue) \in Seq(Items)
      BY <1>1, <2>1 DEF QueueTakes, DataTypes
    <3> QED
      BY <1>1, <2>1, <3>1 DEF QueueTakes, Enter, DataTypes, life, switches, aims, DetailedStates,
         Operations
  <2>2. CASE QueuePuts(p)
    <3>1. inHand \in Items
      BY <1>1, <2>2, Named DEF QueuePuts, OperationsOK
    <3>2. \A s \in Removals({inHand}) : s \subseteq Items
      BY <1>2, <3>1
    <3> QED
      BY <1>1, <2>2, <3>1, <3>2 DEF QueuePuts, DataTypes, life, switches, aims, DetailedStates
  <2>3. CASE QueueRefused(p) \/ QueueFails(p)
    BY <1>1, <2>3 DEF QueueRefused, QueueFails, DataTypes, life, switches, work, aims, DetailedStates
  <2> QED
    BY <1>13, <2>1, <2>2, <2>3
<1>14. ASSUME NEW b \in Blocks, Block(b) \/ AddAsks(b) PROVE DataTypes'
  <2>1. b \in Items
    BY DEF Items
  <2>2. Append(queue, b) \in Seq(Items) /\ <<b>> \o queue \in Seq(Items)
    BY <1>1, <2>1 DEF DataTypes
  <2>3. CASE AddAsks(b) \/ AddAppends(b) \/ AddInserts(b) \/ ExecuteBegins(b)
    BY <1>1, <2>2, <2>3 DEF AddAsks, AddAppends, AddInserts, ExecuteBegins, DataTypes, life, switches,
       work, aims
  <2>4. CASE ToRunning(b) \/ NotIdle(b) \/ ToIdle(b) \/ NotRunning(b) \/ BackToIdle(b)
    BY <1>1, <2>4 DEF ToRunning, NotIdle, ToIdle, NotRunning, BackToIdle, DataTypes, life, switches,
       work, aims, DetailedStates
  <2> QED
    BY <1>13, <1>14, <2>3, <2>4 DEF Block, Execute
<1>15. CASE LoopSteps
  <2>1. CASE LoopGenerated
    <3>1. ASSUME NEW new \in SUBSET Unused PROVE queue \o SetToSeq(new) \in Seq(Items)
      <4>1. new \subseteq Items /\ IsFiniteSet(new)
        BY TargetLoopAssumption, FS_Subset DEF Unused, Items
      <4>2. SetToSeq(new) \in Seq(Items)
        BY <4>1, SequenceOfSet
      <4> QED
        BY <1>1, <4>2 DEF DataTypes
    <3>2. /\ queue' \in Seq(Items) /\ needPredict' \in BOOLEAN /\ needQueue' \in BOOLEAN
          /\ timer' \in {"done", "armed", "cancelled"} /\ detailed' = "RUNNING"
      BY <1>1, <1>4, <2>1, <3>1 DEF LoopGenerated, Exit, DataTypes
    <3> QED
      BY <1>1, <2>1, <3>2 DEF LoopGenerated, DataTypes, life, switches, DetailedStates
  <2>2. CASE LoopTop \/ LoopPasses \/ LoopUnpauses \/ LoopLocks \/ LoopSleeps
    BY <1>1, <2>2 DEF LoopTop, LoopPasses, LoopUnpauses, LoopLocks, LoopSleeps, DataTypes, life,
       switches, work, aims
  <2>3. CASE LoopWaits \/ LoopWaited \/ LoopGenerates \/ LoopGenerateFails \/ LoopPredicts
             \/ LoopPredicted \/ LoopPredictFails
    BY <1>1, <2>3 DEF LoopWaits, LoopWaited, LoopGenerates, LoopGenerateFails, LoopPredicts,
       LoopPredicted, LoopPredictFails, Enter, Exit, Refused, DataTypes, life, switches, work, aims,
       DetailedStates, Operations
  <2>4. CASE LoopChecks \/ LoopCheckFails
    BY <1>1, <1>10, <2>4 DEF LoopChecks, LoopCheckFails, DataTypes, life, switches
  <2>5. CASE LoopDecides
    BY <1>1, <2>5 DEF LoopDecides, DataTypes, life, switches, work
  <2>6. CASE LoopFails \/ Faults("loop")
    BY <1>1, <1>3, <2>6 DEF LoopFails, Faults, CleansUpRegardless, DataTypes, life, switches, work,
       aims, DetailedStates
  <2> QED
    BY <1>13, <1>15, <2>1, <2>2, <2>3, <2>4, <2>5, <2>6 DEF LoopSteps
<1>16. CASE EnableBegins \/ StopTasks \/ Settles
  BY <1>1, <1>4, <1>4a, <1>16 DEF EnableBegins, StopTasks, Settles, LoopStarts, DataTypes, life, switches,
     work, aims, DetailedStates
<1>17. CASE TimerEnds \/ FaultFlagMoves \/ \E i \in Items : ScriptsEnd(i)
  BY <1>1, <1>17 DEF TimerEnds, FaultFlagMoves, ScriptsEnd, DataTypes, life, switches, work, aims
<1>18. CASE UNCHANGED vars
  BY <1>1, <1>18 DEF vars, life, switches, work, aims, DataTypes
<1> QED
  BY <1>5, <1>6, <1>7, <1>8, <1>9, <1>11, <1>12, <1>14, <1>15, <1>16, <1>17, <1>18
     DEF Next, Lifecycle, Asks, Environment

LEMMA CoreStart == Init => CoreInv
<1> SUFFICES ASSUME Init PROVE CoreInv
  OBVIOUS
<1>1. PcTypes
  BY Named DEF Init, PcTypes, Allowed, Labels, ResumeLabels, StopLabels, PredictLabels, LoopLabels,
     BlockLabels
<1>2. \A p \in Procs : pc[p] \in {"off", "asked"}
  BY DEF Init
<1>3. LocksOK
  <2>1. Range(dlock) = {} /\ Range(tlock) = {} /\ dlock \in Seq(Procs) /\ tlock \in Seq(Procs)
    BY DEF Init, Range
  <2>2. IsInjective(dlock) /\ IsInjective(tlock)
    BY DEF Init, IsInjective
  <2>3. StateUsers = {} /\ LoopUsers = {}
    BY <1>2 DEF StateUsers, StateLabels, Operations, LoopUsers, UsesLoop, Body, At
  <2> QED
    BY <2>1, <2>2, <2>3 DEF LocksOK, LockOK
<1>4. TasksOK
  BY Named DEF Init, TasksOK, At, Alive
<1>5. DataTypes
  <2>1. << >> \in Seq(Items)
    OBVIOUS
  <2> QED
    BY <2>1 DEF Init, DataTypes, DetailedStates, Items
<1>6. OperationsOK
  BY <1>2 DEF OperationsOK, Operations, At
<1> QED
  BY <1>1, <1>3, <1>4, <1>5, <1>6 DEF CoreInv

LEMMA CoreStep == CoreInv /\ [Next]_vars => CoreInv'
<1> SUFFICES ASSUME CoreInv, [Next]_vars PROVE CoreInv'
  OBVIOUS
<1>1. PcTypes /\ LocksOK /\ TasksOK
  BY DEF CoreInv
<1>2. TasksOK' /\ DataTypes' /\ OperationsOK'
  BY <1>1, TasksStep, DataStep, OperationsStep
<1>3. ASSUME NEW p \in Procs, Step(p) PROVE PcTypes' /\ LocksOK'
  BY <1>1, <1>3, StepKeeps
<1>4. CASE PredictStarts
  <2>1. ~Alive("compute")
    BY <1>1, <1>4 DEF PredictStarts, TasksOK, At
  <2> QED
    BY <1>1, <1>2, <1>4, <2>1, PredictionStarts DEF CoreInv
<1>5. CASE Settles
  BY <1>1, <1>2, <1>5, Settled1 DEF CoreInv
<1>6. CASE UNCHANGED <<pc, dlock, tlock>>
  BY <1>1, <1>2, <1>6 DEF CoreInv, PcTypes, LocksOK, StateUsers, StateHolders, LoopUsers,
     LoopUsersAtMost, LoopHolders, At
<1> QED
  BY <1>1, <1>2, <1>3, <1>4, <1>5, <1>6, Moves DEF CoreInv, vars

LEMMA CoreHolds == Spec => []CoreInv
BY CoreStart, CoreStep, PTL DEF Spec

(* What each variable takes, and where each coroutine may be.              *)
THEOREM LoopTypeCorrect == Spec => []TypeOK
<1>1. CoreInv => TypeOK
  BY DEF CoreInv, PcTypes, LocksOK, LockOK, DataTypes, TypeOK
<1> QED
  BY <1>1, CoreHolds, PTL

(* No coroutine waits for a lock that it holds or already waits for.       *)
THEOREM LocksAsked == Spec => []LocksAskedOnce
<1>1. CoreInv => LocksAskedOnce
  BY DEF CoreInv, LocksOK, LockOK, LocksAskedOnce
<1> QED
  BY <1>1, CoreHolds, PTL

(* While the CSC is enabled the published detailed state names the         *)
(* operation in progress, and there is at most one.                        *)
THEOREM OperationsReported == Spec => []OperationReported
<1>1. ASSUME CoreInv PROVE OperationReported
  BY <1>1, Stands DEF CoreInv, OperationsOK, OperationReported, HolderLabels
<1> QED
  BY <1>1, CoreHolds, PTL

(***************************************************************************)
(* The loop without predictions, added blocks or failing removals.  With   *)
(* them IDLE does not mean that the loop is stopped: a prediction or a     *)
(* block that finds the loop running takes RUNNING down under it, and a    *)
(* stop that fails at the ScriptQueue leaves RUNNING behind.               *)
(***************************************************************************)
LoopAlone ==
  Commands \cap {"predict", "addBlock"} = {} /\ "removalRaises" \notin Mishaps

Settling == At("lifecycle", "settling")

(* A stop that has been abandoned is past target_loop_lock.                *)
StopInLock == pc["stop"] \in {"toIdle", "idling"} /\ "stop" \in Range(tlock)

(* Only the loop operates, only resume and the loop bring RUNNING, and as  *)
(* long as it lasts somebody is about to set or to answer for              *)
(* run_target_loop.                                                        *)
RunInv ==
  /\ \A p \in {"predict", "compute"} \cup Blocks : At(p, "off")
  /\ pc["resume"] \in {"acking", "toRunning", "running"} => ~runSet
  /\ At("stop", "idling") => detailed = "IDLE"
  /\ detailed \in Operations => pc["loop"] = detailed
  /\ csc = "DISABLED" => ~At("telemetry", "faulting")
  /\ csc = "ENABLED" /\ At("resume", "running") => detailed = "RUNNING"
  /\ csc # "DISABLED" /\ ~Settling /\ (detailed # "IDLE" \/ pc["loop"] \in Operations)
       => runSet \/ At("resume", "running") \/ ~At("stop", "off")

(* What a stop in an enabled CSC has left to do: until it has reported     *)
(* IDLE, a resume that waits for the lock before it is refused.            *)
IdleInv ==
  csc = "ENABLED" /\ ~Settling =>
    /\ runSet => detailed # "IDLE" \/ (At("stop", "idling") /\ ~StopInLock)
    /\ At("stop", "acking") => runSet
    /\ At("stop", "wantLoop") => ~runSet /\ detailed # "IDLE" /\ ~At("resume", "running")
    /\ At("stop", "cleaning") \/ StopInLock => ~runSet

(* Who excludes whom at the two locks.                                     *)
LEMMA Exclusive ==
  ASSUME LocksOK
  PROVE  /\ Holds(dlock, "stop") => pc["loop"] \notin Operations /\ ~At("resume", "running")
         /\ Holds(dlock, "resume") => pc["loop"] \notin Operations /\ ~At("stop", "idling")
         /\ Holds(dlock, "loop") => ~At("stop", "idling") /\ ~At("resume", "running")
         /\ pc["loop"] \in Operations => Holds(dlock, "loop")
         /\ At("stop", "idling") => Holds(dlock, "stop")
         /\ At("resume", "running") => Holds(dlock, "resume")
         /\ At("resume", "running") => ~At("stop", "cleaning") /\ ~StopInLock
<1>1. {"stop", "resume", "loop"} \subseteq Procs
  BY Named
<1>2. /\ pc["loop"] \in Operations => Holds(dlock, "loop")
      /\ At("stop", "idling") => Holds(dlock, "stop")
      /\ At("resume", "running") => Holds(dlock, "resume")
  BY <1>1, Stands DEF HolderLabels, At
<1>3. \A p, q : Holds(dlock, p) /\ Holds(dlock, q) => p = q
  BY DEF Holds
<1>4. At("resume", "running") => ~At("stop", "cleaning") /\ ~StopInLock
  <2>1. At("resume", "running") => Holds(tlock, "resume")
    BY <1>1, Stands DEF At, UsesLoop
  <2>2. At("stop", "cleaning") \/ StopInLock => Holds(tlock, "stop")
    BY <1>1, Stands DEF At, UsesLoop, StopInLock
  <2> QED
    BY <2>1, <2>2 DEF Holds
<1> QED
  BY <1>2, <1>3, <1>4

(* What does not happen in the loop alone.                                 *)
LEMMA Alone ==
  ASSUME LoopAlone, CoreInv, RunInv
  PROVE  /\ ~PredictAsks /\ ~Predict /\ ~Compute /\ ~StopFails
         /\ \A b \in Blocks : ~Block(b) /\ ~AddAsks(b)
<1>1. \A p \in {"predict", "compute"} \cup Blocks : At(p, "off")
  BY DEF RunInv
<1>2. ~PredictAsks /\ ~Predict /\ ~Compute /\ ~StopFails
  BY <1>1 DEF LoopAlone, PredictAsks, Predict, PredictBegins, PredictStarts, PredictPolls,
     PredictEnds, ToRunning, NotIdle, ToIdle, NotRunning, BackToIdle, Compute, ComputeBegins,
     ComputeEnds, Exit, StopFails, At
<1>3. ASSUME NEW b \in Blocks PROVE ~Block(b) /\ ~AddAsks(b)
  BY <1>1 DEF LoopAlone, AddAsks, Block, Execute, AddAppends, AddInserts, ExecuteBegins,
     QueueTakes, QueueRefused, QueuePuts, QueueFails, ToRunning, NotIdle, ToIdle, NotRunning,
     BackToIdle, At
<1> QED
  BY <1>2, <1>3

LEMMA RunStep ==
  ASSUME LoopAlone, CoreInv, RunInv, IdleInv, [Next]_vars
  PROVE  RunInv' /\ IdleInv'
<1> DEFINE SameStop == StopInLock' <=> StopInLock
<1>1. PcTypes /\ LocksOK /\ TasksOK /\ DataTypes
  BY DEF CoreInv
<1>2. {"loop", "compute", "stop", "resume", "predict", "check", "telemetry", "lifecycle"}
      \cup Blocks \subseteq Procs
  BY Named
<1>3. ASSUME NEW p \in Procs, p # "stop", Step(p) PROVE SameStop
  <2>1. pc'["stop"] = pc["stop"]
    BY <1>2, <1>3 DEF Step, Alike
  <2>2. "stop" \in Range(tlock') <=> "stop" \in Range(tlock)
    BY <1>1, <1>3, StepKeeps
  <2> QED
    BY <2>1, <2>2 DEF StopInLock
<1>4. \A p \in {"predict", "compute"} \cup Blocks : At(p, "off")
  BY DEF RunInv
<1>5. CASE Resume \/ ResumeAsks
  <2>1. Step("resume") /\ SameStop
    BY <1>1, <1>2, <1>3, <1>5, ResumeSteps
  <2>2. CASE ResumeAsks \/ ResumeRefused \/ ResumeChecks
    BY <1>1, <1>2, <1>4, <2>1, <2>2, Named DEF ResumeAsks, ResumeRefused, ResumeChecks, Goto, At,
       PcTypes, RunInv, IdleInv, Settling, life, switches
  <2>3. CASE ResumeRestarts
    <3>1. ~runSet /\ pc["resume"] = "acking"
      BY <2>3 DEF ResumeRestarts, RunInv, At
    <3>2. /\ pc'["resume"] = "toRunning" /\ UNCHANGED <<csc, detailed, runSet>>
          /\ \A p \in Procs \ {"resume", "loop"} : pc'[p] = pc[p]
          /\ pc'["loop"] = pc["loop"] \/ (pc["loop"] = "off" /\ pc'["loop"] = "top")
      <4>1. CASE registered /\ ~Alive("loop")
        BY <1>1, <1>2, <2>3, <3>1, <4>1 DEF ResumeRestarts, LoopStarts, PcTypes, Alive, DataTypes
      <4>2. CASE ~(registered /\ ~Alive("loop"))
        BY <1>1, <1>2, <2>3, <3>1, <4>2 DEF ResumeRestarts, PcTypes
      <4> QED
        BY <4>1, <4>2
    <3> QED
      BY <1>2, <1>4, <2>1, <3>1, <3>2, Named DEF RunInv, IdleInv, Settling, At, Operations
  <2>4. CASE ResumeSets
    <3>1. /\ pc["resume"] = "running" /\ pc'["resume"] = "off" /\ runSet' = TRUE
          /\ UNCHANGED <<csc, detailed>> /\ \A p \in Procs \ {"resume"} : pc'[p] = pc[p]
      BY <1>1, <1>2, <2>4 DEF ResumeSets, Goto, PcTypes, At, life
    <3>2. ~At("stop", "cleaning") /\ ~StopInLock
      BY <1>1, <3>1, Exclusive DEF At
    <3> QED
      BY <1>2, <1>4, <2>1, <3>1, <3>2, Named DEF RunInv, IdleInv, Settling, At, Operations
  <2>5. CASE ToRunning("resume")
    <3>1. /\ pc["resume"] = "toRunning" /\ pc'["resume"] = "running" /\ detailed = "IDLE"
          /\ detailed' = "RUNNING" /\ UNCHANGED <<csc, runSet>>
          /\ \A p \in Procs \ {"resume"} : pc'[p] = pc[p]
      BY <1>1, <1>2, <2>5 DEF ToRunning, Goto, PcTypes, At, life, switches
    <3>2. pc["loop"] \notin Operations /\ ~At("stop", "idling")
      BY <1>1, <2>5, Exclusive DEF ToRunning
    <3> QED
      BY <1>2, <1>4, <2>1, <3>1, <3>2, Named DEF RunInv, IdleInv, Settling, At, Operations
  <2>6. CASE NotIdle("resume")
    BY <1>1, <1>2, <1>4, <2>1, <2>6, Named DEF NotIdle, Goto, At,
       PcTypes, RunInv, IdleInv, Settling, life, switches
  <2> QED
    BY <1>5, <2>2, <2>3, <2>4, <2>5, <2>6 DEF Resume
<1>6. CASE (Stop /\ ~StopKills) \/ StopAsks \/ StopTimesOut
  <2>1. "stop" \in Range(tlock) /\ ~At("stop", "wantLoop") => Holds(tlock, "stop")
    BY <1>1, <1>2, Stands
  <2>2. CASE StopAsks \/ StopTimesOut
    <3>1. /\ pc'["stop"] \in {"acking", "killing"} /\ UNCHANGED <<csc, runSet, detailed>>
          /\ pc'["stop"] = "acking" => runSet
          /\ \A p \in Procs \ {"stop"} : pc'[p] = pc[p]
          /\ StopTimesOut => At("stop", "wantLoop") \/ At("stop", "cleaning") \/ StopInLock
          /\ StopAsks => At("stop", "off")
      BY <1>1, <1>2, <2>2, Stands DEF StopAsks, StopTimesOut, StopInLock, Goto, PcTypes, At, life, switches
    <3> QED
      BY <1>2, <1>4, <2>2, <3>1, Named DEF RunInv, IdleInv, Settling, At, Operations, StopInLock
  <2>3. CASE StopClears
    <3>1. /\ pc["stop"] = "acking" /\ pc'["stop"] = "wantLoop" /\ runSet' = FALSE
          /\ UNCHANGED <<csc, detailed>> /\ \A p \in Procs \ {"stop"} : pc'[p] = pc[p]
      BY <1>1, <1>2, <2>3 DEF StopClears, Goto, PcTypes, At, life
    <3> QED
      BY <1>2, <1>4, <3>1, Named DEF RunInv, IdleInv, Settling, At, Operations, StopInLock
  <2>4. CASE StopCleansUp
    <3>1. /\ \/ pc["stop"] = "wantLoop" /\ pc'["stop"] = "cleaning"
             \/ pc["stop"] = "killing" /\ pc'["stop"] = "recleaning"
          /\ UNCHANGED <<csc, detailed, runSet>> /\ \A p \in Procs \ {"stop"} : pc'[p] = pc[p]
      BY <1>1, <1>2, <2>4 DEF StopCleansUp, StopForgets, Goto, PcTypes, At, switches
    <3> QED
      BY <1>2, <1>4, <3>1, Named DEF RunInv, IdleInv, Settling, At, Operations, StopInLock
  <2>5. CASE StopCancelsTimer
    <3>1. /\ pc["stop"] \in {"cleaning", "recleaning"} /\ pc'["stop"] = "toIdle"
          /\ UNCHANGED <<csc, detailed, runSet, tlock>>
          /\ \A p \in Procs \ {"stop"} : pc'[p] = pc[p]
      BY <1>1, <1>2, <2>5 DEF StopCancelsTimer, Goto, PcTypes, At, life, switches
    <3>2. At("stop", "recleaning") => "stop" \notin Range(tlock)
      BY <1>1, <1>2, Stands DEF At, MayUseLoop, UsesLoop
    <3> QED
      BY <1>2, <1>4, <3>1, <3>2, Named DEF RunInv, IdleInv, Settling, At, Operations, StopInLock
  <2>6. CASE StopFinishes
    <3>1. /\ pc["stop"] = "idling" /\ pc'["stop"] = "off" /\ UNCHANGED <<csc, detailed>>
          /\ (runSet' = runSet /\ Holds(tlock, "stop")) \/ runSet' = FALSE
          /\ \A p \in Procs \ {"stop", "loop"} : pc'[p] = pc[p]
          /\ pc'["loop"] = pc["loop"] \/ pc'["loop"] = "top"
      BY <1>1, <1>2, <2>6 DEF StopFinishes, LoopStarts, PcTypes, At
    <3>2. pc["loop"] \notin Operations
      BY <1>1, <3>1, Exclusive DEF At
    <3>3. Holds(tlock, "stop") => StopInLock
      BY <1>1, <1>2, <3>1, Stands DEF StopInLock
    <3> QED
      BY <1>2, <1>4, <3>1, <3>2, <3>3, Named DEF RunInv, IdleInv, Settling, At, Operations, StopInLock
  <2>7. CASE ToIdle("stop")
    <3>1. /\ pc["stop"] = "toIdle" /\ pc'["stop"] = "idling" /\ UNCHANGED <<csc, runSet, tlock>>
          /\ detailed' = "IDLE" /\ \A p \in Procs \ {"stop"} : pc'[p] = pc[p]
      BY <1>1, <1>2, <2>7 DEF ToIdle, Goto, PcTypes, At, life, switches
    <3>2. pc["loop"] \notin Operations /\ ~At("resume", "running")
      BY <1>1, <2>7, Exclusive DEF ToIdle
    <3> QED
      BY <1>2, <1>4, <3>1, <3>2, Named DEF RunInv, IdleInv, Settling, At, Operations, StopInLock
  <2>8. CASE NotRunning("stop")
    <3>1. /\ pc["stop"] = "toIdle" /\ pc'["stop"] = "off" /\ UNCHANGED <<csc, runSet, detailed>>
          /\ detailed # "RUNNING" /\ \A p \in Procs \ {"stop"} : pc'[p] = pc[p]
      BY <1>1, <1>2, <2>8 DEF NotRunning, Goto, PcTypes, At, life, switches
    <3>2. pc["loop"] \notin Operations /\ ~At("resume", "running")
      BY <1>1, <2>8, Exclusive DEF NotRunning
    <3>3. detailed = "IDLE"
      BY <1>1, <3>1, <3>2 DEF RunInv, DataTypes, DetailedStates
    <3> QED
      BY <1>2, <1>4, <3>1, <3>2, <3>3, Named DEF RunInv, IdleInv, Settling, At, Operations, StopInLock
  <2> QED
    BY <1>6, <2>2, <2>3, <2>4, <2>5, <2>6, <2>7, <2>8 DEF Stop
<1>7. ASSUME NEW p \in Workers, Alive(p), Killed(p), UNCHANGED <<csc, runSet>>,
             Settling \/ At("stop", "killing")
      PROVE  RunInv' /\ IdleInv'
  <2>1. Step(p) /\ p \in Procs /\ p # "stop"
    BY <1>1, <1>7, KilledSteps, Named DEF Workers, Procs
  <2>2. SameStop
    BY <1>3, <2>1
  <2>3. CASE p \in {"check", "telemetry", "loop"}
    <3>1. pc'[p] = "off" /\ \A q \in Procs \ {p} : pc'[q] = pc[q]
      BY <1>1, <1>2, <1>7, <2>3, Named DEF Killed, Resting, Goto, PcTypes
    <3>2. /\ pc[p] \notin Operations => detailed' = detailed
          /\ pc[p] \in Operations => p = "loop" /\ detailed' = "RUNNING"
      BY <1>1, <1>2, <1>7, <2>3 DEF Killed, PcTypes, Allowed, Operations
    <3>3. pc["loop"] \in Operations => ~At("stop", "idling") /\ ~At("resume", "running")
      BY <1>1, Exclusive
    <3> QED
      BY <1>2, <1>4, <1>7, <2>2, <2>3, <3>1, <3>2, <3>3, Named
         DEF RunInv, IdleInv, Settling, At, Operations, StopInLock
  <2>4. p \in {"check", "telemetry", "loop"}
    BY <1>4, <1>7 DEF Workers, Alive, At
  <2> QED
    BY <2>3, <2>4
<1>8. CASE StopKills \/ \E p \in Workers : LifecycleKills(p)
  BY <1>7, <1>8 DEF StopKills, LifecycleKills, Workers, Settling, life, switches
<1>9. CASE ScriptEvent \/ CheckTargets
  <2>1. Step("check") /\ SameStop
    BY <1>1, <1>2, <1>3, <1>9, CheckSteps
  <2>2. /\ UNCHANGED <<csc, runSet, detailed>>
        /\ \A q \in Procs \ {"check"} : pc'[q] = pc[q]
    BY <1>1, <1>2, <1>9 DEF ScriptEvent, CheckTargets, Goto, PcTypes, life, switches
  <2> QED
    BY <1>2, <1>4, <2>1, <2>2, Named DEF RunInv, IdleInv, Settling, At, Operations
<1>10. CASE Telemetry \/ TelemetryFails
  <2>1. Step("telemetry") /\ SameStop
    BY <1>1, <1>2, <1>3, <1>10, TelemetrySteps
  <2>2. /\ runSet' = runSet /\ \A q \in Procs \ {"telemetry"} : pc'[q] = pc[q]
    BY <1>1, <1>2, <1>10 DEF Telemetry, TelemetryFails, InfoAsks, InfoPublishes, TelemetryEnds,
       Faults, Goto, PcTypes, life, switches
  <2>3. CASE Faults("telemetry")
    <3>1. /\ csc' = "FAULT" /\ detailed' = "IDLE" /\ At("telemetry", "faulting")
          /\ pc'["telemetry"] = "off"
      BY <1>1, <1>2, <2>3 DEF Faults, Goto, PcTypes
    <3> QED
      BY <1>2, <1>4, <2>1, <2>2, <3>1, Named DEF RunInv, IdleInv, Settling, At, Operations
  <2>4. CASE ~Faults("telemetry")
    <3>1. /\ UNCHANGED <<csc, detailed>>
          /\ pc'["telemetry"] = "faulting" => csc = "ENABLED"
      BY <1>1, <1>2, <1>10, <2>4 DEF Telemetry, TelemetryFails, InfoAsks, InfoPublishes,
         TelemetryEnds, Goto, PcTypes, life
    <3> QED
      BY <1>2, <1>4, <2>1, <2>2, <3>1, Named DEF RunInv, IdleInv, Settling, At, Operations
  <2> QED
    BY <2>3, <2>4
<1>11. CASE LoopSteps
  <2>1. Step("loop") /\ SameStop
    BY <1>1, <1>2, <1>3, <1>11, LoopTurns
  <2>2. /\ runSet' = runSet /\ \A q \in Procs \ {"loop"} : pc'[q] = pc[q]
    <3>1. runSet' = runSet /\ \E l : Goto("loop", l)
      BY <1>11 DEF LoopSteps, LoopTop, LoopWaits, LoopWaited, LoopPasses, LoopUnpauses, LoopLocks,
         LoopGenerates, LoopGenerated, LoopGenerateFails, LoopChecks, LoopCheckFails, LoopDecides,
         LoopPredicts, LoopPredicted, LoopPredictFails, LoopSleeps, LoopFails, Faults, QueueTakes,
         QueueRefused, QueuePuts, QueueFails, Enter, Exit, Refused, life, switches
    <3> QED
      BY <1>1, <1>2, <3>1 DEF Goto, PcTypes
  <2>3. \A l : Goto("loop", l) => pc'["loop"] = l
    BY <1>1, <1>2 DEF Goto, PcTypes
  <2>4. ASSUME UNCHANGED <<csc, detailed>>, pc'["loop"] \notin Operations,
               pc["loop"] \notin Operations
        PROVE  RunInv' /\ IdleInv'
    BY <1>2, <1>4, <2>1, <2>2, <2>4, Named DEF RunInv, IdleInv, Settling, At, Operations
  <2>5. ASSUME NEW op \in Operations, Enter("loop", op), csc' = csc
        PROVE  RunInv' /\ IdleInv'
    <3>1. /\ pc'["loop"] = op /\ detailed' = op /\ detailed = "RUNNING"
          /\ ~At("stop", "idling") /\ ~At("resume", "running")
      BY <1>1, <2>3, <2>5, Exclusive DEF Enter
    <3> QED
      BY <1>2, <1>4, <2>1, <2>2, <2>5, <3>1, Named DEF RunInv, IdleInv, Settling, At, Operations
  <2>6. ASSUME NEW op \in Operations, NEW l, l \notin Operations, Exit("loop", op, l), csc' = csc
        PROVE  RunInv' /\ IdleInv'
    <3>1. /\ pc["loop"] \in Operations /\ pc'["loop"] \notin Operations /\ detailed' = "RUNNING"
          /\ ~At("stop", "idling") /\ ~At("resume", "running")
      BY <1>1, <2>3, <2>6, Exclusive DEF Exit, At
    <3> QED
      BY <1>2, <1>4, <2>1, <2>2, <2>6, <3>1, Named DEF RunInv, IdleInv, Settling, At, Operations
  <2>7. CASE LoopTop \/ LoopPasses \/ LoopUnpauses \/ LoopLocks \/ LoopChecks \/ LoopCheckFails
             \/ LoopDecides \/ LoopSleeps \/ LoopFails
    <3>1. /\ UNCHANGED <<csc, detailed>> /\ pc'["loop"] \notin Operations
          /\ pc["loop"] \notin Operations
      BY <2>3, <2>7 DEF LoopTop, LoopPasses, LoopUnpauses, LoopLocks, LoopChecks, LoopCheckFails,
         LoopDecides, LoopSleeps, LoopFails, At, Operations, life
    <3> QED
      BY <2>4, <3>1
  <2>8. ASSUME NEW l \in {"off", "failed"}, Refused("loop", l), csc' = csc,
               pc["loop"] \notin Operations
        PROVE  RunInv' /\ IdleInv'
    BY <2>3, <2>4, <2>8 DEF Refused, Operations
  <2>9. CASE LoopWaits \/ LoopGenerates \/ LoopPredicts
    BY <2>5, <2>8, <2>9 DEF LoopWaits, LoopGenerates, LoopPredicts, Operations, At, life
  <2>10. CASE LoopWaited \/ LoopGenerated \/ LoopGenerateFails \/ LoopPredicted \/ LoopPredictFails
    BY <2>6, <2>10 DEF LoopWaited, LoopGenerated, LoopGenerateFails, LoopPredicted,
       LoopPredictFails, Operations, life
  <2>11. CASE QueueTakes("loop")
    BY <2>5, <2>11 DEF QueueTakes, Operations, life
  <2>12. CASE QueueRefused("loop")
    <3>1. /\ UNCHANGED <<csc, detailed>> /\ pc'["loop"] = "failed" /\ pc["loop"] = "toQueue"
      BY <2>3, <2>12 DEF QueueRefused, AfterError, At, life
    <3> QED
      BY <2>4, <3>1 DEF Operations
  <2>13. CASE QueuePuts("loop") \/ QueueFails("loop")
    <3>1. \E l \in {"top", "failed"} : Exit("loop", "QUEUEING", l)
      <4>1. /\ At("loop", "QUEUEING") /\ detailed' = "RUNNING" /\ dlock' = Tail(dlock)
            /\ Goto("loop", "top") \/ Goto("loop", "failed")
        BY <2>13 DEF QueuePuts, QueueFails, Releases, AfterWork, AfterError
      <4> QED
        BY <4>1 DEF Exit
    <3>2. csc' = csc
      BY <2>13 DEF QueuePuts, QueueFails, life
    <3> QED
      BY <2>6, <3>1, <3>2 DEF Operations
  <2>14. CASE Faults("loop")
    <3>1. /\ csc' = "FAULT" /\ detailed' = "IDLE" /\ pc["loop"] = "faulting" /\ pc'["loop"] = "off"
      BY <2>3, <2>14 DEF Faults, At
    <3> QED
      BY <1>2, <1>4, <2>1, <2>2, <3>1, Named DEF RunInv, IdleInv, Settling, At, Operations
  <2> QED
    BY <1>11, <2>7, <2>9, <2>10, <2>11, <2>12, <2>13, <2>14 DEF LoopSteps
<1>12. CASE EnableBegins
  <2>1. /\ csc' = "ENABLED" /\ detailed' = "IDLE" /\ runSet' = FALSE
        /\ pc'["loop"] = "top" /\ \A q \in Procs \ {"loop"} : pc'[q] = pc[q]
        /\ pc["stop"] = "off" /\ pc["resume"] = "off"
    BY <1>1, <1>2, <1>12 DEF EnableBegins, LoopStarts, PcTypes, Quiet, At, Allowed, StopLabels,
       ResumeLabels
  <2> QED
    BY <1>2, <1>4, <2>1, Named DEF RunInv, IdleInv, Settling, At, Operations, StopInLock
<1>13. CASE StopTasks
  <2>1. Step("lifecycle") /\ SameStop
    BY <1>1, <1>2, <1>3, <1>13, LifecycleSteps
  <2>2. /\ UNCHANGED <<csc, detailed>> /\ runSet' = FALSE /\ pc'["lifecycle"] = "settling"
        /\ \A q \in Procs \ {"lifecycle"} : pc'[q] = pc[q]
    BY <1>1, <1>2, <1>13 DEF StopTasks, Goto, PcTypes
  <2> QED
    BY <1>2, <1>4, <2>1, <2>2, Named DEF RunInv, IdleInv, Settling, At, Operations
<1>14. CASE Settles
  <2>1. /\ csc' = "DISABLED" /\ detailed' = "IDLE" /\ UNCHANGED <<runSet, tlock>>
        /\ pc'["telemetry"] = "asked" /\ \A q \in Procs \ {"telemetry", "lifecycle"} : pc'[q] = pc[q]
    BY <1>1, <1>2, <1>14 DEF Settles, PcTypes
  <2> QED
    BY <1>2, <1>4, <2>1, Named DEF RunInv, IdleInv, Settling, At, Operations, StopInLock
<1>15. CASE TimerEnds \/ FaultFlagMoves \/ \E i \in Items : ScriptsEnd(i)
  BY <1>15 DEF TimerEnds, FaultFlagMoves, ScriptsEnd, life, switches, RunInv, IdleInv, Settling, At,
     StopInLock
<1>16. CASE UNCHANGED vars
  BY <1>16 DEF vars, life, switches, RunInv, IdleInv, Settling, At, StopInLock
<1>17. ~PredictAsks /\ ~Predict /\ ~Compute /\ ~StopFails
  BY Alone
<1>18. \A b \in Blocks : ~Block(b) /\ ~AddAsks(b)
  BY Alone
<1> QED
  BY <1>5, <1>6, <1>8, <1>9, <1>10, <1>11, <1>12, <1>13, <1>14, <1>15, <1>16, <1>17, <1>18
     DEF Next, Lifecycle, Asks, Environment

LEMMA RunHolds ==
  ASSUME LoopAlone
  PROVE  Spec => [](CoreInv /\ RunInv /\ IdleInv)
<1>1. ASSUME Init PROVE RunInv /\ IdleInv
  <2>1. /\ csc = "DISABLED" /\ ~runSet /\ detailed = "IDLE"
        /\ \A p \in Procs \ {"telemetry"} : pc[p] = "off"
        /\ pc["telemetry"] = "asked"
    BY <1>1, Named DEF Init
  <2>2. {"predict", "compute", "resume", "stop", "loop", "lifecycle"} \cup Blocks
        \subseteq Procs \ {"telemetry"}
    BY Named
  <2> QED
    BY <2>1, <2>2 DEF RunInv, IdleInv, Operations, At
<1>2. CoreInv /\ RunInv /\ IdleInv /\ [Next]_vars => RunInv' /\ IdleInv'
  BY RunStep
<1> QED
  BY <1>1, <1>2, CoreHolds, PTL DEF Spec

(* Once the commands are answered, IDLE says that the loop is stopped, and *)
(* only that, as long as nobody but the loop, resume and stop moves the    *)
(* detailed state (resume, stop, disable, faults of the work, and stops    *)
(* that outlast loop_die_timeout included).                                *)
THEOREM IdleStopped ==
  ASSUME LoopAlone
  PROVE  Spec => []IdleMeansStopped
<1>1. ASSUME CoreInv, RunInv, IdleInv PROVE IdleMeansStopped
  <2> SUFFICES ASSUME csc = "ENABLED", Settled, ~Failing PROVE detailed = "IDLE" <=> ~runSet
    BY DEF IdleMeansStopped
  <2>1. At("stop", "off") /\ At("resume", "off") /\ At("lifecycle", "off")
    BY DEF Settled
  <2>2. runSet => detailed # "IDLE"
    BY <1>1, <2>1 DEF IdleInv, Settling, At
  <2>3. detailed # "IDLE" => runSet
    BY <1>1, <2>1 DEF RunInv, Settling, At
  <2> QED
    BY <2>2, <2>3, <1>1 DEF CoreInv, DataTypes
<1> QED
  BY <1>1, RunHolds, PTL

(***************************************************************************)
(* The loop keeps what Production promises.                                *)
(***************************************************************************)
Sends == At("loop", "QUEUEING")

(* What a step does to Production.                                         *)
LEMMA Promises ==
  LET Kept == Abstract!Next \/ UNCHANGED Abstract!vars
  IN  /\ Phase' = Phase /\ (Sends' <=> Sends) /\ posted' \subseteq posted => Kept
      /\ /\ Phase' = "stopped" => Phase = "stopped" \/ ~Sends
         /\ (Sends' <=> Sends) /\ posted' = posted
         => Kept
      /\ Phase' = Phase /\ Sends /\ ~Sends' /\ posted' \subseteq posted => Kept
      /\ /\ Phase' = Phase /\ Phase # "stopped" /\ ~Sends /\ Sends'
         /\ \E target : posted' = posted \cup {target}
         => Kept
<1>1. Phase' \in {"stopped", "running", "stopping"}
  BY DEF Phase
<1> DEFINE Kept == Abstract!Next \/ UNCHANGED Abstract!vars
<1>2. ASSUME Phase' = Phase, Sends' <=> Sends, posted' \subseteq posted PROVE Kept
  <2>1. At("loop", "QUEUEING")' = At("loop", "QUEUEING")
    BY <1>2 DEF Sends, At
  <2>2. Abstract!Withdraw
    BY <1>2, <2>1 DEF Abstract!Withdraw
  <2> QED
    BY <2>2 DEF Abstract!Next
<1>3. ASSUME Phase' = "stopped" => Phase = "stopped" \/ ~Sends, Sends' <=> Sends, posted' = posted
      PROVE  Kept
  <2>1. CASE Phase' = Phase
    BY <1>2, <1>3, <2>1
  <2>2. CASE Phase' # Phase
    <3>1. At("loop", "QUEUEING")' = At("loop", "QUEUEING")
      BY <1>3 DEF Sends, At
    <3>2. Abstract!Resume \/ Abstract!BeginStop \/ Abstract!EndStop
      BY <1>1, <1>3, <2>2, <3>1 DEF Abstract!Resume, Abstract!BeginStop, Abstract!EndStop, Sends
    <3> QED
      BY <3>2 DEF Abstract!Next
  <2> QED
    BY <2>1, <2>2
<1>4. ASSUME Phase' = Phase, Sends, ~Sends', posted' \subseteq posted PROVE Kept
  BY <1>4 DEF Abstract!Next, Abstract!Sent, Sends
<1>5. ASSUME Phase' = Phase, Phase # "stopped", ~Sends, Sends', NEW target,
             posted' = posted \cup {target}
      PROVE  Kept
  <2>1. target \in posted' /\ Abstract!Send(target)
    BY <1>5 DEF Abstract!Send, Sends
  <2> QED
    BY <2>1 DEF Abstract!Next
<1> QED
  BY <1>2, <1>3, <1>4, <1>5

LEMMA PromiseStep ==
  ASSUME LoopAlone, CoreInv, RunInv, [Next]_vars
  PROVE  Abstract!Next \/ UNCHANGED Abstract!vars
<1> DEFINE Kept == Abstract!Next \/ UNCHANGED Abstract!vars
           Quietly == Phase' = Phase /\ (Sends' <=> Sends) /\ posted' \subseteq posted
<1>1. PcTypes /\ LocksOK /\ TasksOK /\ DataTypes
  BY DEF CoreInv
<1>2. {"loop", "compute", "stop", "resume", "predict", "check", "telemetry", "lifecycle"}
      \cup Blocks \subseteq Procs
  BY Named
<1>3. Quietly => Kept
  BY Promises
<1>4. /\ \A p \in {"predict", "compute"} \cup Blocks : At(p, "off")
      /\ pc["resume"] \in {"acking", "toRunning", "running"} => ~runSet
      /\ csc = "DISABLED" => ~At("telemetry", "faulting")
  BY DEF RunInv
<1>5. ASSUME UNCHANGED <<csc, runSet>>, posted' \subseteq posted,
             NEW p \in {"resume", "check", "telemetry"},
             \A q \in Procs \ {p} :
               pc'[q] = pc[q] \/ (q = "loop" /\ pc[q] = "off" /\ pc'[q] = "top")
      PROVE  Quietly
  BY <1>2, <1>5 DEF Phase, Sends, At
<1>6. CASE Resume \/ ResumeAsks
  <2>1. CASE ResumeSets
    <3>1. /\ runSet' = TRUE /\ UNCHANGED <<csc, posted>>
          /\ \A q \in Procs \ {"resume"} : pc'[q] = pc[q]
      BY <1>1, <1>2, <2>1 DEF ResumeSets, Goto, PcTypes, life, work
    <3>2. Phase' = "stopped" => Phase = "stopped"
      BY <1>2, <3>1 DEF Phase, At
    <3>3. Sends' <=> Sends
      BY <1>2, <3>1 DEF Sends, At
    <3> QED
      BY <3>1, <3>2, <3>3, Promises
  <2>2. CASE ResumeRestarts
    <3>1. ~runSet
      BY <1>4, <2>2 DEF ResumeRestarts, At
    <3>2. /\ UNCHANGED <<csc, runSet, posted>>
          /\ \A q \in Procs \ {"resume"} :
               pc'[q] = pc[q] \/ (q = "loop" /\ pc[q] = "off" /\ pc'[q] = "top")
      <4>1. CASE registered /\ ~Alive("loop")
        BY <1>1, <1>2, <2>2, <3>1, <4>1 DEF ResumeRestarts, LoopStarts, PcTypes, Alive, DataTypes
      <4>2. CASE ~(registered /\ ~Alive("loop"))
        BY <1>1, <1>2, <2>2, <3>1, <4>2 DEF ResumeRestarts, PcTypes
      <4> QED
        BY <4>1, <4>2
    <3> QED
      BY <1>3, <1>5, <3>2
  <2>3. CASE ResumeAsks \/ ResumeRefused \/ ResumeChecks \/ ToRunning("resume") \/ NotIdle("resume")
    <3>1. /\ UNCHANGED <<csc, runSet, posted>>
          /\ \A q \in Procs \ {"resume"} : pc'[q] = pc[q]
      BY <1>1, <1>2, <2>3 DEF ResumeAsks, ResumeRefused, ResumeChecks, ToRunning, NotIdle, Goto,
         PcTypes, life, switches, work
    <3> QED
      BY <1>3, <1>5, <3>1
  <2> QED
    BY <1>6, <2>1, <2>2, <2>3 DEF Resume
<1>7. CASE (Stop /\ ~StopKills) \/ StopAsks \/ StopTimesOut
  <2>1. ASSUME UNCHANGED csc, posted' \subseteq posted, pc'["stop"] # "off",
               \A q \in Procs \ {"stop"} : pc'[q] = pc[q],
               \/ runSet' = runSet /\ (pc["stop"] # "off" \/ runSet)
               \/ ~runSet' /\ pc["stop"] # "off" /\ posted' = posted
        PROVE  Kept
    <3>1. Sends' <=> Sends
      BY <1>2, <2>1 DEF Sends, At
    <3>2. CASE runSet' = runSet /\ (pc["stop"] # "off" \/ runSet)
      <4>1. Phase' = Phase
        BY <1>2, <2>1, <3>2 DEF Phase, At
      <4> QED
        BY <1>3, <2>1, <3>1, <4>1
    <3>3. CASE ~runSet' /\ pc["stop"] # "off" /\ posted' = posted
      <4>1. Phase' = "stopped" => Phase = "stopped"
        BY <1>2, <2>1, <3>3 DEF Phase, At
      <4> QED
        BY <3>1, <3>3, <4>1, Promises
    <3> QED
      BY <2>1, <3>2, <3>3
  <2>2. ASSUME Holds(dlock, "stop"), posted' = posted,
               \A q \in Procs \ {"stop", "loop"} : pc'[q] = pc[q],
               pc'["loop"] \in {pc["loop"], "top"}
        PROVE  Kept
    <3>1. pc["loop"] \notin Operations
      BY <1>1, <2>2, Exclusive
    <3>2. ~Sends /\ ~Sends'
      BY <2>2, <3>1 DEF Sends, At, Operations
    <3> QED
      BY <2>2, <3>2, Promises
  <2>3. CASE StopAsks \/ StopTimesOut
    <3>1. /\ pc'["stop"] \in {"acking", "killing"} /\ UNCHANGED <<csc, runSet, posted>>
          /\ pc["stop"] # "off" \/ runSet
          /\ \A q \in Procs \ {"stop"} : pc'[q] = pc[q]
      BY <1>1, <1>2, <2>3 DEF StopAsks, StopTimesOut, Goto, PcTypes, At, life, switches, work
    <3> QED
      BY <2>1, <3>1
  <2>4. CASE StopClears
    <3>1. /\ pc'["stop"] = "wantLoop" /\ pc["stop"] = "acking" /\ ~runSet'
          /\ UNCHANGED <<csc, posted>> /\ \A q \in Procs \ {"stop"} : pc'[q] = pc[q]
      BY <1>1, <1>2, <2>4 DEF StopClears, Goto, PcTypes, At, life, work
    <3> QED
      BY <2>1, <3>1
  <2>5. CASE StopCleansUp \/ StopCancelsTimer
    <3>1. /\ pc'["stop"] \in {"cleaning", "recleaning", "toIdle"} /\ pc["stop"] # "off"
          /\ UNCHANGED <<csc, runSet>> /\ \A q \in Procs \ {"stop"} : pc'[q] = pc[q]
      BY <1>1, <1>2, <2>5 DEF StopCleansUp, StopForgets, StopCancelsTimer, Goto, PcTypes, At, life,
         switches
    <3>2. posted' \subseteq posted
      BY <2>5 DEF StopCleansUp, StopCancelsTimer, Removals, work
    <3> QED
      BY <2>1, <3>1, <3>2
  <2>6. CASE StopFinishes
    <3>1. /\ posted' = posted /\ pc["stop"] = "idling"
          /\ \A q \in Procs \ {"stop", "loop"} : pc'[q] = pc[q]
          /\ pc'["loop"] \in {pc["loop"], "top"}
      BY <1>1, <1>2, <2>6 DEF StopFinishes, LoopStarts, PcTypes, At
    <3>2. Holds(dlock, "stop")
      BY <1>1, <3>1, Exclusive DEF At
    <3> QED
      BY <2>2, <3>1, <3>2
  <2>7. CASE ToIdle("stop") \/ NotRunning("stop")
    <3>1. /\ posted' = posted /\ Holds(dlock, "stop")
          /\ \A q \in Procs \ {"stop"} : pc'[q] = pc[q]
      BY <1>1, <1>2, <2>7 DEF ToIdle, NotRunning, Goto, PcTypes, work
    <3> QED
      BY <1>2, <2>2, <3>1
  <2> QED
    BY <1>7, <2>3, <2>4, <2>5, <2>6, <2>7 DEF Stop
<1>8. ASSUME NEW p \in Workers, Alive(p), Killed(p), UNCHANGED <<csc, runSet, posted>>
      PROVE  Kept
  <2>1. p \in {"check", "telemetry", "loop"}
    BY <1>4, <1>8 DEF Workers, Alive, At
  <2>2. pc'[p] = "off" /\ \A q \in Procs \ {p} : pc'[q] = pc[q]
    BY <1>1, <1>2, <1>8, <2>1, Named DEF Killed, Resting, Goto, PcTypes
  <2>3. Phase' = Phase
    BY <1>2, <1>8, <2>1, <2>2 DEF Phase, At
  <2>4. (Sends' <=> Sends) \/ (Sends /\ ~Sends')
    BY <1>2, <2>1, <2>2 DEF Sends, At
  <2> QED
    BY <1>3, <1>8, <2>3, <2>4, Promises
<1>9. CASE StopKills \/ \E p \in Workers : LifecycleKills(p)
  BY <1>8, <1>9 DEF StopKills, LifecycleKills, Workers, switches
<1>10. CASE ScriptEvent \/ CheckTargets
  <2>1. /\ UNCHANGED <<csc, runSet>> /\ \A q \in Procs \ {"check"} : pc'[q] = pc[q]
    BY <1>1, <1>2, <1>10 DEF ScriptEvent, CheckTargets, Goto, PcTypes, life, switches
  <2>2. posted' \subseteq posted
    BY <1>10 DEF ScriptEvent, CheckTargets, Observes, Discards, DiscardFails, Removals, work
  <2> QED
    BY <1>3, <1>5, <2>1, <2>2
<1>11. CASE Telemetry \/ TelemetryFails
  <2>1. /\ runSet' = runSet /\ \A q \in Procs \ {"telemetry"} : pc'[q] = pc[q]
        /\ csc' # csc => csc # "DISABLED" /\ csc' # "DISABLED"
    BY <1>1, <1>2, <1>4, <1>11 DEF Telemetry, TelemetryFails, InfoAsks, InfoPublishes,
       TelemetryEnds, Faults, Goto, PcTypes, life, switches
  <2>2. posted' \subseteq posted
    BY <1>11 DEF Telemetry, TelemetryFails, InfoAsks, InfoPublishes, TelemetryEnds, Faults,
       CleansUpRegardless, Removals, work
  <2>3. Phase' = Phase /\ (Sends' <=> Sends)
    BY <1>2, <2>1 DEF Phase, Sends, At
  <2> QED
    BY <1>3, <2>2, <2>3
<1>12. CASE LoopSteps
  <2>1. /\ runSet' = runSet /\ \A q \in Procs \ {"loop"} : pc'[q] = pc[q]
        /\ csc' # csc => csc # "DISABLED" /\ csc' # "DISABLED"
    <3>1. CASE Faults("loop")
      BY <1>1, <1>2, <3>1 DEF Faults, Goto, PcTypes, TasksOK, At
    <3>2. CASE ~Faults("loop")
      <4>1. UNCHANGED <<csc, runSet>> /\ \E l : Goto("loop", l)
        BY <1>12, <3>2 DEF LoopSteps, LoopTop, LoopWaits, LoopWaited, LoopPasses, LoopUnpauses,
           LoopLocks, LoopGenerates, LoopGenerated, LoopGenerateFails, LoopChecks, LoopCheckFails,
           LoopDecides, LoopPredicts, LoopPredicted, LoopPredictFails, LoopSleeps, LoopFails,
           QueueTakes, QueueRefused, QueuePuts, QueueFails, Enter, Exit, Refused, life, switches
      <4> QED
        BY <1>1, <1>2, <4>1 DEF Goto, PcTypes
    <3> QED
      BY <3>1, <3>2
  <2>2. Phase' = Phase
    BY <1>2, <2>1 DEF Phase, At
  <2>3. \A l : Goto("loop", l) => pc'["loop"] = l
    BY <1>1, <1>2 DEF Goto, PcTypes
  <2>4. CASE QueueTakes("loop")
    <3>1. /\ pc["loop"] = "toQueue" /\ pc'["loop"] = "QUEUEING" /\ detailed = "RUNNING"
          /\ posted' = posted \cup {inHand'} /\ Holds(dlock, "loop")
      BY <2>3, <2>4 DEF QueueTakes, Enter, At
    <3>2. csc # "DISABLED"
      BY <1>1, <3>1 DEF TasksOK
    <3>3. ~At("resume", "running")
      BY <1>1, <3>1, Exclusive
    <3>4. Settling \/ runSet \/ ~At("stop", "off")
      BY <3>1, <3>2, <3>3 DEF RunInv
    <3>5. Phase # "stopped"
      BY <3>2, <3>4 DEF Phase, Settling
    <3>6. ~Sends /\ Sends'
      BY <3>1 DEF Sends, At
    <3> QED
      BY <2>2, <3>1, <3>5, <3>6, Promises
  <2>5. CASE QueuePuts("loop") \/ QueueFails("loop")
    <3>1. /\ pc["loop"] = "QUEUEING" /\ pc'["loop"] \in {"top", "failed"}
          /\ posted' \subseteq posted
      BY <2>3, <2>5 DEF QueuePuts, QueueFails, AfterWork, AfterError, Removals, At
    <3>2. Sends /\ ~Sends'
      BY <3>1 DEF Sends, At
    <3> QED
      BY <2>2, <3>1, <3>2, Promises
  <2>6. CASE LoopTop \/ LoopWaits \/ LoopWaited \/ LoopPasses \/ LoopUnpauses
             \/ LoopLocks \/ LoopGenerates \/ LoopGenerated \/ LoopGenerateFails
             \/ LoopChecks \/ LoopCheckFails \/ LoopDecides \/ QueueRefused("loop")
             \/ LoopPredicts \/ LoopPredicted \/ LoopPredictFails \/ LoopSleeps
             \/ LoopFails \/ Faults("loop")
    <3>1. pc["loop"] # "QUEUEING" /\ pc'["loop"] # "QUEUEING"
      BY <2>3, <2>6 DEF LoopTop, LoopWaits, LoopWaited, LoopPasses, LoopUnpauses,
         LoopLocks, LoopGenerates, LoopGenerated, LoopGenerateFails, LoopChecks, LoopCheckFails,
         LoopDecides, LoopPredicts, LoopPredicted, LoopPredictFails, LoopSleeps, LoopFails,
         QueueRefused, AfterError, Enter, Exit, Refused, Faults, At
    <3>2. posted' \subseteq posted
      BY <2>6 DEF LoopTop, LoopWaits, LoopWaited, LoopPasses, LoopUnpauses,
         LoopLocks, LoopGenerates, LoopGenerated, LoopGenerateFails, LoopChecks, LoopCheckFails,
         LoopDecides, LoopPredicts, LoopPredicted, LoopPredictFails, LoopSleeps, LoopFails,
         QueueRefused, Faults, Observes, Discards, DiscardFails, CleansUpRegardless, Removals, work
    <3>3. Sends' <=> Sends
      BY <3>1 DEF Sends, At
    <3> QED
      BY <1>3, <2>2, <3>2, <3>3
  <2> QED
    BY <1>12, <2>4, <2>5, <2>6 DEF LoopSteps
<1>13. CASE EnableBegins
  <2>1. /\ csc = "DISABLED" /\ csc' = "ENABLED" /\ runSet' = FALSE /\ posted' = posted
        /\ pc'["loop"] = "top" /\ \A q \in Procs \ {"loop"} : pc'[q] = pc[q]
        /\ pc["stop"] = "off" /\ pc["lifecycle"] = "off"
    BY <1>1, <1>2, <1>13 DEF EnableBegins, LoopStarts, PcTypes, Quiet, At, Allowed, StopLabels
  <2>2. Phase' = Phase
    BY <1>2, <2>1 DEF Phase, At
  <2>3. Sends' <=> Sends
    BY <1>1, <1>2, <2>1 DEF Sends, At, TasksOK
  <2> QED
    BY <1>3, <2>1, <2>2, <2>3
<1>14. CASE StopTasks
  <2>1. /\ posted' = posted /\ pc'["lifecycle"] = "settling"
        /\ \A q \in Procs \ {"lifecycle"} : pc'[q] = pc[q]
    BY <1>1, <1>2, <1>14 DEF StopTasks, Goto, PcTypes, work
  <2>2. Phase' # "stopped" /\ (Sends' <=> Sends)
    BY <1>2, <2>1 DEF Phase, Sends, At
  <2> QED
    BY <2>1, <2>2, Promises
<1>15. CASE Settles
  <2>1. posted' = posted /\ pc["loop"] = "off"
        /\ \A q \in Procs \ {"telemetry", "lifecycle"} : pc'[q] = pc[q]
    BY <1>1, <1>2, <1>15, Named DEF Settles, PcTypes, Workers, Alive, At, work
  <2>2. ~Sends /\ ~Sends'
    BY <1>2, <2>1 DEF Sends, At
  <2> QED
    BY <2>1, <2>2, Promises
<1>16. CASE TimerEnds \/ FaultFlagMoves \/ \E i \in Items : ScriptsEnd(i)
  <2>1. UNCHANGED <<csc, runSet, pc>> /\ posted' \subseteq posted
    BY <1>16 DEF TimerEnds, FaultFlagMoves, ScriptsEnd, life, switches, work
  <2>2. Phase' = Phase /\ (Sends' <=> Sends)
    BY <2>1 DEF Phase, Sends, At
  <2> QED
    BY <1>3, <2>1, <2>2
<1>17. CASE UNCHANGED vars
  <2>1. UNCHANGED <<csc, runSet, pc, posted>>
    BY <1>17 DEF vars, life, switches, work
  <2>2. Phase' = Phase /\ (Sends' <=> Sends)
    BY <2>1 DEF Phase, Sends, At
  <2> QED
    BY <1>3, <2>1, <2>2
<1>18. ~PredictAsks /\ ~Predict /\ ~Compute /\ ~StopFails
  BY Alone
<1>19. \A b \in Blocks : ~Block(b) /\ ~AddAsks(b)
  BY Alone
<1> QED
  BY <1>6, <1>7, <1>9, <1>10, <1>11, <1>12, <1>13, <1>14, <1>15, <1>16, <1>17, <1>18, <1>19
     DEF Next, Lifecycle, Asks, Environment

(* What TargetLoop does between a resume, a stop and the summary states is *)
(* what Production promises: the loop sends a target only between a resume *)
(* and the end of the next stop, and nothing is being sent when a stop     *)
(* ends.  It does for the loop alone only: a prediction, an added block or *)
(* a stopScripts that fails each break the promise.                        *)
THEOREM PromiseKept ==
  ASSUME LoopAlone
  PROVE  Spec => KeepsPromise
<1>1. ASSUME Init PROVE Abstract!Init
  <2>1. csc = "DISABLED" /\ pc["lifecycle"] = "off" /\ pc["loop"] = "off" /\ posted = {}
    BY <1>1, Named DEF Init
  <2> QED
    BY <2>1 DEF Abstract!Init, Phase, At
<1>2. CoreInv /\ RunInv /\ [Next]_vars => [Abstract!Next]_(Abstract!vars)
  BY PromiseStep
<1> QED
  BY <1>1, <1>2, RunHolds, PTL DEF Spec, KeepsPromise, Abstract!Spec

(***************************************************************************)
(* The resumed loop.  A stop that outlasts loop_die_timeout is left out:   *)
(* it may fail after it has killed the loop, and the next resume then      *)
(* starts no other.                                                        *)
(***************************************************************************)
Patient == LoopAlone /\ "loopOutlasts" \notin Mishaps

(* p stands before q.                                                      *)
Ahead(l, p, q) == \E i, j \in DOMAIN l : i < j /\ l[i] = p /\ l[j] = q

LEMMA AheadInRest ==
  ASSUME NEW l \in Seq(Procs), NEW p, NEW q, NEW r, p # q, p # r, Ahead(l, q, r)
  PROVE  /\ Ahead(Append(l, p), q, r)
         /\ Ahead(Leave(l, p), q, r)
         /\ Holds(l, p) => Ahead(Tail(l), q, r)
<1>1. PICK i, j \in 1..Len(l) : i < j /\ l[i] = q /\ l[j] = r
  BY DEF Ahead
<1>2. Len(l) \in Nat
  OBVIOUS
<1>3. Ahead(Append(l, p), q, r)
  BY <1>1 DEF Ahead
<1>4. Ahead(Leave(l, p), q, r)
  <2>1. CASE p \in Range(l)
    <3> DEFINE m == Leave(l, p)
    <3>1. \E k \in 1..Len(l) :
            /\ l[k] = p /\ m \in Seq(Procs)
            /\ Len(m) = Len(l) - 1 /\ DOMAIN m = 1..(Len(l) - 1)
            /\ \A n \in 1..(Len(l) - 1) : m[n] = IF n < k THEN l[n] ELSE l[n + 1]
      BY <2>1, LeftAt
    <3> HIDE DEF m
    <3>2. PICK k \in 1..Len(l) :
            /\ l[k] = p /\ DOMAIN m = 1..(Len(l) - 1)
            /\ \A n \in 1..(Len(l) - 1) : m[n] = IF n < k THEN l[n] ELSE l[n + 1]
      BY <3>1
    <3> DEFINE at(n) == IF n < k THEN n ELSE n - 1
    <3>3. ASSUME NEW n \in 1..Len(l), l[n] # p
          PROVE  at(n) \in 1..(Len(l) - 1) /\ m[at(n)] = l[n]
      <4>1. n # k
        BY <3>2, <3>3
      <4>2. at(n) \in 1..(Len(l) - 1)
        BY <1>2, <4>1
      <4>3. CASE n < k
        BY <3>2, <4>2, <4>3
      <4>4. CASE n > k
        <5>1. at(n) = n - 1 /\ ~(n - 1 < k) /\ (n - 1) + 1 = n
          BY <1>2, <4>4
        <5> QED
          BY <3>2, <4>2, <5>1
      <4> QED
        BY <1>2, <4>1, <4>2, <4>3, <4>4
    <3>4. at(i) < at(j)
      <4>1. i # k /\ j # k
        BY <1>1, <3>2
      <4> QED
        BY <1>1, <1>2, <4>1
    <3> HIDE DEF at
    <3>5. Ahead(m, q, r)
      BY <1>1, <3>2, <3>3, <3>4 DEF Ahead
    <3> QED
      BY <3>5 DEF m
  <2>2. CASE p \notin Range(l)
    BY <2>2 DEF Leave
  <2> QED
    BY <2>1, <2>2
<1>5. ASSUME Holds(l, p) PROVE Ahead(Tail(l), q, r)
  <2>1. l[1] = p /\ l # << >>
    BY <1>5 DEF Holds
  <2>2. i # 1 /\ j # 1
    BY <1>1, <2>1
  <2>3. /\ DOMAIN Tail(l) = 1..(Len(l) - 1)
        /\ \A n \in 1..(Len(l) - 1) : Tail(l)[n] = l[n + 1]
    BY <2>1
  <2>4. /\ i - 1 \in 1..(Len(l) - 1) /\ j - 1 \in 1..(Len(l) - 1) /\ i - 1 < j - 1
        /\ (i - 1) + 1 = i /\ (j - 1) + 1 = j
    BY <1>1, <1>2, <2>2
  <2>5. Tail(l)[i - 1] = q /\ Tail(l)[j - 1] = r
    BY <1>1, <2>3, <2>4
  <2> QED
    BY <2>3, <2>4, <2>5 DEF Ahead
<1> QED
  BY <1>3, <1>4, <1>5

(* Who stands before whom changes only with their own steps.               *)
LEMMA AheadStays ==
  ASSUME LocksOK, NEW p \in Procs, Step(p), NEW q, NEW r, p # q, p # r, Ahead(dlock, q, r)
  PROVE  Ahead(dlock', q, r)
<1>1. dlock \in Seq(Procs) /\ IsInjective(dlock)
  BY DEF LocksOK, LockOK
<1>2. /\ Ahead(Append(dlock, p), q, r) /\ Ahead(Leave(dlock, p), q, r)
      /\ Holds(dlock, p) => Ahead(Tail(dlock), q, r)
  BY <1>1, AheadInRest
<1>3. Leave(dlock, p) \in Seq(Procs)
  BY <1>1, Left
<1>4. Holds(dlock, p) => Tail(dlock) \in Seq(Procs)
  BY <1>1, Passed
<1>5. Ahead(Append(Leave(dlock, p), p), q, r)
  BY <1>2, <1>3, AheadInRest
<1>6. Holds(dlock, p) => Ahead(Append(Tail(dlock), p), q, r)
  BY <1>2, <1>4, AheadInRest
<1> QED
  BY <1>2, <1>5, <1>6 DEF Step, StateTurn

LEMMA AheadOfLast ==
  ASSUME NEW l \in Seq(Procs), NEW p \in Range(l), NEW q
  PROVE  Ahead(Append(l, q), p, q)
<1>1. PICK i \in 1..Len(l) : l[i] = p
  BY DEF Range
<1>2. /\ DOMAIN Append(l, q) = 1..(Len(l) + 1) /\ Len(l) \in Nat
      /\ Append(l, q)[i] = p /\ Append(l, q)[Len(l) + 1] = q
  BY <1>1
<1>3. i < Len(l) + 1 /\ i \in 1..(Len(l) + 1) /\ Len(l) + 1 \in 1..(Len(l) + 1)
  BY <1>1, <1>2
<1> QED
  BY <1>2, <1>3 DEF Ahead

LEMMA AheadWaits ==
  ASSUME NEW l \in Seq(Procs), IsInjective(l), NEW p, NEW q, Ahead(l, p, q)
  PROVE  ~Holds(l, q)
<1>1. PICK i, j \in 1..Len(l) : i < j /\ l[j] = q
  BY DEF Ahead
<1>2. ASSUME Holds(l, q) PROVE FALSE
  <2>1. l[1] = q /\ 1 \in 1..Len(l)
    BY <1>2 DEF Holds
  <2>2. j = 1
    BY <1>1, <2>1 DEF IsInjective
  <2> QED
    BY <1>1, <2>2
<1> QED
  BY <1>2

(* The timer runs only while there is nothing to observe, and the loop has *)
(* not come to generate targets again.                                     *)
Waits == pc["loop"] \in {"toWait", "WAITING"}
TimerLabels == {"off", "top", "toWait", "WAITING", "checking", "deciding", "toPredict",
                "PREDICTING", "sleeping", "failed", "faulting"}

TimerInv ==
  /\ timer = "armed" => scheduled = {} /\ queue = << >> /\ pc["loop"] \in TimerLabels
  /\ Waits => scheduled = {}
  /\ csc = "DISABLED" => timer # "armed"

LEMMA TimerStep ==
  ASSUME LoopAlone, CoreInv, RunInv, TimerInv, [Next]_vars
  PROVE  TimerInv'
<1>1. PcTypes /\ LocksOK /\ TasksOK /\ DataTypes
  BY DEF CoreInv
<1>2. {"loop", "compute", "stop", "resume", "predict", "check", "telemetry", "lifecycle"}
      \cup Blocks \subseteq Procs
  BY Named
<1>3. \A p \in {"predict", "compute"} \cup Blocks : At(p, "off")
  BY DEF RunInv
<1>4. \A p \in Procs : \A l :
        Goto(p, l) => pc'[p] = l /\ \A q \in Procs \ {p} : pc'[q] = pc[q]
  BY <1>1 DEF Goto, PcTypes
<1> DEFINE Calm ==
      /\ timer' = "armed" => timer = "armed"
      /\ scheduled' \subseteq scheduled /\ queue' \in {queue, << >>}
      /\ pc'["loop"] \in {pc["loop"], "off", "top"}
      /\ csc' = "DISABLED" => csc = "DISABLED" \/ timer' # "armed"
<1>5. ASSUME Calm PROVE TimerInv'
  BY <1>5 DEF TimerInv, Waits, TimerLabels
<1>6. CASE Resume \/ ResumeAsks
  <2>1. CASE ResumeRestarts
    BY <1>1, <1>2, <1>5, <2>1 DEF ResumeRestarts, LoopStarts, PcTypes
  <2>2. CASE ResumeAsks \/ ResumeRefused \/ ResumeChecks \/ ResumeSets
             \/ ToRunning("resume") \/ NotIdle("resume")
    BY <1>2, <1>4, <1>5, <2>2 DEF ResumeAsks, ResumeRefused, ResumeChecks, ResumeSets, ToRunning,
       NotIdle, life, work, aims
  <2> QED
    BY <1>6, <2>1, <2>2 DEF Resume
<1>7. CASE (Stop /\ ~StopKills) \/ StopAsks \/ StopTimesOut
  <2>1. CASE StopAsks \/ StopTimesOut \/ StopClears \/ ToIdle("stop") \/ NotRunning("stop")
    BY <1>2, <1>4, <1>5, <2>1 DEF StopAsks, StopTimesOut, StopClears, ToIdle, NotRunning, life,
       work, aims
  <2>2. CASE StopCleansUp
    BY <1>2, <1>4, <1>5, <2>2 DEF StopCleansUp, StopForgets, aims
  <2>3. CASE StopCancelsTimer
    BY <1>2, <1>4, <1>5, <2>3 DEF StopCancelsTimer, Cancelled, life, work
  <2>4. CASE StopFinishes
    BY <1>1, <1>2, <1>5, <2>4 DEF StopFinishes, LoopStarts, PcTypes
  <2> QED
    BY <1>7, <2>1, <2>2, <2>3, <2>4 DEF Stop
<1>8. ASSUME NEW p \in Workers, Killed(p), UNCHANGED <<csc, timer, scheduled, queue>>
      PROVE  TimerInv'
  <2>1. p \in Procs /\ (p = "loop" => Resting(p) = "off")
    BY Named DEF Workers, Procs, Resting
  <2> QED
    BY <1>2, <1>4, <1>5, <1>8, <2>1 DEF Killed
<1>9. CASE StopKills \/ \E p \in Workers : LifecycleKills(p)
  BY <1>8, <1>9 DEF StopKills, LifecycleKills, Workers, aims
<1>10. CASE ScriptEvent \/ CheckTargets
  BY <1>2, <1>4, <1>5, <1>10 DEF ScriptEvent, CheckTargets, Observes, Discards, DiscardFails,
     Cancelled, life, work, aims
<1>11. CASE Telemetry \/ TelemetryFails
  BY <1>2, <1>4, <1>5, <1>11 DEF Telemetry, TelemetryFails, InfoAsks, InfoPublishes, TelemetryEnds,
     Faults, CleansUpRegardless, life, work, aims
<1>12. CASE LoopSteps
  <2>1. csc' = "DISABLED" => csc = "DISABLED" /\ pc["loop"] \in {"off", "top"}
    <3>1. csc' \in {csc, "FAULT"}
      BY <1>12 DEF LoopSteps, LoopTop, LoopWaits, LoopWaited, LoopPasses, LoopUnpauses, LoopLocks,
         LoopGenerates, LoopGenerated, LoopGenerateFails, LoopChecks, LoopCheckFails, LoopDecides,
         LoopPredicts, LoopPredicted, LoopPredictFails, LoopSleeps, LoopFails, Faults, QueueTakes,
         QueueRefused, QueuePuts, QueueFails, life
    <3> QED
      BY <1>1, <3>1 DEF TasksOK
  <2>2. CASE LoopTop \/ LoopWaits \/ LoopWaited \/ LoopPasses \/ LoopUnpauses \/ LoopLocks
             \/ LoopGenerates \/ LoopGenerateFails \/ LoopPredicts \/ LoopPredicted
             \/ LoopPredictFails \/ LoopSleeps
    <3>1. /\ UNCHANGED <<timer, scheduled, queue>>
      BY <2>2 DEF LoopTop, LoopWaits, LoopWaited, LoopPasses, LoopUnpauses, LoopLocks,
         LoopGenerates, LoopGenerateFails, LoopPredicts, LoopPredicted, LoopPredictFails,
         LoopSleeps, work, aims
    <3>2. timer = "armed" => pc'["loop"] \in TimerLabels
      BY <1>2, <1>4, <2>2 DEF LoopTop, LoopWaits, LoopWaited, LoopPasses, LoopUnpauses, LoopLocks,
         LoopGenerates, LoopGenerateFails, LoopPredicts, LoopPredicted, LoopPredictFails,
         LoopSleeps, Enter, Exit, Refused, TimerInv, TimerLabels, At
    <3>3. Waits' => Waits \/ timer = "armed"
      BY <1>2, <1>4, <2>2 DEF LoopTop, LoopWaits, LoopWaited, LoopPasses, LoopUnpauses, LoopLocks,
         LoopGenerates, LoopGenerateFails, LoopPredicts, LoopPredicted, LoopPredictFails,
         LoopSleeps, Enter, Exit, Refused, Waits, At
    <3> QED
      BY <2>1, <3>1, <3>2, <3>3 DEF TimerInv
  <2>3. CASE LoopGenerated
    <3>1. pc'["loop"] = "checking" /\ scheduled' = scheduled /\ pc["loop"] = "GENERATING"
      BY <1>2, <1>4, <2>3 DEF LoopGenerated, Exit, At
    <3>2. timer' = "armed" => scheduled = {} /\ queue' = << >>
      <4>1. timer # "armed"
        BY <3>1 DEF TimerInv, TimerLabels
      <4> QED
        BY <2>3, <4>1 DEF LoopGenerated, Cancelled
    <3> QED
      BY <2>1, <3>1, <3>2 DEF TimerInv, TimerLabels, Waits
  <2>4. CASE LoopChecks \/ LoopCheckFails
    <3>1. pc'["loop"] \in {"deciding", "failed"} /\ csc' = csc
      BY <1>2, <1>4, <2>4 DEF LoopChecks, LoopCheckFails, life
    <3>2. /\ timer' = "armed" => timer = "armed"
          /\ scheduled' \subseteq scheduled /\ queue' \in {queue, << >>}
      BY <2>4 DEF LoopChecks, LoopCheckFails, Observes, Discards, DiscardFails, Cancelled
    <3> QED
      BY <3>1, <3>2 DEF TimerInv, TimerLabels, Waits
  <2>5. CASE LoopDecides
    <3>1. /\ UNCHANGED <<timer, scheduled, queue, csc>>
          /\ pc'["loop"] \in {"toQueue", "toPredict", "sleeping"}
          /\ pc'["loop"] = "toQueue" => queue # << >>
      BY <1>2, <1>4, <2>5 DEF LoopDecides, life, work
    <3> QED
      BY <3>1 DEF TimerInv, TimerLabels, Waits
  <2>6. CASE QueueTakes("loop") \/ QueueRefused("loop") \/ QueuePuts("loop") \/ QueueFails("loop")
    <3>1. pc["loop"] \in {"toQueue", "QUEUEING"} /\ UNCHANGED <<timer, csc>>
      BY <2>6 DEF QueueTakes, QueueRefused, QueuePuts, QueueFails, At, life, aims
    <3>2. timer # "armed"
      BY <3>1 DEF TimerInv, TimerLabels
    <3>3. pc'["loop"] \in {"QUEUEING", "failed", "top"}
      BY <1>2, <1>4, <2>6 DEF QueueTakes, QueueRefused, QueuePuts, QueueFails, Enter, AfterError,
         AfterWork
    <3> QED
      BY <3>1, <3>2, <3>3 DEF TimerInv, Waits
  <2>7. CASE LoopFails \/ Faults("loop")
    <3>1. /\ UNCHANGED <<timer, queue>> /\ scheduled' \subseteq scheduled
          /\ pc'["loop"] \in {"off", "faulting"}
      BY <1>2, <1>4, <2>7 DEF LoopFails, CleansUpRegardless, Faults, work, aims
    <3> QED
      BY <2>1, <3>1 DEF TimerInv, TimerLabels, Waits
  <2> QED
    BY <1>12, <2>2, <2>3, <2>4, <2>5, <2>6, <2>7 DEF LoopSteps
<1>13. CASE EnableBegins
  BY <1>1, <1>2, <1>5, <1>13 DEF EnableBegins, LoopStarts, PcTypes
<1>14. CASE StopTasks
  BY <1>2, <1>4, <1>5, <1>14 DEF StopTasks, work, aims
<1>15. CASE Settles
  BY <1>1, <1>2, <1>5, <1>15 DEF Settles, Cancelled, PcTypes, work
<1>16. CASE TimerEnds \/ FaultFlagMoves \/ \E i \in Items : ScriptsEnd(i)
  BY <1>5, <1>16 DEF TimerEnds, FaultFlagMoves, ScriptsEnd, life, work, aims
<1>17. CASE UNCHANGED vars
  BY <1>5, <1>17 DEF vars, life, work, aims
<1>18. ~PredictAsks /\ ~Predict /\ ~Compute /\ ~StopFails
  BY Alone
<1>19. \A b \in Blocks : ~Block(b) /\ ~AddAsks(b)
  BY Alone
<1> QED
  BY <1>6, <1>7, <1>9, <1>10, <1>11, <1>12, <1>13, <1>14, <1>15, <1>16, <1>17, <1>18, <1>19
     DEF Next, Lifecycle, Asks, Environment

(* In an enabled CSC the timer runs, and the loop waits for it, only while *)
(* RUNNING, or the wait, is published; a stop on its way to IDLE has       *)
(* cancelled the timer, and comes to it only after the loop has seen that. *)
(* Hence a loop that a resume has found alive, or has started, goes on.    *)
Up == csc = "ENABLED" /\ ~Settling
StopIdles == pc["stop"] \in {"toIdle", "idling"}

AliveInv ==
  /\ pc["stop"] \notin {"killing", "recleaning"}
  /\ StopIdles => StopInLock
  /\ Up =>
       /\ registered /\ runLoop
       /\ Waits \/ timer = "armed" => detailed # "IDLE"
       /\ timer = "armed" => ~StopIdles
       /\ At("loop", "toWait") /\ StopIdles => Ahead(dlock, "loop", "stop")
       /\ At("resume", "toRunning") /\ detailed = "IDLE" => Alive("loop")
       /\ runSet \/ At("resume", "running") => Alive("loop") /\ (Waits => timer # "cancelled")

LEMMA AliveStep ==
  ASSUME Patient, CoreInv, RunInv, IdleInv, TimerInv, AliveInv, [Next]_vars
  PROVE  AliveInv'
<1>1. PcTypes /\ LocksOK /\ TasksOK /\ DataTypes
  BY DEF CoreInv
<1>2. {"loop", "compute", "stop", "resume", "predict", "check", "telemetry", "lifecycle"}
      \cup Blocks \subseteq Procs
  BY Named
<1>3. \A p \in Procs : \A l :
        Goto(p, l) => pc'[p] = l /\ \A q \in Procs \ {p} : pc'[q] = pc[q]
  BY <1>1 DEF Goto, PcTypes
<1>4. ASSUME NEW p \in Procs, p # "stop", Step(p)
      PROVE  /\ pc'["stop"] \notin {"killing", "recleaning"}
             /\ StopIdles' => StopInLock'
             /\ StopIdles' <=> StopIdles
  <2>1. pc'["stop"] = pc["stop"]
    BY <1>2, <1>4 DEF Step, Alike
  <2>2. "stop" \in Range(tlock') <=> "stop" \in Range(tlock)
    BY <1>1, <1>4, StepKeeps
  <2> QED
    BY <2>1, <2>2 DEF AliveInv, StopInLock, StopIdles
<1>5. ASSUME NEW p \in Procs \ {"loop", "stop"}, Step(p), Ahead(dlock, "loop", "stop")
      PROVE  Ahead(dlock', "loop", "stop")
  BY <1>1, <1>5, AheadStays
<1>6. /\ Holds(dlock, "stop") => ~Ahead(dlock, "loop", "stop")
      /\ At("resume", "toRunning") \/ At("resume", "running") => ~StopInLock /\ ~At("stop", "cleaning")
      /\ At("loop", "GENERATING") => ~StopInLock
  <2>1. dlock \in Seq(Procs) /\ IsInjective(dlock)
    BY <1>1 DEF LocksOK, LockOK
  <2>2. Holds(dlock, "stop") => ~Ahead(dlock, "loop", "stop")
    BY <2>1, AheadWaits
  <2>3. StopInLock \/ At("stop", "cleaning") => Holds(tlock, "stop")
    BY <1>1, <1>2, Stands DEF StopInLock, At, UsesLoop
  <2>4. At("resume", "toRunning") \/ At("resume", "running") => Holds(tlock, "resume")
    BY <1>1, <1>2, Stands DEF At, UsesLoop
  <2>5. At("loop", "GENERATING") => Holds(tlock, "loop")
    BY <1>1, <1>2, Stands DEF At, UsesLoop, Body
  <2> QED
    BY <2>2, <2>3, <2>4, <2>5 DEF Holds
<1>7. ASSUME NEW p \in Procs, p # "stop", Step(p), ~Up' PROVE AliveInv'
  BY <1>4, <1>7 DEF AliveInv
<1>8. CASE Resume \/ ResumeAsks
  <2>1. Step("resume")
    BY <1>1, <1>8, ResumeSteps
  <2>2. /\ csc' = csc /\ registered' = registered /\ UNCHANGED timer
        /\ \A p \in Procs \ {"resume", "loop"} : pc'[p] = pc[p]
        /\ Up' <=> Up
    <3>1. csc' = csc /\ registered' = registered /\ UNCHANGED timer
      BY <1>8 DEF Resume, ResumeAsks, ResumeRefused, ResumeChecks, ResumeRestarts, ResumeSets,
         ToRunning, NotIdle, life, aims
    <3>2. \A p \in Procs \ {"resume", "loop"} : pc'[p] = pc[p]
      BY <2>1 DEF Step, Alike
    <3> QED
      BY <1>2, <3>1, <3>2, Named DEF Up, Settling, At
  <2>3. /\ pc'["stop"] \notin {"killing", "recleaning"}
        /\ StopIdles' => StopInLock'
        /\ StopIdles' <=> StopIdles
        /\ Ahead(dlock, "loop", "stop") => Ahead(dlock', "loop", "stop")
    BY <1>2, <1>4, <1>5, <2>1
  <2>4. ASSUME Up, detailed' = detailed, runLoop' = runLoop, runSet' = runSet,
               pc'["loop"] = pc["loop"], pc'["resume"] \notin {"toRunning", "running"}
        PROVE  AliveInv'
    BY <2>2, <2>3, <2>4 DEF AliveInv, Waits, At, Alive
  <2>5. CASE Up /\ (ResumeAsks \/ ResumeRefused \/ ResumeChecks \/ NotIdle("resume"))
    BY <1>2, <1>3, <2>4, <2>5 DEF ResumeAsks, ResumeRefused, ResumeChecks, NotIdle, life, switches
  <2>6. CASE Up /\ ResumeRestarts
    <3>1. pc'["resume"] = "toRunning" /\ detailed' = detailed
      BY <1>1, <1>2, <2>6 DEF ResumeRestarts, LoopStarts, PcTypes
    <3>2. CASE registered /\ ~Alive("loop")
      <4>1. pc'["loop"] = "top" /\ runSet' = FALSE /\ runLoop' = TRUE
        BY <1>1, <1>2, <2>6, <3>2 DEF ResumeRestarts, LoopStarts, PcTypes
      <4> QED
        BY <2>2, <2>3, <2>6, <3>1, <4>1 DEF AliveInv, Waits, At, Alive
    <3>3. CASE ~(registered /\ ~Alive("loop"))
      <4>1. pc'["loop"] = pc["loop"] /\ runSet' = runSet /\ runLoop' = runLoop
        BY <1>1, <1>2, <2>6, <3>3 DEF ResumeRestarts, PcTypes
      <4>2. Alive("loop")
        BY <2>6, <3>3 DEF AliveInv
      <4> QED
        BY <2>2, <2>3, <2>6, <3>1, <4>1, <4>2 DEF AliveInv, Waits, At, Alive
    <3> QED
      BY <3>2, <3>3
  <2>7. CASE Up /\ ResumeSets
    <3>1. /\ pc["resume"] = "running" /\ pc'["resume"] = "off" /\ pc'["loop"] = pc["loop"]
          /\ detailed' = detailed /\ runLoop' = runLoop
      BY <1>2, <1>3, <2>7 DEF ResumeSets, At, life
    <3> QED
      BY <2>2, <2>3, <2>7, <3>1 DEF AliveInv, Waits, At, Alive
  <2>8. CASE Up /\ ToRunning("resume")
    <3>1. /\ pc["resume"] = "toRunning" /\ pc'["resume"] = "running" /\ pc'["loop"] = pc["loop"]
          /\ detailed = "IDLE" /\ detailed' = "RUNNING" /\ runLoop' = runLoop /\ runSet' = runSet
      BY <1>2, <1>3, <2>8 DEF ToRunning, At, life, switches
    <3> QED
      BY <2>2, <2>3, <2>8, <3>1 DEF AliveInv, Waits, At, Alive
  <2> QED
    BY <1>2, <1>7, <1>8, <2>1, <2>2, <2>5, <2>6, <2>7, <2>8, Named DEF Resume
<1>9. CASE (Stop /\ ~StopKills) \/ StopAsks \/ StopTimesOut
  <2>1. Step("stop") /\ ~StopTimesOut
    BY <1>1, <1>9, StopSteps DEF Patient, StopTimesOut
  <2>2. CASE StopAsks \/ StopClears
    <3>1. /\ UNCHANGED <<csc, registered, runLoop, timer, detailed, dlock>>
          /\ runSet' => runSet
          /\ pc'["stop"] \in {"acking", "wantLoop"} /\ \A q \in Procs \ {"stop"} : pc'[q] = pc[q]
      BY <1>2, <1>3, <2>2 DEF StopAsks, StopClears, life, switches, aims
    <3> QED
      BY <1>2, <3>1, Named DEF AliveInv, StopIdles, Up, Settling, Waits, At, Alive
  <2>3. CASE StopCleansUp
    <3>1. pc["stop"] = "wantLoop"
      BY <2>3 DEF StopCleansUp, StopForgets, AliveInv, At
    <3>2. /\ pc'["stop"] = "cleaning" /\ \A q \in Procs \ {"stop"} : pc'[q] = pc[q]
      BY <1>2, <1>3, <2>3, <3>1 DEF StopCleansUp, StopForgets, At
    <3>3. /\ UNCHANGED <<csc, registered, runLoop, timer, detailed, dlock, runSet>>
      BY <1>1, <2>3, <3>1 DEF StopCleansUp, StopForgets, switches, aims, At, DataTypes
    <3> QED
      BY <1>2, <3>1, <3>2, <3>3, Named DEF AliveInv, StopIdles, Up, Settling, Waits, At, Alive
  <2>4. CASE StopCancelsTimer
    <3>1. pc["stop"] = "cleaning"
      BY <2>4 DEF StopCancelsTimer, AliveInv
    <3>2. /\ pc'["stop"] = "toIdle" /\ \A q \in Procs \ {"stop"} : pc'[q] = pc[q]
          /\ UNCHANGED <<csc, registered, runLoop, detailed, runSet, tlock>>
          /\ timer' # "armed" /\ dlock' = Append(dlock, "stop")
      BY <1>2, <1>3, <2>4 DEF StopCancelsTimer, Cancelled, life, switches
    <3>3. StopInLock'
      BY <1>1, <1>2, <3>1, <3>2, Stands DEF StopInLock, UsesLoop
    <3>4. At("loop", "toWait") => Ahead(dlock', "loop", "stop")
      <4>1. At("loop", "toWait") => "loop" \in Range(dlock)
        BY <1>1, <1>2, Stands DEF At, StateLabels
      <4> QED
        BY <1>1, <3>2, <4>1, AheadOfLast DEF LocksOK, LockOK
    <3>5. Up => ~runSet /\ ~At("resume", "running")
      BY <1>6, <3>1 DEF IdleInv, Up, At
    <3> QED
      BY <1>2, <3>2, <3>3, <3>4, <3>5, Named DEF AliveInv, StopIdles, Up, Settling, Waits, At, Alive
  <2>5. CASE StopFinishes
    <3>1. pc["stop"] = "idling" /\ StopInLock
      BY <2>5 DEF StopFinishes, AliveInv, StopIdles, At
    <3>2. Holds(tlock, "stop")
      BY <1>1, <1>2, <3>1, Stands DEF StopInLock, At
    <3>3. /\ pc'["stop"] = "off" /\ \A q \in Procs \ {"stop"} : pc'[q] = pc[q]
          /\ UNCHANGED <<csc, registered, runLoop, timer, detailed, runSet>>
      BY <1>1, <1>2, <2>5, <3>2 DEF StopFinishes, PcTypes
    <3> QED
      BY <1>2, <3>3, Named DEF AliveInv, StopIdles, Up, Settling, Waits, At, Alive
  <2>6. CASE ToIdle("stop")
    <3>1. /\ pc["stop"] = "toIdle" /\ pc'["stop"] = "idling"
          /\ \A q \in Procs \ {"stop"} : pc'[q] = pc[q]
          /\ UNCHANGED <<csc, registered, runLoop, timer, runSet, tlock, dlock>>
          /\ detailed' = "IDLE" /\ Holds(dlock, "stop")
      BY <1>2, <1>3, <2>6 DEF ToIdle, At, life, switches, aims
    <3>2. StopInLock /\ StopInLock'
      BY <3>1 DEF AliveInv, StopIdles, StopInLock
    <3>3. pc["loop"] \notin Operations /\ ~At("resume", "running") /\ ~At("resume", "toRunning")
      BY <1>1, <1>6, <3>1, <3>2, Exclusive
    <3>4. Up => ~Waits
      BY <1>6, <3>1, <3>3 DEF AliveInv, StopIdles, Waits, At, Operations
    <3> QED
      BY <1>2, <3>1, <3>2, <3>3, <3>4, Named DEF AliveInv, StopIdles, Up, Settling, Waits, At, Alive
  <2>7. CASE NotRunning("stop")
    <3>1. /\ pc'["stop"] = "off" /\ \A q \in Procs \ {"stop"} : pc'[q] = pc[q]
          /\ UNCHANGED <<csc, registered, runLoop, timer, detailed, runSet>>
      BY <1>2, <1>3, <2>7 DEF NotRunning, life, switches, aims
    <3> QED
      BY <1>2, <3>1, Named DEF AliveInv, StopIdles, Up, Settling, Waits, At, Alive
  <2> QED
    BY <1>9, <2>1, <2>2, <2>3, <2>4, <2>5, <2>6, <2>7 DEF Stop
<1>10. CASE StopKills \/ \E p \in Workers : LifecycleKills(p)
  <2>1. PICK p \in Workers : LifecycleKills(p)
    BY <1>10 DEF StopKills, AliveInv, At
  <2>2. p \in Procs /\ p # "stop" /\ Step(p)
    BY <1>1, <2>1, KilledSteps, Named DEF LifecycleKills, Workers, Procs
  <2>3. ~Up'
    <3>1. pc["lifecycle"] = "settling" /\ p # "lifecycle"
      BY <2>1, Named DEF LifecycleKills, At, Workers
    <3>2. pc'["lifecycle"] = pc["lifecycle"]
      BY <1>2, <2>2, <3>1 DEF Step, Alike
    <3> QED
      BY <3>1, <3>2 DEF Up, Settling, At
  <2> QED
    BY <1>7, <2>2, <2>3
<1>11. CASE ScriptEvent \/ CheckTargets
  <2>1. Step("check")
    BY <1>1, <1>11, CheckSteps
  <2>2. /\ UNCHANGED <<csc, registered, runLoop, detailed, runSet>>
        /\ \A q \in Procs \ {"check"} : pc'[q] = pc[q]
    BY <1>2, <1>3, <1>11 DEF ScriptEvent, CheckTargets, life, switches
  <2>3. timer' = timer \/ (timer' # "armed" /\ scheduled # {})
    BY <1>11 DEF ScriptEvent, CheckTargets, Observes, Discards, DiscardFails, Cancelled, aims
  <2>4. scheduled # {} => ~Waits
    BY DEF TimerInv
  <2>5. /\ pc'["stop"] \notin {"killing", "recleaning"}
        /\ StopIdles' => StopInLock'
        /\ StopIdles' <=> StopIdles
        /\ Ahead(dlock, "loop", "stop") => Ahead(dlock', "loop", "stop")
    BY <1>2, <1>4, <1>5, <2>1
  <2> QED
    BY <1>2, <2>2, <2>3, <2>4, <2>5, Named DEF AliveInv, Up, Settling, Waits, At, Alive
<1>12. CASE Telemetry \/ TelemetryFails
  <2>1. Step("telemetry")
    BY <1>1, <1>12, TelemetrySteps
  <2>2. CASE Faults("telemetry")
    BY <1>2, <1>7, <2>1, <2>2, Named DEF Faults, Up
  <2>3. CASE ~Faults("telemetry")
    <3>1. /\ UNCHANGED <<csc, registered, runLoop, detailed, runSet, timer>>
          /\ \A q \in Procs \ {"telemetry"} : pc'[q] = pc[q]
      BY <1>2, <1>3, <1>12, <2>3 DEF Telemetry, TelemetryFails, InfoAsks, InfoPublishes,
         TelemetryEnds, life, switches, aims
    <3>2. /\ pc'["stop"] \notin {"killing", "recleaning"}
          /\ StopIdles' => StopInLock'
          /\ StopIdles' <=> StopIdles
          /\ Ahead(dlock, "loop", "stop") => Ahead(dlock', "loop", "stop")
      BY <1>2, <1>4, <1>5, <2>1
    <3> QED
      BY <1>2, <3>1, <3>2, Named DEF AliveInv, Up, Settling, Waits, At, Alive
  <2> QED
    BY <2>2, <2>3
<1>13. CASE LoopSteps
  <2>1. Step("loop") /\ "loop" # "stop" /\ "loop" \in Procs
    BY <1>1, <1>2, <1>13, LoopTurns
  <2>2. /\ UNCHANGED <<registered, runLoop, runSet>>
        /\ \A q \in Procs \ {"loop"} : pc'[q] = pc[q]
    <3>1. UNCHANGED <<registered, runLoop, runSet>> /\ \E l : Goto("loop", l)
      BY <1>13 DEF LoopSteps, LoopTop, LoopWaits, LoopWaited, LoopPasses, LoopUnpauses, LoopLocks,
         LoopGenerates, LoopGenerated, LoopGenerateFails, LoopChecks, LoopCheckFails, LoopDecides,
         LoopPredicts, LoopPredicted, LoopPredictFails, LoopSleeps, LoopFails, Faults, QueueTakes,
         QueueRefused, QueuePuts, QueueFails, Enter, Exit, Refused, life, switches
    <3> QED
      BY <1>2, <1>3, <3>1
  <2>3. /\ pc'["stop"] \notin {"killing", "recleaning"}
        /\ StopIdles' => StopInLock'
        /\ StopIdles' <=> StopIdles
    BY <1>4, <2>1
  <2>4. CASE ~Up'
    BY <1>7, <2>1, <2>4
  <2>5. CASE Faults("loop")
    BY <2>4, <2>5 DEF Faults, Up
  <2> SUFFICES ASSUME Up', ~Faults("loop") PROVE AliveInv'
    BY <2>4, <2>5
  <2>6. csc' = csc /\ Up
    <3>1. csc' = csc
      BY <1>13 DEF LoopSteps, LoopTop, LoopWaits, LoopWaited, LoopPasses, LoopUnpauses, LoopLocks,
         LoopGenerates, LoopGenerated, LoopGenerateFails, LoopChecks, LoopCheckFails, LoopDecides,
         LoopPredicts, LoopPredicted, LoopPredictFails, LoopSleeps, LoopFails, QueueTakes,
         QueueRefused, QueuePuts, QueueFails, life
    <3> QED
      BY <1>2, <2>2, <3>1, Named DEF Up, Settling, At
  <2>7. ASSUME pc'["loop"] \notin {"off", "toWait"},
               detailed' = detailed \/ detailed' # "IDLE",
               pc'["loop"] = "WAITING" => detailed' # "IDLE" /\ timer' = timer /\ Waits,
               timer' = "armed" => timer = "armed" \/ (detailed' # "IDLE" /\ ~StopIdles)
        PROVE  AliveInv'
    BY <1>2, <2>2, <2>3, <2>6, <2>7, Named DEF AliveInv, Waits, At, Alive
  <2>8. \A l : Goto("loop", l) => pc'["loop"] = l
    BY <1>2, <1>3
  <2>9. CASE LoopPasses \/ LoopUnpauses \/ LoopLocks \/ LoopDecides \/ LoopSleeps
    BY <2>7, <2>8, <2>9 DEF LoopPasses, LoopUnpauses, LoopLocks, LoopDecides, LoopSleeps, aims
  <2>10. CASE LoopChecks \/ LoopCheckFails
    BY <2>7, <2>8, <2>10 DEF LoopChecks, LoopCheckFails, Observes, Discards, DiscardFails, Cancelled
  <2>11. CASE LoopFails
    <3>1. pc'["loop"] = "faulting"
      BY <2>6, <2>8, <2>11 DEF LoopFails, AliveInv, Up
    <3> QED
      BY <2>7, <2>11, <3>1 DEF LoopFails, aims
  <2>12. CASE LoopTop
    <3>1. csc = "ENABLED" /\ runLoop
      BY <2>6 DEF AliveInv, Up
    <3>2. CASE timer = "armed"
      <4>1. pc'["loop"] = "toWait" /\ UNCHANGED <<timer, detailed>>
        BY <2>8, <2>12, <3>1, <3>2 DEF LoopTop, aims
      <4> QED
        BY <1>2, <2>2, <2>3, <2>6, <3>2, <4>1, Named DEF AliveInv, Waits, At, Alive
    <3>3. CASE timer # "armed"
      <4>1. pc'["loop"] = "gate" /\ UNCHANGED <<timer, detailed>>
        BY <2>8, <2>12, <3>1, <3>3 DEF LoopTop, aims
      <4> QED
        BY <2>7, <4>1
    <3> QED
      BY <3>2, <3>3
  <2>13. CASE LoopWaits
    <3>1. /\ pc["loop"] = "toWait" /\ detailed # "IDLE" /\ UNCHANGED timer
      BY <2>6, <2>13 DEF LoopWaits, AliveInv, Waits, At, aims
    <3>2. detailed = "RUNNING"
      BY <1>1, <3>1 DEF RunInv, DataTypes, DetailedStates, Operations
    <3>3. pc'["loop"] = "WAITING" /\ detailed' = "WAITING"
      BY <2>8, <2>13, <3>2 DEF LoopWaits, Enter, Refused
    <3> QED
      BY <2>7, <3>1, <3>3 DEF Waits
  <2>14. CASE LoopWaited
    <3>1. /\ pc["loop"] = "WAITING" /\ detailed' = "RUNNING" /\ UNCHANGED timer /\ timer # "armed"
          /\ pc'["loop"] = IF timer = "cancelled" THEN "off" ELSE "gate"
      BY <2>8, <2>14 DEF LoopWaited, Exit, At, aims
    <3>2. CASE timer = "cancelled"
      <4>1. ~runSet /\ ~At("resume", "running")
        BY <2>6, <3>1, <3>2 DEF AliveInv, Waits
      <4> QED
        BY <1>2, <2>2, <2>3, <2>6, <3>1, <3>2, <4>1, Named DEF AliveInv, Waits, At, Alive
    <3>3. CASE timer # "cancelled"
      BY <2>7, <3>1, <3>3
    <3> QED
      BY <3>2, <3>3
  <2>15. CASE LoopGenerates \/ LoopPredicts
    BY <2>7, <2>8, <2>15 DEF LoopGenerates, LoopPredicts, Enter, Refused, aims
  <2>16. CASE LoopGenerated
    <3>1. pc["loop"] = "GENERATING" /\ pc'["loop"] = "checking" /\ detailed' = "RUNNING"
      BY <2>8, <2>16 DEF LoopGenerated, Exit, At
    <3>2. ~StopIdles
      BY <1>6, <3>1 DEF AliveInv, At
    <3> QED
      BY <2>7, <3>1, <3>2
  <2>17. CASE LoopGenerateFails \/ LoopPredicted \/ LoopPredictFails
    BY <2>7, <2>8, <2>17 DEF LoopGenerateFails, LoopPredicted, LoopPredictFails, Exit, aims
  <2>18. CASE QueueTakes("loop") \/ QueueRefused("loop") \/ QueuePuts("loop") \/ QueueFails("loop")
    <3>1. pc'["loop"] \in {"QUEUEING", "failed", "top"} /\ UNCHANGED timer
      BY <2>8, <2>18 DEF QueueTakes, QueueRefused, QueuePuts, QueueFails, Enter, AfterError,
         AfterWork, aims
    <3>2. detailed' = detailed \/ detailed' # "IDLE"
      BY <2>18 DEF QueueTakes, QueueRefused, QueuePuts, QueueFails, Enter
    <3> QED
      BY <2>7, <3>1, <3>2
  <2> QED
    BY <1>13, <2>9, <2>10, <2>11, <2>12, <2>13, <2>14, <2>15, <2>16, <2>17, <2>18 DEF LoopSteps
<1>14. CASE EnableBegins
  <2>1. /\ csc' = "ENABLED" /\ registered' = TRUE /\ runLoop' = TRUE /\ runSet' = FALSE
        /\ timer' = timer /\ csc = "DISABLED"
        /\ pc'["loop"] = "top" /\ \A q \in Procs \ {"loop"} : pc'[q] = pc[q]
        /\ pc["stop"] = "off" /\ pc["resume"] = "off"
    BY <1>1, <1>2, <1>14 DEF EnableBegins, LoopStarts, PcTypes, Quiet, At, Allowed, StopLabels,
       ResumeLabels
  <2>2. timer # "armed"
    BY <2>1 DEF TimerInv
  <2> QED
    BY <1>2, <2>1, <2>2, Named DEF AliveInv, StopIdles, Waits, At, Alive
<1>15. CASE StopTasks
  <2>1. Step("lifecycle")
    BY <1>1, <1>15, LifecycleSteps
  <2> QED
    BY <1>2, <1>3, <1>7, <1>15, <2>1, Named DEF StopTasks, Up, Settling, At
<1>16. CASE Settles
  <2>1. csc' = "DISABLED" /\ tlock' = tlock /\ pc'["stop"] = pc["stop"]
    BY <1>1, <1>2, <1>16, Named DEF Settles, PcTypes
  <2> QED
    BY <2>1 DEF AliveInv, Up, StopIdles, StopInLock
<1>17. CASE TimerEnds \/ FaultFlagMoves \/ \E i \in Items : ScriptsEnd(i)
  BY <1>17 DEF TimerEnds, FaultFlagMoves, ScriptsEnd, life, switches, aims, AliveInv, Up, Settling,
     StopIdles, StopInLock, Waits, At, Alive
<1>18. CASE UNCHANGED vars
  BY <1>18 DEF vars, life, switches, aims, AliveInv, Up, Settling, StopIdles, StopInLock, Waits,
     At, Alive
<1>19. ~PredictAsks /\ ~Predict /\ ~Compute /\ ~StopFails
  BY Alone DEF Patient
<1>20. \A b \in Blocks : ~Block(b) /\ ~AddAsks(b)
  BY Alone DEF Patient
<1> QED
  BY <1>8, <1>9, <1>10, <1>11, <1>12, <1>13, <1>14, <1>15, <1>16, <1>17, <1>18, <1>19, <1>20
     DEF Next, Lifecycle, Asks, Environment

(* A loop that has been resumed runs, however resumes, stops, faults and   *)
(* the end of the timer follow each other, if no stop outlasts             *)
(* loop_die_timeout (do_resume, do_stop, advance_target_production_loop),  *)
(* and the loop is alone: no predictions, added blocks or failing removals.*)
THEOREM ResumedRuns ==
  ASSUME Patient
  PROVE  Spec => []ResumedLoopRuns
<1>1. ASSUME Init PROVE TimerInv /\ AliveInv
  <2>1. /\ csc = "DISABLED" /\ timer = "done" /\ pc["loop"] = "off" /\ pc["stop"] = "off"
    BY <1>1, Named DEF Init
  <2> QED
    BY <2>1 DEF TimerInv, AliveInv, Waits, Up, StopIdles
<1>2. CoreInv /\ RunInv /\ IdleInv /\ TimerInv /\ AliveInv /\ [Next]_vars
      => TimerInv' /\ AliveInv'
  BY TimerStep, AliveStep DEF Patient
<1>3. ASSUME AliveInv PROVE ResumedLoopRuns
  BY <1>3 DEF AliveInv, ResumedLoopRuns, Up, Settled, Settling, At
<1>4. Spec => [](CoreInv /\ RunInv /\ IdleInv)
  BY RunHolds DEF Patient
<1> QED
  BY <1>1, <1>2, <1>3, <1>4, PTL DEF Spec
================================================================================
