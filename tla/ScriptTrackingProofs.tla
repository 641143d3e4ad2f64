------------------------- MODULE ScriptTrackingProofs -------------------------
(***************************************************************************)
(* What script events, checks and removals keep true of the targets the    *)
(* Scheduler CSC has sent, proved for every set of targets, size of their  *)
(* blocks, max_scripts, capacity and n_targets.                            *)
(***************************************************************************)
EXTENDS ScriptTracking, FiniteSetTheorems, WellFoundedInduction, TLAPS

(***************************************************************************)
(* Counting, and the entries picked from a sequence.                       *)
(***************************************************************************)
LEMMA Least ==
  ASSUME NEW T, T # {}, \A k \in T : k \in Nat
  PROVE  \E m \in T : \A k \in T : m <= k
<1>1. PICK m \in T : \A k \in T : <<k, m>> \notin OpToRel(<, Nat)
  BY NatLessThanWellFounded, WFMin
<1>2. ASSUME NEW k \in T PROVE m <= k
  <2>1. <<k, m>> \in Nat \X Nat /\ ~(<<k, m>>[1] < <<k, m>>[2])
    BY <1>1 DEF OpToRel
  <2> QED
    BY <2>1
<1> QED
  BY <1>1, <1>2

LEMMA UpToFinite ==
  ASSUME NEW n \in Nat
  PROVE  IsFiniteSet(1..n) /\ Cardinality(1..n) = n
BY FS_Interval

(* The n-th smallest of a set of positions.                                *)
LEMMA Nth ==
  ASSUME NEW top \in Nat, NEW ks, \A j \in ks : j \in 1..top, NEW n \in 1..Cardinality(ks)
  PROVE  \E k \in ks : Cardinality({j \in ks : j <= k}) = n
<1>0. \A j \in ks : j \in Nat /\ 1 <= j /\ j <= top
  OBVIOUS
<1>1. IsFiniteSet(ks) /\ Cardinality(ks) \in Nat
  <2>1. IsFiniteSet(1..top)
    BY UpToFinite
  <2> QED
    BY <2>1, FS_Subset, FS_CardinalityType
<1> DEFINE UpTo(k) == {j \in ks : j <= k}
           T == {k \in 1..top : n <= Cardinality(UpTo(k))}
<1>2. ASSUME NEW k \in Nat
      PROVE  IsFiniteSet(UpTo(k)) /\ Cardinality(UpTo(k)) \in Nat
  BY <1>1, FS_Subset, FS_CardinalityType
<1>3. top \in T
  <2>1. UpTo(top) = ks
    BY <1>0
  <2>2. ks # {}
    BY <1>1, FS_EmptySet
  <2>3. top # 0
    BY <1>0, <2>2
  <2> QED
    BY <1>1, <2>1, <2>3
<1>4. PICK m \in T : \A k \in T : m <= k
  <2> HIDE DEF T
  <2>1. T # {}
    BY <1>3
  <2>2. \A k \in T : k \in Nat
    BY DEF T
  <2> QED
    BY <2>1, <2>2, Least
<1> HIDE DEF UpTo
<1>5. m \in 1..top /\ n <= Cardinality(UpTo(m)) /\ m - 1 \in Nat
  BY <1>4
<1>6. Cardinality(UpTo(m - 1)) < n
  <2>1. CASE m = 1
    <3>1. UpTo(0) = {}
      BY <1>0 DEF UpTo
    <3> QED
      BY <2>1, <3>1, FS_EmptySet
  <2>2. CASE m # 1
    <3>1. m - 1 \notin T
      BY <1>4, <1>5
    <3> QED
      BY <1>2, <1>5, <2>2, <3>1
  <2> QED
    BY <2>1, <2>2
<1>7. m \in ks
  <2> SUFFICES ASSUME m \notin ks PROVE FALSE
    OBVIOUS
  <2>1. UpTo(m) = UpTo(m - 1)
    BY <1>0, <1>5 DEF UpTo
  <2> QED
    BY <1>2, <1>5, <1>6, <2>1
<1>8. Cardinality(UpTo(m)) = Cardinality(UpTo(m - 1)) + 1
  <2>1. m \in Nat /\ ~(m <= m - 1)
    BY <1>5
  <2>2. \A j \in ks : j <= m <=> j <= m - 1 \/ j = m
    BY <1>0, <1>5
  <2>3. UpTo(m) = UpTo(m - 1) \cup {m} /\ m \notin UpTo(m - 1)
    BY <1>7, <2>1, <2>2 DEF UpTo
  <2> QED
    BY <1>2, <1>5, <2>3, FS_AddElement
<1>9. Cardinality(UpTo(m)) = n
  BY <1>2, <1>5, <1>6, <1>8
<1> QED
  BY <1>7, <1>9 DEF UpTo

(* What is picked is in the sequence, each entry at most once.             *)
LEMMA PickedEntries ==
  ASSUME NEW S, NEW s \in Seq(S), NEW ks, \A k \in ks : k \in DOMAIN s
  PROVE  /\ Picked(s, ks) \in Seq(S) /\ Len(Picked(s, ks)) <= Len(s)
         /\ \A m, n \in DOMAIN Picked(s, ks) : \E j, k \in ks :
              Picked(s, ks)[m] = s[j] /\ Picked(s, ks)[n] = s[k] /\ (j = k => m = n)
<1>1. Len(s) \in Nat /\ \A k \in ks : k \in 1..Len(s)
  OBVIOUS
<1>2. Cardinality(ks) \in Nat /\ Cardinality(ks) <= Len(s)
  <2>1. IsFiniteSet(1..Len(s)) /\ Cardinality(1..Len(s)) = Len(s)
    BY <1>1, UpToFinite
  <2> QED
    BY <1>1, <2>1, FS_Subset, FS_CardinalityType
<1> DEFINE at(n) == CHOOSE k \in ks : Cardinality({j \in ks : j <= k}) = n
<1>3. ASSUME NEW n \in 1..Cardinality(ks)
      PROVE  at(n) \in ks /\ Cardinality({j \in ks : j <= at(n)}) = n
  <2>1. \E k \in ks : Cardinality({j \in ks : j <= k}) = n
    BY <1>1, Nth
  <2> QED
    BY <2>1
<1> HIDE DEF at
<1>4. Picked(s, ks) = [n \in 1..Cardinality(ks) |-> s[at(n)]]
  BY DEF Picked, at
<1>5. ASSUME NEW n \in 1..Cardinality(ks) PROVE s[at(n)] \in S
  <2>1. at(n) \in 1..Len(s)
    BY <1>1, <1>3
  <2> QED
    BY <2>1
<1>6. Picked(s, ks) \in Seq(S) /\ Len(Picked(s, ks)) <= Len(s)
  BY <1>2, <1>4, <1>5
<1>7. ASSUME NEW m \in DOMAIN Picked(s, ks), NEW n \in DOMAIN Picked(s, ks)
      PROVE  \E j, k \in ks :
               Picked(s, ks)[m] = s[j] /\ Picked(s, ks)[n] = s[k] /\ (j = k => m = n)
  <2>1. /\ Picked(s, ks)[m] = s[at(m)] /\ at(m) \in ks
        /\ Picked(s, ks)[n] = s[at(n)] /\ at(n) \in ks
    BY <1>3, <1>4
  <2>2. at(m) = at(n) => m = n
    BY <1>3, <1>4
  <2> QED
    BY <2>1, <2>2
<1> QED
  BY <1>6, <1>7

(***************************************************************************)
(* The ScriptQueue and its samples.                                        *)
(***************************************************************************)
States == {"live"} \cup Finals
Scripts == [of : Targets \cup {Nobody}, state : States]
Samples(last) == [index : 1..last, state : States]

(* A sample that says how a script ended is right.                         *)
Right(s) ==
  \A k \in DOMAIN s : s[k].state \in Finals => onQueue[s[k].index].state = s[k].state

QueueTypes ==
  /\ onQueue \in Seq(Scripts)
  /\ events \in Seq(Samples(Len(onQueue))) /\ Right(events)

(* No script is taken back, or ends twice; a new one is the target's that  *)
(* is being sent, or nobody's.                                             *)
QueueGrows ==
  /\ Len(onQueue) <= Len(onQueue')
  /\ \A i \in DOMAIN onQueue :
       /\ onQueue'[i].of = onQueue[i].of
       /\ onQueue[i].state # "live" => onQueue'[i].state = onQueue[i].state
  /\ \A i \in DOMAIN onQueue' \ DOMAIN onQueue :
       /\ i = Len(onQueue) + 1 /\ onQueue'[i].state = "live"
       /\ onQueue'[i].of = Nobody \/ (onQueue'[i].of \in Targets /\ QueueAccepted(onQueue'[i].of))

LEMMA MoreSamples ==
  ASSUME NEW m \in Nat, NEW n \in Nat, m <= n, NEW s \in Seq(Samples(m))
  PROVE  s \in Seq(Samples(n))
<1>1. ASSUME NEW k \in 1..Len(s) PROVE s[k] \in Samples(n)
  <2>1. s[k] \in Samples(m)
    OBVIOUS
  <2>2. \A i \in 1..m : i \in 1..n
    OBVIOUS
  <2> QED
    BY <2>1, <2>2 DEF Samples
<1> QED
  BY <1>1

(* A sample tells the state of its script for good.                        *)
LEMMA StayRight ==
  ASSUME QueueTypes, QueueGrows, NEW s \in Seq(Samples(Len(onQueue))), Right(s),
         onQueue' \in Seq(Scripts)
  PROVE  /\ s \in Seq(Samples(Len(onQueue')))
         /\ \A k \in DOMAIN s : s[k].state \in Finals => onQueue'[s[k].index].state = s[k].state
<1>1. s \in Seq(Samples(Len(onQueue')))
  BY MoreSamples DEF QueueTypes, QueueGrows
<1>2. ASSUME NEW k \in DOMAIN s, s[k].state \in Finals
      PROVE  onQueue'[s[k].index].state = s[k].state
  <2>1. s[k] \in Samples(Len(onQueue))
    OBVIOUS
  <2>2. s[k].index \in DOMAIN onQueue
    BY <2>1 DEF QueueTypes, Samples
  <2> QED
    BY <1>2, <2>2 DEF Right, QueueGrows, Finals
<1> QED
  BY <1>1, <1>2

LEMMA AddedStep ==
  ASSUME QueueTypes, NEW owner \in Targets \cup {Nobody}, Added(owner),
         owner = Nobody \/ QueueAccepted(owner)
  PROVE  QueueGrows /\ QueueTypes'
<1>1. /\ onQueue' \in Seq(Scripts) /\ Len(onQueue') = Len(onQueue) + 1 /\ Len(onQueue) \in Nat
      /\ \A i \in DOMAIN onQueue : onQueue'[i] = onQueue[i]
      /\ onQueue'[Len(onQueue) + 1] = [of |-> owner, state |-> "live"]
  <2>1. [of |-> owner, state |-> "live"] \in Scripts
    BY DEF Scripts, States
  <2> QED
    BY <2>1 DEF Added, QueueTypes
<1>2. QueueGrows
  BY <1>1 DEF QueueGrows, QueueTypes
<1>3. events \in Seq(Samples(Len(onQueue')))
      /\ \A k \in DOMAIN events :
           events[k].state \in Finals => onQueue'[events[k].index].state = events[k].state
  BY <1>1, <1>2, StayRight DEF QueueTypes
<1>4. [index |-> Len(onQueue'), state |-> "live"] \in Samples(Len(onQueue'))
  BY <1>1 DEF Samples, States
<1>5. events' \in Seq(Samples(Len(onQueue')))
  BY <1>3, <1>4 DEF Added
<1>6. Right(events)'
  <2>1. \A k \in DOMAIN events' : \/ k \in DOMAIN events /\ events'[k] = events[k]
                                  \/ events'[k].state = "live"
    BY <1>3 DEF Added
  <2> QED
    BY <1>3, <2>1 DEF Right, Finals
<1> QED
  BY <1>1, <1>2, <1>5, <1>6 DEF QueueTypes

LEMMA EndedStep ==
  ASSUME QueueTypes, NEW i \in DOMAIN onQueue, ScriptEnds(i)
  PROVE  QueueGrows /\ QueueTypes'
<1>1. PICK final \in Finals : /\ onQueue' = [onQueue EXCEPT ![i].state = final]
                              /\ events' = Append(events, [index |-> i, state |-> final])
  BY DEF ScriptEnds, Finals
<1>2. onQueue[i] \in Scripts /\ onQueue[i].state = "live"
  BY DEF QueueTypes, ScriptEnds, Live
<1>3. [onQueue[i] EXCEPT !.state = final] \in Scripts
  BY <1>2 DEF Scripts, States
<1>4. /\ onQueue' \in Seq(Scripts) /\ Len(onQueue') = Len(onQueue)
      /\ \A j \in DOMAIN onQueue : j # i => onQueue'[j] = onQueue[j]
      /\ onQueue'[i].of = onQueue[i].of /\ onQueue'[i].state = final
  BY <1>1, <1>2, <1>3 DEF QueueTypes, Scripts
<1>5. QueueGrows
  BY <1>2, <1>4 DEF QueueGrows, QueueTypes
<1>6. events \in Seq(Samples(Len(onQueue')))
      /\ \A k \in DOMAIN events :
           events[k].state \in Finals => onQueue'[events[k].index].state = events[k].state
  BY <1>4, <1>5, StayRight DEF QueueTypes
<1>7. [index |-> i, state |-> final] \in Samples(Len(onQueue'))
  BY <1>4 DEF QueueTypes, Samples, States
<1>8. events' \in Seq(Samples(Len(onQueue')))
  BY <1>1, <1>6, <1>7
<1>9. Right(events)'
  BY <1>1, <1>4, <1>6 DEF Right
<1> QED
  BY <1>4, <1>5, <1>8, <1>9 DEF QueueTypes

LEMMA StoppedStep ==
  ASSUME QueueTypes, NEW ts, Stops(ts)
  PROVE  QueueGrows /\ QueueTypes'
<1>1. PICK spared \in {{}, {i \in Live : IsRunning(i)}} :
        LET stopped == {i \in Live : onQueue[i].of \in ts} \ spared IN
          /\ onQueue' = [i \in DOMAIN onQueue |->
               IF i \in stopped THEN [onQueue[i] EXCEPT !.state = "failed"] ELSE onQueue[i]]
          /\ \E order \in [1..Cardinality(stopped) -> stopped] :
               /\ IsInjective(order)
               /\ events' = events \o
                    [k \in DOMAIN order |-> [index |-> order[k], state |-> "failed"]]
  BY DEF Stops
<1> DEFINE stopped == {i \in Live : onQueue[i].of \in ts} \ spared
<1>2. PICK order \in [1..Cardinality(stopped) -> stopped] :
        events' = events \o [k \in DOMAIN order |-> [index |-> order[k], state |-> "failed"]]
  BY <1>1
<1>3. \A i \in stopped : i \in DOMAIN onQueue /\ onQueue[i].state = "live"
  BY DEF Live
<1>4. onQueue' = [i \in DOMAIN onQueue |->
               IF i \in stopped THEN [onQueue[i] EXCEPT !.state = "failed"] ELSE onQueue[i]]
  BY <1>1
<1> HIDE DEF stopped
<1>5. /\ onQueue' \in Seq(Scripts) /\ Len(onQueue') = Len(onQueue)
      /\ \A i \in DOMAIN onQueue : onQueue'[i].of = onQueue[i].of
      /\ \A i \in stopped : onQueue'[i].state = "failed"
      /\ \A i \in DOMAIN onQueue : i \notin stopped => onQueue'[i] = onQueue[i]
  <2>1. \A i \in DOMAIN onQueue : onQueue[i] \in Scripts
    BY DEF QueueTypes
  <2>2. \A i \in DOMAIN onQueue : onQueue'[i] \in Scripts /\ onQueue'[i].of = onQueue[i].of
    BY <1>4, <2>1 DEF Scripts, States, Finals
  <2>3. DOMAIN onQueue = 1..Len(onQueue) /\ Len(onQueue) \in Nat
    BY DEF QueueTypes
  <2>4. onQueue' \in [1..Len(onQueue) -> Scripts]
    BY <1>4, <2>2, <2>3
  <2>5. onQueue' \in Seq(Scripts) /\ Len(onQueue') = Len(onQueue)
    BY <2>3, <2>4
  <2>6. \A i \in stopped : onQueue'[i].state = "failed"
    BY <1>3, <1>4, <2>1 DEF Scripts
  <2> QED
    BY <1>4, <2>2, <2>5, <2>6
<1>6. QueueGrows
  BY <1>3, <1>5 DEF QueueGrows, QueueTypes
<1>7. events \in Seq(Samples(Len(onQueue')))
      /\ \A k \in DOMAIN events :
           events[k].state \in Finals => onQueue'[events[k].index].state = events[k].state
  BY <1>5, <1>6, StayRight DEF QueueTypes
<1> DEFINE more == [k \in DOMAIN order |-> [index |-> order[k], state |-> "failed"]]
<1>8. /\ more \in Seq(Samples(Len(onQueue')))
      /\ \A k \in DOMAIN more : onQueue'[more[k].index].state = more[k].state
  <2>1. \A k \in DOMAIN order : order[k] \in stopped
    BY <1>2
  <2>2. \A i \in stopped : i \in 1..Len(onQueue')
    BY <1>3, <1>5 DEF QueueTypes
  <2>3. \A k \in DOMAIN more : more[k] \in Samples(Len(onQueue'))
    BY <2>1, <2>2 DEF Samples, States, Finals
  <2>4. Cardinality(stopped) \in Nat
    <3>1. IsFiniteSet(1..Len(onQueue)) 
      BY UpToFinite DEF QueueTypes
    <3>2. stopped \in SUBSET (1..Len(onQueue))
      BY <1>3 DEF QueueTypes
    <3> QED
      BY <3>1, <3>2, FS_Subset, FS_CardinalityType
  <2>5. DOMAIN more = 1..Cardinality(stopped)
    BY <1>2
  <2>6. more \in [1..Cardinality(stopped) -> Samples(Len(onQueue'))]
    BY <2>3, <2>5
  <2> QED
    BY <1>5, <2>1, <2>4, <2>6
<1>9. events' = events \o more
  BY <1>2
<1> HIDE DEF more
<1>10. events' \in Seq(Samples(Len(onQueue')))
  BY <1>7, <1>8, <1>9
<1>11. ASSUME NEW k \in DOMAIN events', events'[k].state \in Finals
       PROVE  onQueue'[events'[k].index].state = events'[k].state
  <2>1. CASE k \in DOMAIN events
    BY <1>7, <1>8, <1>9, <1>11, <2>1
  <2>2. CASE k \notin DOMAIN events
    <3>1. k - Len(events) \in DOMAIN more /\ events'[k] = more[k - Len(events)]
      BY <1>7, <1>8, <1>9, <2>2
    <3> QED
      BY <1>8, <3>1
  <2> QED
    BY <2>1, <2>2
<1>12. Right(events)'
  BY <1>11 DEF Right
<1> QED
  BY <1>5, <1>6, <1>10, <1>12 DEF QueueTypes

LEMMA QueueStep ==
  ASSUME QueueTypes, [Next]_vars
  PROVE  QueueGrows /\ QueueTypes'
<1>1. CASE UNCHANGED queueSide
  <2>1. onQueue' = onQueue /\ events' = events
    BY <1>1 DEF queueSide
  <2> QED
    BY <2>1 DEF QueueGrows, QueueTypes, Right
<1>2. CASE Deliver
  <2>1. events' = Tail(events) /\ onQueue' = onQueue /\ events # << >>
    BY <1>2 DEF Deliver
  <2>2. events' \in Seq(Samples(Len(onQueue)))
    BY <2>1 DEF QueueTypes
  <2>3. \A k \in DOMAIN events' : k + 1 \in DOMAIN events /\ events'[k] = events[k + 1]
    BY <2>1 DEF QueueTypes
  <2>4. Right(events)'
    BY <2>1, <2>3 DEF QueueTypes, Right
  <2> QED
    BY <2>1, <2>2, <2>4 DEF QueueGrows, QueueTypes
<1>3. ASSUME NEW t \in Targets, QueueAccepted(t) PROVE QueueGrows /\ QueueTypes'
  BY <1>3, AddedStep DEF QueueAccepted
<1>4. CASE OtherAdds
  BY <1>4, AddedStep DEF OtherAdds
<1>5. CASE Removes \/ DiscardsStopped \/ \E t \in Targets : QueueRemoves(t)
  BY <1>5, StoppedStep DEF Removes, DiscardsStopped, QueueRemoves
<1>6. CASE \E i \in DOMAIN onQueue : ScriptEnds(i)
  BY <1>6, EndedStep
<1>7. CASE UNCHANGED vars
  BY <1>1, <1>7 DEF vars, queueSide
<1> QED
  BY <1>1, <1>2, <1>3, <1>4, <1>5, <1>6, <1>7 DEF Next, Check, Queue, Checks, Registers,
     Registered, Marks, Cleans, TaskLocks, QueueAsks, QueueAcknowledged, QueueScheduled,
     QueueMarks, QueueFails, Cleanup, Discards, DiscardsStopped, DiscardsMarked, DiscardsFail,
     Failures, RemovalFails, TelemetryFaults, StopTimesOut, QueueTakes, LoopLocks, LoopSleeps,
     Resumes, StopClears, StopLocks

(***************************************************************************)
(* script_info.                                                            *)
(***************************************************************************)
Single(s) == \A j, k \in DOMAIN s : s[j].index = s[k].index => j = k

InfoTypes ==
  /\ info \in Seq(Samples(Len(onQueue))) /\ Right(info)
  /\ Len(info) <= MaxScripts
  /\ Single(info)

LEMMA InfoUpdated ==
  ASSUME QueueTypes, InfoTypes, NEW e \in Samples(Len(onQueue)),
         e.state \in Finals => onQueue[e.index].state = e.state
  PROVE  /\ Updated(e) \in Seq(Samples(Len(onQueue))) /\ Right(Updated(e))
         /\ Single(Updated(e)) /\ Len(Updated(e)) <= MaxScripts + 1
<1> DEFINE S == Samples(Len(onQueue))
<1>1. info \in Seq(S) /\ MaxScripts \in Nat
  BY ScriptTrackingAssumption DEF InfoTypes
<1> HIDE DEF S
<1>2. CASE \E k \in DOMAIN info : info[k].index = e.index
  <2>1. /\ Updated(e) = [k \in DOMAIN info |-> IF info[k].index = e.index THEN e ELSE info[k]]
        /\ DOMAIN info = 1..Len(info) /\ Len(info) \in Nat
    BY <1>1, <1>2 DEF Updated
  <2>2. \A k \in DOMAIN info : Updated(e)[k] \in S /\ Updated(e)[k].index = info[k].index
    BY <1>1, <2>1 DEF S
  <2>3. Updated(e) \in Seq(S) /\ Len(Updated(e)) = Len(info)
    BY <2>1, <2>2
  <2>4. Right(Updated(e))
    BY <2>1 DEF Right, InfoTypes
  <2>5. Single(Updated(e))
    BY <2>1, <2>2 DEF Single, InfoTypes
  <2> QED
    BY <1>1, <2>1, <2>3, <2>4, <2>5 DEF InfoTypes, S
<1>3. CASE ~\E k \in DOMAIN info : info[k].index = e.index
  <2>1. Updated(e) = Append(info, e)
    BY <1>3 DEF Updated
  <2>2. e \in S
    BY DEF S
  <2>3. Updated(e) \in Seq(S) /\ Len(Updated(e)) = Len(info) + 1
    BY <1>1, <2>1, <2>2
  <2>4. \A k \in DOMAIN Updated(e) :
          \/ k \in DOMAIN info /\ Updated(e)[k] = info[k]
          \/ k = Len(info) + 1 /\ Updated(e)[k] = e
    BY <1>1, <2>1, <2>2
  <2>5. Right(Updated(e))
    BY <2>4 DEF Right, InfoTypes
  <2>6. Single(Updated(e))
    BY <1>3, <2>4 DEF Single, InfoTypes
  <2> QED
    BY <1>1, <2>3, <2>5, <2>6 DEF InfoTypes, S
<1> QED
  BY <1>2, <1>3

LEMMA InfoNewest ==
  ASSUME NEW S, NEW s \in Seq(S), Right(s), Single(s)
  PROVE  /\ Newest(s) \in Seq(S) /\ Right(Newest(s)) /\ Single(Newest(s))
         /\ Len(Newest(s)) <= MaxScripts
<1>1. MaxScripts \in Nat \ {0} /\ Len(s) \in Nat
  BY ScriptTrackingAssumption
<1>2. CASE Len(s) > MaxScripts
  <2> DEFINE first == Len(s) - MaxScripts + 1
  <2>1. Newest(s) = SubSeq(s, first, Len(s)) /\ first \in 1..Len(s)
    BY <1>1, <1>2 DEF Newest
  <2> HIDE DEF first
  <2>2. Newest(s) \in Seq(S) /\ Len(Newest(s)) = Len(s) - first + 1
    BY <1>1, <2>1
  <2>3. \A k \in DOMAIN Newest(s) : first + k - 1 \in DOMAIN s /\ Newest(s)[k] = s[first + k - 1]
    BY <1>1, <2>1
  <2>4. \A k \in DOMAIN Newest(s) : k \in Int
    BY <2>2
  <2>5. Right(Newest(s))
    BY <2>3 DEF Right
  <2>6. Single(Newest(s))
    <3> SUFFICES ASSUME NEW j \in DOMAIN Newest(s), NEW k \in DOMAIN Newest(s),
                        Newest(s)[j].index = Newest(s)[k].index
                 PROVE  j = k
      BY DEF Single
    <3>1. first + j - 1 = first + k - 1
      BY <2>3 DEF Single
    <3> QED
      BY <2>1, <2>4, <3>1
  <2>7. Len(Newest(s)) <= MaxScripts
    BY <1>1, <2>2 DEF first
  <2> QED
    BY <2>2, <2>5, <2>6, <2>7
<1>3. CASE ~(Len(s) > MaxScripts)
  BY <1>1, <1>3 DEF Newest
<1> QED
  BY <1>2, <1>3

LEMMA InfoPicked ==
  ASSUME NEW S, NEW s \in Seq(S), Right(s), Single(s), NEW ks, \A k \in ks : k \in DOMAIN s
  PROVE  Right(Picked(s, ks)) /\ Single(Picked(s, ks))
<1>1. \A m, n \in DOMAIN Picked(s, ks) : \E j, k \in ks :
        Picked(s, ks)[m] = s[j] /\ Picked(s, ks)[n] = s[k] /\ (j = k => m = n)
  BY PickedEntries
<1>2. Right(Picked(s, ks))
  BY <1>1 DEF Right
<1>3. Single(Picked(s, ks))
  <2> SUFFICES ASSUME NEW m \in DOMAIN Picked(s, ks), NEW n \in DOMAIN Picked(s, ks),
                      Picked(s, ks)[m].index = Picked(s, ks)[n].index
               PROVE  m = n
    BY DEF Single
  <2>1. PICK j \in ks, k \in ks :
          Picked(s, ks)[m] = s[j] /\ Picked(s, ks)[n] = s[k] /\ (j = k => m = n)
    BY <1>1
  <2> QED
    BY <2>1 DEF Single
<1> QED
  BY <1>2, <1>3

LEMMA InfoStep ==
  ASSUME QueueTypes, InfoTypes, [Next]_vars
  PROVE  InfoTypes'
<1>1. QueueGrows /\ QueueTypes'
  BY QueueStep
<1>2. ASSUME NEW s \in Seq(Samples(Len(onQueue))), Right(s), Single(s), Len(s) <= MaxScripts,
             info' = s
      PROVE  InfoTypes'
  <2>1. /\ s \in Seq(Samples(Len(onQueue')))
        /\ \A k \in DOMAIN s : s[k].state \in Finals => onQueue'[s[k].index].state = s[k].state
    BY <1>1, <1>2, StayRight DEF QueueTypes
  <2> QED
    BY <1>2, <2>1 DEF InfoTypes, Right, Single
<1>3. CASE info' = info
  BY <1>2, <1>3 DEF InfoTypes
<1>4. CASE Deliver
  <2> DEFINE e == Head(events)
  <2>1. info' = Newest(Updated(e)) /\ events # << >>
    BY <1>4 DEF Deliver
  <2>2. e \in Samples(Len(onQueue)) /\ (e.state \in Finals => onQueue[e.index].state = e.state)
    <3>1. 1 \in DOMAIN events /\ e = events[1]
      BY <2>1 DEF QueueTypes
    <3> QED
      BY <3>1 DEF QueueTypes, Right
  <2> HIDE DEF e
  <2>3. Updated(e) \in Seq(Samples(Len(onQueue))) /\ Right(Updated(e)) /\ Single(Updated(e))
    BY <2>2, InfoUpdated
  <2>4. /\ Newest(Updated(e)) \in Seq(Samples(Len(onQueue))) /\ Right(Newest(Updated(e)))
        /\ Single(Newest(Updated(e))) /\ Len(Newest(Updated(e))) <= MaxScripts
    BY <2>3, InfoNewest
  <2> QED
    BY <1>2, <2>1, <2>4
<1>5. CASE Checks
  <2>1. PICK ks \in SUBSET DOMAIN info : info' = Picked(info, ks)
    BY <1>5 DEF Checks
  <2>2. Picked(info, ks) \in Seq(Samples(Len(onQueue))) /\ Len(Picked(info, ks)) <= Len(info)
    BY <2>1, PickedEntries DEF InfoTypes
  <2>3. Right(Picked(info, ks)) /\ Single(Picked(info, ks))
    BY <2>1, InfoPicked DEF InfoTypes
  <2>4. Len(Picked(info, ks)) <= MaxScripts
    <3>1. Len(Picked(info, ks)) \in Nat /\ Len(info) \in Nat /\ MaxScripts \in Nat
      BY <2>2, ScriptTrackingAssumption DEF InfoTypes
    <3> QED
      BY <2>2, <3>1 DEF InfoTypes
  <2> QED
    BY <1>2, <2>1, <2>2, <2>3, <2>4
<1> QED
  BY <1>3, <1>4, <1>5 DEF Next, Check, Queue, Registers, Removes, QueueAccepted, QueueRemoves,
     Registered, Marks, Cleans, TaskLocks, QueueAsks, QueueAcknowledged, QueueScheduled,
     QueueMarks, QueueFails, Cleanup, Discards, DiscardsStopped, DiscardsMarked, DiscardsFail,
     Failures, RemovalFails, TelemetryFaults, StopTimesOut, QueueTakes, LoopLocks, LoopSleeps,
     Resumes, StopClears, StopLocks, OtherAdds, ScriptEnds, vars, model

(***************************************************************************)
(* Where a target goes.                                                    *)
(***************************************************************************)
Moves(t) ==
  \/ place'[t] = place[t] /\ (place[t] = "inHand" => queueing' # "off")
  \/ place[t] = "queued" /\ place'[t] = "inHand" /\ QueueTakes(t)
  \/ /\ place[t] = "inHand" /\ place'[t] \in {"scheduled", "lost"} /\ queueing' = "off"
     /\ place'[t] = "scheduled" => Indices(t) # {}
  \/ place[t] = "inHand" /\ place'[t] = "gone" /\ queueing' = "off" /\ queueing = "failedStopped"
  \/ place[t] = "scheduled" /\ place'[t] = Verdict(t) /\ Checks
  \/ place[t] = "scheduled" /\ place'[t] = "withdrawn" /\ Cleans
  \/ place[t] = "scheduled" /\ place'[t] = "discarded" /\ Discards
  \/ place[t] = "observed" /\ place'[t] = "registered"
  \/ place[t] = "scheduled" /\ place'[t] = "lost" /\ Resumes
  \/ place[t] \in {"observed", "withdrawn", "discarded"} /\ place'[t] = "lost"
  \/ place[t] = "withdrawn" /\ place'[t] = "gone" /\ Marks
  \/ place[t] = "discarded" /\ place'[t] = "gone" /\ DiscardsMarked

(* One target at most is in the hands of queue_targets, from the time it   *)
(* is taken until put_on_queue returns.  It has no script on the           *)
(* ScriptQueue before, and has one once a script was accepted.             *)
HandOK ==
  /\ \A t, u \in In("inHand") : t = u
  /\ queueing = "off" => In("inHand") = {}
  /\ queueing \in {"accepted", "nonconsecutive", "nonconsecutiveStopped"} =>
       \A t \in In("inHand") : Indices(t) # {}
  /\ \A t \in In("queued") : Indices(t) = {}

CscTypes ==
  /\ place \in [Targets -> Places]
  /\ queueing \in {"off", "next", "asked", "accepted", "failed", "nonconsecutive",
                   "failedStopped", "nonconsecutiveStopped"}
  /\ lock \in {"free", "loop", "task", "stop"}
  /\ step \in {"off", "checks", "registers", "removesFailed", "marksFailed",
               "cleans", "removesRest", "marksRest", "decides", "queues"}
  /\ asked \in BOOLEAN
  /\ cleanup \in {"off", "cleans", "removes", "marks"}
  /\ stop \in {"off", "waits", "kills"}
  /\ mode \in {"resumed", "stopping", "idle", "ended"}

LEMMA VerdictPlace ==
  ASSUME NEW t
  PROVE  Verdict(t) \in {"withdrawn", "observed", "scheduled"}
BY DEF Verdict

LEMMA ChecksPlace ==
  ASSUME place \in [Targets -> Places], Checks, NEW t \in Targets
  PROVE  /\ place' \in [Targets -> Places]
         /\ place'[t] = IF place[t] = "scheduled" THEN Verdict(t) ELSE place[t]
<1> DEFINE judged == {u \in In("scheduled") : Verdict(u) # "scheduled"}
<1>1. place' = [u \in Targets |-> IF u \in judged THEN Verdict(u) ELSE place[u]]
  BY DEF Checks
<1>2. \A u \in Targets : u \in judged <=> place[u] = "scheduled" /\ Verdict(u) # "scheduled"
  BY DEF In
<1> HIDE DEF judged
<1> QED
  BY <1>1, <1>2, VerdictPlace DEF Places

LEMMA RaisesPlace ==
  ASSUME NEW places \in [Targets -> Places], Raises(places), NEW t \in Targets
  PROVE  /\ place' \in [Targets -> Places]
         /\ \/ place'[t] = places[t]
            \/ places[t] \in {"observed", "withdrawn"} /\ place'[t] = "lost"
<1>1. place' = [u \in Targets |->
         IF places[u] \in {"observed", "withdrawn"} THEN "lost" ELSE places[u]]
  BY DEF Raises
<1> QED
  BY <1>1 DEF Places

LEMMA MovedPlace ==
  ASSUME place \in [Targets -> Places], NEW from, NEW to \in Places, place' = Moved(from, to),
         NEW t \in Targets
  PROVE  /\ place' \in [Targets -> Places]
         /\ place'[t] = IF place[t] \in from THEN to ELSE place[t]
BY DEF Moved

LEMMA PlaceStep ==
  ASSUME CscTypes, HandOK, [Next]_vars, NEW t \in Targets
  PROVE  Moves(t) /\ place' \in [Targets -> Places]
<1>0. /\ place \in [Targets -> Places]
      /\ place[t] = "inHand" => queueing # "off"
      /\ \A u \in Targets : place[t] = "inHand" /\ place[u] = "inHand" => t = u
      /\ {"gone", "lost", "withdrawn", "discarded", "scheduled"} \subseteq Places
  BY DEF CscTypes, HandOK, In, Places
<1>1. CASE UNCHANGED <<place, queueing>>
  BY <1>0, <1>1 DEF Moves
<1>2. CASE Checks
  <2>1. Verdict(t) \in {"withdrawn", "observed", "scheduled"}
    BY VerdictPlace
  <2>2. /\ place' \in [Targets -> Places] /\ queueing' = queueing
        /\ place'[t] = IF place[t] = "scheduled" THEN Verdict(t) ELSE place[t]
    BY <1>0, <1>2, ChecksPlace DEF Checks
  <2> QED
    BY <1>0, <1>2, <2>1, <2>2 DEF Moves
<1>3. ASSUME NEW u \in Targets, Registers(u) PROVE Moves(t) /\ place' \in [Targets -> Places]
  <2> DEFINE registered == [place EXCEPT ![u] = "registered"]
  <2>1. /\ registered \in [Targets -> Places] /\ place[u] = "observed" /\ queueing' = queueing
        /\ registered[t] = IF t = u THEN "registered" ELSE place[t]
    BY <1>0, <1>3 DEF Registers, Places
  <2>2. place' = registered \/ Raises(registered)
    BY <1>3 DEF Registers
  <2> HIDE DEF registered
  <2>3. /\ place' \in [Targets -> Places]
        /\ \/ place'[t] = registered[t]
           \/ registered[t] \in {"observed", "withdrawn"} /\ place'[t] = "lost"
    BY <2>1, <2>2, RaisesPlace
  <2> QED
    BY <1>0, <1>3, <2>1, <2>3 DEF Moves
<1>4. ASSUME Raises(place), queueing' = queueing
      PROVE  Moves(t) /\ place' \in [Targets -> Places]
  BY <1>0, <1>4, RaisesPlace DEF Moves
<1>5. CASE Marks
  <2>1. queueing' = queueing /\ (Raises(place) \/ place' = Moved({"withdrawn"}, "gone"))
    BY <1>5 DEF Marks
  <2>2. CASE place' = Moved({"withdrawn"}, "gone")
    <3>1. /\ place' \in [Targets -> Places]
          /\ place'[t] = IF place[t] \in {"withdrawn"} THEN "gone" ELSE place[t]
      BY <1>0, <2>2, MovedPlace
    <3> QED
      BY <1>0, <1>5, <2>1, <3>1 DEF Moves
  <2> QED
    BY <1>4, <2>1, <2>2
<1>6. CASE Cleans
  <2>1. queueing' = queueing /\ (Raises(place) \/ place' = Moved({"scheduled"}, "withdrawn"))
    BY <1>6 DEF Cleans, Withdraws
  <2>2. CASE place' = Moved({"scheduled"}, "withdrawn")
    <3>1. /\ place' \in [Targets -> Places]
          /\ place'[t] = IF place[t] \in {"scheduled"} THEN "withdrawn" ELSE place[t]
      BY <1>0, <2>2, MovedPlace
    <3> QED
      BY <1>0, <1>6, <2>1, <3>1 DEF Moves
  <2> QED
    BY <1>4, <2>1, <2>2
<1>7. CASE Discards
  <2>1. queueing' = queueing /\ (place' = place \/ place' = Moved({"scheduled"}, "discarded"))
    BY <1>7 DEF Discards, Withdraws
  <2>2. CASE place' = Moved({"scheduled"}, "discarded")
    <3>1. /\ place' \in [Targets -> Places]
          /\ place'[t] = IF place[t] \in {"scheduled"} THEN "discarded" ELSE place[t]
      BY <1>0, <2>2, MovedPlace
    <3> QED
      BY <1>0, <1>7, <2>1, <3>1 DEF Moves
  <2> QED
    BY <1>1, <2>1, <2>2
<1>8. CASE DiscardsMarked \/ DiscardsFail
  <2>1. queueing' = queueing
    BY <1>8 DEF DiscardsMarked, DiscardsFail
  <2>2. PICK to \in {"gone", "lost"} : /\ place' = Moved({"discarded"}, to)
                                       /\ to = "gone" => DiscardsMarked
    BY <1>8 DEF DiscardsMarked, DiscardsFail
  <2>3. /\ place' \in [Targets -> Places]
        /\ place'[t] = IF place[t] \in {"discarded"} THEN to ELSE place[t]
    BY <1>0, <2>2, MovedPlace
  <2> QED
    BY <1>0, <2>1, <2>2, <2>3 DEF Moves
<1>9. CASE RemovalFails
  BY <1>4, <1>9 DEF RemovalFails
<1>10. ASSUME NEW u \in Targets, QueueTakes(u) PROVE Moves(t) /\ place' \in [Targets -> Places]
  BY <1>0, <1>10 DEF QueueTakes, Moves, Places
<1>11. ASSUME NEW u \in Targets, place[u] = "inHand", queueing' = "off",
              NEW where \in {"scheduled", "gone"}, place' = Moved({"inHand"}, where),
              where = "scheduled" => Indices(u) # {}, where = "gone" => queueing = "failedStopped"
       PROVE  Moves(t) /\ place' \in [Targets -> Places]
  <2>1. /\ place' \in [Targets -> Places]
        /\ place'[t] = IF place[t] \in {"inHand"} THEN where ELSE place[t]
    BY <1>0, <1>11, MovedPlace
  <2>2. place[t] = "inHand" => t = u
    BY <1>0, <1>11
  <2> QED
    BY <1>11, <2>1, <2>2 DEF Moves
<1>12. ASSUME NEW u \in Targets, QueueScheduled(u) PROVE Moves(t) /\ place' \in [Targets -> Places]
  <2>1. Indices(u) # {}
    BY <1>12, FS_EmptySet, ScriptTrackingAssumption DEF QueueScheduled
  <2> QED
    BY <1>11, <1>12, <2>1 DEF QueueScheduled, QueueingEnds
<1>13. ASSUME NEW u \in Targets, QueueMarks(u) PROVE Moves(t) /\ place' \in [Targets -> Places]
  <2>1. place[u] = "inHand" /\ queueing' = "off"
    BY <1>13 DEF QueueMarks, QueueingEnds
  <2>2. \/ queueing = "failedStopped" /\ place' = Moved({"inHand"}, "gone")
        \/ queueing = "nonconsecutiveStopped" /\ place' = Moved({"inHand"}, "scheduled")
    BY <1>13 DEF QueueMarks, QueueingEnds
  <2>3. queueing = "nonconsecutiveStopped" => Indices(u) # {}
    BY <2>1 DEF HandOK, In
  <2> QED
    BY <1>11, <2>1, <2>2, <2>3
<1>14. CASE QueueFails
  <2>1. queueing' = "off" /\ place' = Moved({"inHand"}, "lost")
    BY <1>14 DEF QueueFails
  <2>2. /\ place' \in [Targets -> Places]
        /\ place'[t] = IF place[t] \in {"inHand"} THEN "lost" ELSE place[t]
    BY <1>0, <2>1, MovedPlace
  <2> QED
    BY <1>0, <2>1, <2>2 DEF Moves
<1>15. CASE Resumes
  <2>1. queueing' = queueing /\ (place' = place \/ place' = Moved({"scheduled"}, "lost"))
    BY <1>15 DEF Resumes
  <2>2. CASE place' = Moved({"scheduled"}, "lost")
    <3>1. /\ place' \in [Targets -> Places]
          /\ place'[t] = IF place[t] \in {"scheduled"} THEN "lost" ELSE place[t]
      BY <1>0, <2>2, MovedPlace
    <3> QED
      BY <1>0, <1>15, <2>1, <3>1 DEF Moves
  <2> QED
    BY <1>1, <2>1, <2>2
<1>16. CASE StopTimesOut
  <2>1. \/ UNCHANGED <<place, queueing>>
        \/ queueing' = "off" /\ place' = Moved({"inHand", "observed", "withdrawn"}, "lost")
    BY <1>16 DEF StopTimesOut
  <2>2. CASE queueing' = "off" /\ place' = Moved({"inHand", "observed", "withdrawn"}, "lost")
    <3>1. /\ place' \in [Targets -> Places]
          /\ place'[t] = IF place[t] \in {"inHand", "observed", "withdrawn"}
                           THEN "lost" ELSE place[t]
      BY <1>0, <2>2, MovedPlace
    <3> QED
      BY <1>0, <2>2, <3>1 DEF Moves
  <2> QED
    BY <1>1, <2>1, <2>2
<1>17. ASSUME NEW u \in Targets,
              QueueAsks(u) \/ QueueAccepted(u) \/ QueueAcknowledged(u) \/ QueueRemoves(u)
       PROVE  Moves(t) /\ place' \in [Targets -> Places]
  <2>1. place' = place /\ queueing' # "off"
    BY <1>17 DEF QueueAsks, QueueAccepted, QueueAcknowledged, QueueRemoves
  <2> QED
    BY <1>0, <2>1 DEF Moves
<1> QED
  BY <1>1, <1>2, <1>3, <1>5, <1>6, <1>7, <1>8, <1>9, <1>10, <1>12, <1>13, <1>14, <1>15, <1>16,
     <1>17 DEF Next, Check, Cleanup, Queue, Failures, Deliver, Registered, Removes, TaskLocks,
     DiscardsStopped, TelemetryFaults, LoopLocks, LoopSleeps, StopClears, StopLocks, OtherAdds,
     ScriptEnds, vars, csc

LEMMA CscStep ==
  ASSUME CscTypes, HandOK, [Next]_vars
  PROVE  CscTypes'
<1>1. place' \in [Targets -> Places]
  <2>1. CASE Targets = {}
    <3> SUFFICES place' = [u \in Targets |-> place'[u]]
      BY <2>1
    <3>1. DOMAIN place = Targets /\ place = [u \in Targets |-> place[u]]
      BY DEF CscTypes
    <3>2. CASE place' = place
      BY <3>1, <3>2
    <3>3. CASE Checks
      BY <3>3 DEF Checks
    <3>4. ASSUME Raises(place) \/ \E from, to : place' = Moved(from, to)
          PROVE  place' = [u \in Targets |-> place'[u]]
      BY <3>4 DEF Raises, Moved
    <3>5. CASE Marks \/ Cleans \/ Discards \/ DiscardsMarked \/ DiscardsFail
      BY <3>2, <3>4, <3>5 DEF Marks, Cleans, Discards, Withdraws, DiscardsMarked, DiscardsFail
    <3>6. CASE RemovalFails \/ QueueFails \/ Resumes \/ StopTimesOut
      BY <3>2, <3>4, <3>6 DEF RemovalFails, QueueFails, Resumes, StopTimesOut
    <3> QED
      BY <2>1, <3>2, <3>3, <3>5, <3>6 DEF Next, Check, Cleanup, Queue, Failures, Deliver,
         Registered, Removes, TaskLocks, DiscardsStopped, TelemetryFaults, LoopLocks, LoopSleeps,
         StopClears, StopLocks, OtherAdds, ScriptEnds, vars, csc
  <2>2. CASE Targets # {}
    BY <2>2, PlaceStep
  <2> QED
    BY <2>1, <2>2
<1>2. /\ queueing' \in {"off", "next", "asked", "accepted", "failed", "nonconsecutive",
                        "failedStopped", "nonconsecutiveStopped"}
      /\ lock' \in {"free", "loop", "task", "stop"}
      /\ step' \in {"off", "checks", "registers", "removesFailed", "marksFailed",
                    "cleans", "removesRest", "marksRest", "decides", "queues"}
      /\ asked' \in BOOLEAN
      /\ cleanup' \in {"off", "cleans", "removes", "marks"}
      /\ stop' \in {"off", "waits", "kills"}
      /\ mode' \in {"resumed", "stopping", "idle", "ended"}
  <2>1. CASE Check \/ RemovalFails
    BY <2>1 DEF CscTypes, Check, Checks, Registers, Raises, LoopFaults, Registered, CheckEnds,
       Removes, Marks, Cleans, RemovalFails, commands
  <2>2. CASE Cleanup \/ DiscardsFail \/ TelemetryFaults
    BY <2>2 DEF CscTypes, Cleanup, Discards, DiscardsStopped, DiscardsMarked, DiscardsFail,
       CleanupEnds, TelemetryFaults
  <2>3. CASE Queue \/ QueueFails \/ \E t \in Targets : QueueTakes(t)
    BY <2>3 DEF CscTypes, Queue, QueueTakes, QueueAsks, QueueAccepted, QueueAcknowledged,
       QueueScheduled, QueueRemoves, QueueMarks, QueueingEnds, QueueFails, LoopFaults, commands
  <2>4. CASE \/ LoopLocks \/ LoopSleeps \/ Resumes \/ StopClears \/ StopLocks \/ StopTimesOut
             \/ Deliver \/ TaskLocks
    BY <2>4 DEF CscTypes, LoopLocks, LoopSleeps, Resumes, StopClears, StopLocks, StopTimesOut,
       Deliver, TaskLocks, commands
  <2>5. CASE UNCHANGED csc
    BY <2>5 DEF CscTypes, csc, commands
  <2> QED
    BY <2>1, <2>2, <2>3, <2>4, <2>5 DEF Next, Failures, OtherAdds, ScriptEnds, vars
<1> QED
  BY <1>1, <1>2 DEF CscTypes

(* Only the target that is being sent gets scripts, and none loses any.    *)
LEMMA IndicesStep ==
  ASSUME QueueTypes, [Next]_vars, NEW t \in Targets
  PROVE  /\ \A i \in Indices(t) : i \in Indices(t)'
         /\ ~QueueAccepted(t) => Indices(t)' = Indices(t)
<1>1. /\ QueueGrows /\ t # Nobody
      /\ DOMAIN onQueue = 1..Len(onQueue) /\ DOMAIN onQueue' = 1..Len(onQueue')
      /\ Len(onQueue) \in Nat /\ Len(onQueue') \in Nat
  BY QueueStep, ScriptTrackingAssumption DEF QueueTypes
<1>2. \A i \in DOMAIN onQueue : i \in DOMAIN onQueue' /\ onQueue'[i].of = onQueue[i].of
  BY <1>1 DEF QueueGrows
<1>3. ~QueueAccepted(t) => \A i \in DOMAIN onQueue' : onQueue'[i].of = t => i \in DOMAIN onQueue
  BY <1>1 DEF QueueGrows
<1> QED
  BY <1>2, <1>3 DEF Indices

LEMMA HandStep ==
  ASSUME QueueTypes, CscTypes, HandOK, [Next]_vars
  PROVE  HandOK'
<1>1. \A t \in Targets : Moves(t)
  BY PlaceStep
<1>2. ASSUME NEW t \in Targets, place'[t] = "inHand"
      PROVE  queueing' # "off" /\ (place[t] = "inHand" \/ QueueTakes(t))
  <2>1. Moves(t)
    BY <1>1
  <2>2. CASE place[t] = "scheduled" /\ place'[t] = Verdict(t)
    BY <1>2, <2>2, VerdictPlace
  <2>3. CASE QueueTakes(t)
    BY <2>3 DEF QueueTakes
  <2> QED
    BY <1>2, <2>1, <2>2, <2>3 DEF Moves
<1>3. ASSUME NEW t \in Targets, NEW u \in Targets, place'[t] = "inHand", place'[u] = "inHand"
      PROVE  t = u
  <2>1. CASE QueueTakes(t)
    <3>1. /\ queueing = "off" /\ place' = [place EXCEPT ![t] = "inHand"]
          /\ place \in [Targets -> Places]
      BY <2>1 DEF QueueTakes, CscTypes
    <3>2. place[u] # "inHand"
      BY <3>1 DEF HandOK, In
    <3> QED
      BY <1>3, <3>1, <3>2
  <2>2. CASE QueueTakes(u)
    <3>1. /\ queueing = "off" /\ place' = [place EXCEPT ![u] = "inHand"]
          /\ place \in [Targets -> Places]
      BY <2>2 DEF QueueTakes, CscTypes
    <3>2. place[t] # "inHand"
      BY <3>1 DEF HandOK, In
    <3> QED
      BY <1>3, <3>1, <3>2
  <2>3. CASE place[t] = "inHand" /\ place[u] = "inHand"
    BY <2>3 DEF HandOK, In
  <2> QED
    BY <1>2, <1>3, <2>1, <2>2, <2>3
<1> DEFINE withScripts == {"accepted", "nonconsecutive", "nonconsecutiveStopped"}
<1>4. ASSUME queueing' \in withScripts, NEW t \in Targets, place'[t] = "inHand"
      PROVE  Indices(t)' # {}
  <2>1. ~QueueTakes(t)
    BY <1>4 DEF QueueTakes
  <2>2. place[t] = "inHand"
    BY <1>2, <1>4, <2>1
  <2>3. CASE queueing \in withScripts
    <3>1. Indices(t) # {}
      BY <2>2, <2>3 DEF HandOK, In
    <3> QED
      BY <3>1, IndicesStep
  <2>4. CASE queueing \notin withScripts
    <3>1. PICK u \in Targets : QueueAccepted(u)
      BY <1>4, <2>4 DEF Next, Check, Queue, Deliver, Checks, Registers, Registered, Removes, Marks,
         Cleans, TaskLocks, QueueTakes, QueueAsks, QueueMarks, QueueFails, Cleanup, Discards,
         DiscardsStopped, DiscardsMarked, DiscardsFail, Failures, RemovalFails, TelemetryFaults,
         StopTimesOut, QueueAcknowledged, QueueScheduled, QueueRemoves, QueueingEnds, LoopLocks,
         LoopSleeps, Resumes, StopClears, StopLocks, OtherAdds, ScriptEnds, vars, csc
    <3>2. place[u] = "inHand" /\ Added(u)
      BY <3>1 DEF QueueAccepted
    <3>3. u = t
      BY <2>2, <3>2 DEF HandOK, In
    <3>4. Len(onQueue) + 1 \in DOMAIN onQueue' /\ onQueue'[Len(onQueue) + 1].of = t
      BY <3>2, <3>3 DEF Added, QueueTypes
    <3> QED
      BY <3>4 DEF Indices
  <2> QED
    BY <2>3, <2>4
<1>5. ASSUME NEW t \in Targets, place'[t] = "queued" PROVE Indices(t)' = {}
  <2>1. place[t] = "queued"
    BY <1>1, <1>5, VerdictPlace DEF Moves
  <2> QED
    BY <2>1, IndicesStep DEF HandOK, In, QueueAccepted
<1> QED
  BY <1>2, <1>3, <1>4, <1>5 DEF HandOK, In

LEMMA Greatest ==
  ASSUME NEW T, T # {}, NEW n \in Nat, \A k \in T : k \in 1..n
  PROVE  Max(T) \in T /\ \A k \in T : k <= Max(T)
<1>1. \A k \in T : k \in Nat /\ k <= n
  OBVIOUS
<1>2. PICK m \in {n - k : k \in T} : \A j \in {n - k : k \in T} : m <= j
  <2>1. \A j \in {n - k : k \in T} : j \in Nat
    BY <1>1
  <2> QED
    BY <2>1, Least
<1>3. PICK k \in T : m = n - k
  BY <1>2
<1>4. ASSUME NEW j \in T PROVE k >= j
  <2>1. m <= n - j
    BY <1>2
  <2> QED
    BY <1>1, <1>3, <2>1
<1>5. Max(T) \in T /\ \A j \in T : Max(T) >= j
  BY <1>4 DEF Max
<1> QED
  BY <1>1, <1>5

(***************************************************************************)
(* The futures.                                                            *)
(***************************************************************************)
FutureTypes ==
  \A i \in DOMAIN futures : i \in DOMAIN onQueue /\ futures[i] \in {"pending"} \cup Finals

LEMMA FuturesLeft ==
  ASSUME FutureTypes, NEW ts, NEW keys
  PROVE  /\ \A i \in DOMAIN Marked(ts) :
              i \in DOMAIN onQueue /\ Marked(ts)[i] \in {"pending"} \cup Finals
         /\ \A i \in DOMAIN Without(futures, keys) :
              i \in DOMAIN onQueue /\ Without(futures, keys)[i] \in {"pending"} \cup Finals
BY DEF FutureTypes, Marked, Without, Finals

LEMMA FuturesStep ==
  ASSUME QueueTypes, CscTypes, HandOK, FutureTypes, [Next]_vars
  PROVE  FutureTypes'
<1>1. \A i \in DOMAIN onQueue : i \in DOMAIN onQueue'
  BY QueueStep DEF QueueTypes, QueueGrows
<1>2. ASSUME \A i \in DOMAIN futures' :
               i \in DOMAIN onQueue /\ futures'[i] \in {"pending"} \cup Finals
      PROVE  FutureTypes'
  BY <1>1, <1>2 DEF FutureTypes
<1>3. CASE futures' = futures
  BY <1>2, <1>3 DEF FutureTypes
<1>4. CASE Deliver
  <2> DEFINE o == Outcome(Head(events))
  <2>1. PICK keys : futures' = Without(o, keys)
    BY <1>4 DEF Deliver
  <2>2. \A i \in DOMAIN o : i \in DOMAIN onQueue /\ o[i] \in {"pending"} \cup Finals
    BY DEF Outcome, FutureTypes
  <2> HIDE DEF o
  <2>3. \A i \in DOMAIN futures' : i \in DOMAIN o /\ futures'[i] = o[i]
    BY <2>1 DEF Without
  <2> QED
    BY <1>2, <2>2, <2>3
<1>5. ASSUME \/ \E ts : futures' = Marked(ts) \/ futures' = Emptied(ts)
             \/ \E keys : futures' = Without(futures, keys)
      PROVE  FutureTypes'
  <2>1. \A ts : Emptied(ts) = Without(futures, UNION {Indices(t) : t \in ts})
    BY DEF Emptied
  <2> QED
    BY <1>2, <1>5, <2>1, FuturesLeft
<1>6. CASE \/ Marks \/ Cleans \/ Discards \/ DiscardsMarked
           \/ \E t \in Targets : Registers(t) \/ QueueMarks(t)
  BY <1>5, <1>6 DEF Marks, Cleans, Withdraws, WithdrawsNone, Discards, DiscardsMarked, Registers,
     QueueMarks
<1>7. ASSUME NEW t \in Targets, QueueAcknowledged(t) PROVE FutureTypes'
  <2> DEFINE last == Max(Indices(t))
  <2>1. last \in DOMAIN onQueue
    <3>1. Indices(t) # {}
      BY <1>7 DEF QueueAcknowledged, HandOK, In
    <3>2. Len(onQueue) \in Nat /\ \A i \in Indices(t) : i \in 1..Len(onQueue)
      BY DEF Indices, QueueTypes
    <3>3. last \in Indices(t)
      BY <3>1, <3>2, Greatest
    <3> QED
      BY <3>3 DEF Indices
  <2>2. futures' = [i \in DOMAIN futures \cup {last} |->
                      IF i = last THEN "pending" ELSE futures[i]]
    BY <1>7 DEF QueueAcknowledged
  <2> HIDE DEF last
  <2> QED
    BY <1>2, <2>1, <2>2 DEF FutureTypes
<1> QED
  BY <1>3, <1>4, <1>6, <1>7 DEF Next, Check, Queue, Checks, Removes, QueueAccepted, QueueRemoves,
     Registered, TaskLocks, QueueAsks, QueueScheduled, QueueMarks, QueueFails, Cleanup, Discards,
     DiscardsStopped, DiscardsMarked, DiscardsFail, Failures, RemovalFails, TelemetryFaults,
     StopTimesOut, QueueTakes, LoopLocks, LoopSleeps, Resumes, StopClears, StopLocks, OtherAdds,
     ScriptEnds, vars, model

(***************************************************************************)
(* The blocks that were registered, and those that are forgotten.          *)
(***************************************************************************)
SentOK ==
  /\ sent \in Seq(Targets)
  /\ blocks \subseteq Range(sent)
  /\ OldestForgotten

LEMMA RangeFinite ==
  ASSUME NEW S, NEW s \in Seq(S)
  PROVE  IsFiniteSet(Range(s))
<1>1. Len(s) \in Nat /\ DOMAIN s = 1..Len(s)
  OBVIOUS
<1>2. IsFiniteSet(1..Len(s))
  BY <1>1, UpToFinite
<1>3. s \in Surjection(1..Len(s), Range(s))
  BY <1>1 DEF Surjection, Range
<1> QED
  BY <1>2, <1>3, FS_Surjection

LEMMA OneMore ==
  ASSUME NEW S, IsFiniteSet(S), NEW x
  PROVE  /\ IsFiniteSet(S \cup {x}) /\ Cardinality(S \cup {x}) \in Nat
         /\ Cardinality(S \cup {x}) <= Cardinality(S) + 1
<1>1. Cardinality(S) \in Nat
  BY FS_CardinalityType
<1>2. CASE x \in S
  <2>1. S \cup {x} = S
    BY <1>2
  <2>2. Cardinality(S) <= Cardinality(S) + 1
    BY <1>1
  <2> QED
    BY <1>1, <2>1, <2>2, Zenon
<1>3. CASE x \notin S
  <2>1. IsFiniteSet(S \cup {x}) /\ Cardinality(S \cup {x}) = Cardinality(S) + 1
    BY <1>3, FS_AddElement
  <2> QED
    BY <1>1, <2>1
<1> QED
  BY <1>2, <1>3

(* Of the blocks that are done, at least two are younger than one that is  *)
(* forgotten.                                                              *)
LEMMA TwoYounger ==
  ASSUME SentOK, NEW done \in SUBSET blocks, NEW k \in DOMAIN sent, sent[k] \in Forgotten(done)
  PROVE  k + 1 < Len(sent)
<1> DEFINE older == {u \in done : Older(u, sent[k])}
           newest == sent[Len(sent)]
<1>1. /\ Len(sent) \in Nat /\ k \in 1..Len(sent) /\ DOMAIN sent = 1..Len(sent)
      /\ MaxScripts \in Nat \ {0}
  BY ScriptTrackingAssumption DEF SentOK
<1>2. sent[k] \in done /\ Cardinality(older) < MaxScripts - 1 /\ Cardinality(done) > MaxScripts
  BY DEF Forgotten
<1>3. IsFiniteSet(done) /\ Cardinality(done) \in Nat
  <2>1. IsFiniteSet(Range(sent)) /\ done \in SUBSET Range(sent)
    BY RangeFinite DEF SentOK
  <2> QED
    BY <2>1, FS_Subset, FS_CardinalityType
<1>4. IsFiniteSet(older) /\ Cardinality(older) \in Nat
  BY <1>3, FS_Subset, FS_CardinalityType
<1> SUFFICES ASSUME ~(k + 1 < Len(sent)) PROVE FALSE
  OBVIOUS
<1>5. done \in SUBSET (older \cup {sent[k]} \cup {newest})
  <2> SUFFICES ASSUME NEW u \in done, u # sent[k], u # newest PROVE Older(u, sent[k])
    OBVIOUS
  <2>1. PICK j \in DOMAIN sent : sent[j] = u
    BY DEF SentOK, Range
  <2>2. j < k
    BY <1>1, <2>1
  <2> QED
    BY <2>1, <2>2 DEF Older
<1> HIDE DEF older, newest
<1>6. /\ IsFiniteSet(older \cup {sent[k]} \cup {newest})
      /\ Cardinality(older \cup {sent[k]} \cup {newest}) <= Cardinality(older) + 2
      /\ Cardinality(older \cup {sent[k]} \cup {newest}) \in Nat
  <2>1. /\ IsFiniteSet(older \cup {sent[k]})
        /\ Cardinality(older \cup {sent[k]}) <= Cardinality(older) + 1
        /\ Cardinality(older \cup {sent[k]}) \in Nat
    BY <1>4, OneMore
  <2>2. /\ IsFiniteSet(older \cup {sent[k]} \cup {newest})
        /\ Cardinality(older \cup {sent[k]} \cup {newest}) <= Cardinality(older \cup {sent[k]}) + 1
        /\ Cardinality(older \cup {sent[k]} \cup {newest}) \in Nat
    BY <2>1, OneMore
  <2> QED
    BY <1>4, <2>1, <2>2
<1>7. Cardinality(done) <= Cardinality(older \cup {sent[k]} \cup {newest})
  BY <1>5, <1>6, FS_Subset
<1> QED
  BY <1>1, <1>2, <1>3, <1>4, <1>6, <1>7

LEMMA SentStep ==
  ASSUME SentOK, [Next]_vars
  PROVE  SentOK'
<1>1. CASE UNCHANGED <<sent, blocks>>
  BY <1>1 DEF SentOK, OldestForgotten, Range
<1>2. CASE Deliver
  <2>1. PICK done \in SUBSET blocks : blocks' = blocks \ Forgotten(done) /\ sent' = sent
    <3> DEFINE done == {t \in blocks : AllDone(t, Outcome(Head(events)))}
    <3>1. done \in SUBSET blocks
      OBVIOUS
    <3>2. blocks' = blocks \ Forgotten(done) /\ sent' = sent
      BY <1>2 DEF Deliver
    <3> QED
      BY <3>1, <3>2
  <2>2. ASSUME NEW k \in DOMAIN sent, sent[k] \notin blocks'
        PROVE  k + 1 < Len(sent)
    <3>1. CASE sent[k] \notin blocks
      BY <3>1 DEF SentOK, OldestForgotten
    <3>2. CASE sent[k] \in Forgotten(done)
      BY <3>2, TwoYounger
    <3> QED
      BY <2>1, <2>2, <3>1, <3>2
  <2> QED
    BY <2>1, <2>2 DEF SentOK, OldestForgotten, Range
<1>3. ASSUME NEW t \in Targets, QueueTakes(t) PROVE SentOK'
  <2>1. sent' = Append(sent, t) /\ blocks' = blocks \cup {t} /\ sent \in Seq(Targets)
    BY <1>3 DEF QueueTakes, SentOK
  <2>2. /\ sent' \in Seq(Targets) /\ Len(sent') = Len(sent) + 1 /\ Len(sent) \in Nat
        /\ \A k \in DOMAIN sent : k \in DOMAIN sent' /\ sent'[k] = sent[k]
        /\ Len(sent') \in DOMAIN sent' /\ sent'[Len(sent')] = t
        /\ \A k \in DOMAIN sent' : k \in DOMAIN sent \/ k = Len(sent')
    BY <2>1
  <2>3. blocks' \subseteq Range(sent')
    BY <2>1, <2>2 DEF SentOK, Range
  <2>4. ASSUME NEW k \in DOMAIN sent', sent'[k] \notin blocks'
        PROVE  k + 1 < Len(sent')
    <3>1. k \in DOMAIN sent /\ sent[k] \notin blocks
      BY <2>1, <2>2, <2>4
    <3>2. k + 1 < Len(sent) /\ k \in Nat
      BY <2>1, <3>1 DEF SentOK, OldestForgotten
    <3> QED
      BY <2>2, <3>2
  <2> QED
    BY <2>2, <2>3, <2>4 DEF SentOK, OldestForgotten
<1> QED
  BY <1>1, <1>2, <1>3 DEF Next, Check, Queue, Checks, Registers, Removes, QueueAccepted,
     QueueRemoves, Registered, Marks, Cleans, TaskLocks, QueueAsks, QueueAcknowledged,
     QueueScheduled, QueueMarks, QueueFails, Cleanup, Discards, DiscardsStopped, DiscardsMarked,
     DiscardsFail, Failures, RemovalFails, TelemetryFaults, StopTimesOut, LoopLocks, LoopSleeps,
     Resumes, StopClears, StopLocks, OtherAdds, ScriptEnds, vars, model

(***************************************************************************)
(* What the variables hold.                                                *)
(***************************************************************************)
Sound == QueueTypes /\ InfoTypes /\ CscTypes /\ HandOK /\ FutureTypes /\ SentOK

LEMMA SoundInit == Init => Sound
<1> SUFFICES ASSUME Init PROVE Sound
  OBVIOUS
<1>1. /\ onQueue = << >> /\ events = << >> /\ info = << >> /\ sent = << >> /\ blocks = {}
      /\ futures = << >> /\ place = [t \in Targets |-> "queued"] /\ queueing = "off"
      /\ lock = "free" /\ step = "off" /\ asked = FALSE
      /\ cleanup = "off" /\ stop = "off" /\ mode = "idle"
      /\ MaxScripts \in Nat
  BY ScriptTrackingAssumption DEF Init
<1>2. QueueTypes /\ InfoTypes
  BY <1>1 DEF QueueTypes, InfoTypes, Right, Single
<1>3. CscTypes
  BY <1>1 DEF CscTypes, Places
<1>4. HandOK
  BY <1>1 DEF HandOK, In, Indices
<1>5. FutureTypes /\ SentOK
  BY <1>1 DEF FutureTypes, SentOK, OldestForgotten, Range
<1> QED
  BY <1>2, <1>3, <1>4, <1>5 DEF Sound

LEMMA SoundStep == Sound /\ [Next]_vars => Sound'
BY QueueStep, InfoStep, CscStep, HandStep, FuturesStep, SentStep DEF Sound

LEMMA SoundTypes == Sound => TypeOK
<1> SUFFICES ASSUME Sound PROVE TypeOK
  OBVIOUS
<1>1. DOMAIN onQueue = 1..Len(onQueue)
  BY DEF Sound, QueueTypes
<1>2. /\ onQueue \in Seq([of : Targets \cup {Nobody}, state : {"live"} \cup Finals])
      /\ events \in Seq([index : DOMAIN onQueue, state : {"live"} \cup Finals])
      /\ info \in Seq([index : DOMAIN onQueue, state : {"live"} \cup Finals])
      /\ Len(info) <= MaxScripts
  BY <1>1 DEF Sound, QueueTypes, InfoTypes, Scripts, Samples, States
<1>3. sent \in Seq(Targets) /\ blocks \subseteq Range(sent)
  BY DEF Sound, SentOK
<1>4. DOMAIN futures \subseteq DOMAIN onQueue /\ Range(futures) \subseteq {"pending"} \cup Finals
  BY DEF Sound, FutureTypes, Range
<1> QED
  BY <1>2, <1>3, <1>4 DEF Sound, CscTypes, TypeOK

LEMMA SoundAlways == Spec => []Sound
BY SoundInit, SoundStep, PTL DEF Spec

(* Every variable keeps its type, whatever the order of samples, commands  *)
(* and checks; in particular script_info never outgrows max_scripts, and   *)
(* put_on_queue has a script of its block to take the future of.           *)
THEOREM TrackingTypeCorrect == Spec => []TypeOK
BY SoundAlways, SoundTypes, PTL

(* A block is forgotten only once two younger ones were sent               *)
(* (remove_block_done_scripts, called by check_script_info).               *)
THEOREM YoungestKept == Spec => []OldestForgotten
<1>1. Sound => OldestForgotten
  BY DEF Sound, SentOK
<1> QED
  BY <1>1, SoundAlways, PTL

(***************************************************************************)
(* What is registered was done: script_info has one entry per script, so a *)
(* target with as many entries as scripts has one for each.                *)
(***************************************************************************)
LEMMA VerdictObserved ==
  ASSUME QueueTypes, InfoTypes, NEW t \in Targets, Verdict(t) = "observed",
         NEW i \in Indices(t)
  PROVE  onQueue[i].state = "done"
<1>1. /\ Cardinality(Known(t)) = Cardinality(Indices(t))
      /\ \A r \in Known(t) : r.state = "done"
  BY DEF Verdict
<1>2. \A r \in Known(t) : \E k \in DOMAIN info : r = info[k] /\ onQueue[info[k].index].of = t
  BY DEF Known
<1>3. \A k \in DOMAIN info : info[k].index \in DOMAIN onQueue
  <2>1. \A k \in DOMAIN info : info[k] \in Samples(Len(onQueue))
    BY DEF InfoTypes
  <2> QED
    BY <2>1 DEF QueueTypes, Samples
<1> DEFINE f == [r \in Known(t) |-> r.index]
<1>4. f \in Injection(Known(t), Indices(t))
  <2>1. \A r \in Known(t) : r.index \in Indices(t)
    BY <1>2, <1>3 DEF Indices
  <2>2. \A r, s \in Known(t) : r.index = s.index => r = s
    BY <1>2 DEF InfoTypes, Single
  <2> QED
    BY <2>1, <2>2 DEF Injection, IsInjective
<1>5. IsFiniteSet(Indices(t))
  <2>1. IsFiniteSet(1..Len(onQueue))
    BY UpToFinite DEF QueueTypes
  <2>2. Indices(t) \in SUBSET (1..Len(onQueue))
    BY DEF Indices, QueueTypes
  <2> QED
    BY <2>1, <2>2, FS_Subset
<1>6. f \in Surjection(Known(t), Indices(t))
  BY <1>1, <1>4, <1>5, FS_Injection
<1>7. PICK r \in Known(t) : r.index = i
  BY <1>6 DEF Surjection
<1> QED
  BY <1>1, <1>2, <1>7 DEF InfoTypes, Right, Finals

ObservedOK ==
  /\ \A t \in Targets : place[t] \in {"scheduled", "observed", "registered"} => Indices(t) # {}
  /\ \A t \in Targets : place[t] \in {"observed", "registered"} =>
       \A i \in Indices(t) : onQueue[i].state = "done"

LEMMA ObservedStep ==
  ASSUME Sound, ObservedOK, [Next]_vars
  PROVE  ObservedOK'
<1>1. QueueTypes /\ InfoTypes /\ CscTypes /\ HandOK /\ QueueGrows
  BY QueueStep DEF Sound
<1>2. ASSUME NEW t \in Targets, place'[t] \in {"scheduled", "observed", "registered"}
      PROVE  /\ Indices(t)' # {}
             /\ place'[t] # "scheduled" => \A i \in Indices(t)' : onQueue'[i].state = "done"
  <2>1. Moves(t)
    BY <1>1, PlaceStep
  <2>2. \A i \in Indices(t) : i \in Indices(t)' /\ i \in DOMAIN onQueue
    BY <1>1, IndicesStep DEF Indices
  <2>3. place[t] # "inHand" => Indices(t)' = Indices(t)
    BY <1>1, IndicesStep DEF QueueAccepted
  <2>4. \A i \in Indices(t) : onQueue[i].state = "done" => onQueue'[i].state = "done"
    BY <1>1, <2>2 DEF QueueGrows
  <2>5. CASE place[t] = "inHand"
    <3>1. place'[t] = "scheduled" /\ Indices(t) # {}
      BY <1>2, <2>1, <2>5 DEF Moves
    <3> QED
      BY <2>2, <3>1
  <2>6. CASE place[t] = "scheduled"
    <3>1. Indices(t) # {} /\ Indices(t)' = Indices(t)
      BY <2>3, <2>6 DEF ObservedOK
    <3>2. CASE place'[t] = "scheduled"
      BY <3>1, <3>2
    <3>3. CASE place'[t] # "scheduled"
      <4>1. place'[t] = Verdict(t)
        BY <1>2, <2>1, <2>6, <3>3 DEF Moves
      <4>2. Verdict(t) = "observed"
        BY <1>2, <3>3, <4>1, VerdictPlace
      <4>3. \A i \in Indices(t) : onQueue[i].state = "done"
        BY <1>1, <4>2, VerdictObserved
      <4> QED
        BY <2>4, <3>1, <4>3
    <3> QED
      BY <3>2, <3>3
  <2>7. CASE place[t] \in {"observed", "registered"}
    BY <2>3, <2>4, <2>7 DEF ObservedOK
  <2>8. place[t] \in {"inHand", "scheduled", "observed", "registered"}
    BY <1>2, <2>1 DEF Moves, QueueTakes
  <2> QED
    BY <2>5, <2>6, <2>7, <2>8
<1> QED
  BY <1>2 DEF ObservedOK

(* What is registered as observed has a script on the ScriptQueue, and     *)
(* each of them is done, however many entries script_info has dropped or   *)
(* has not got yet (_handle_check_scheduled_targets).                      *)
THEOREM RegisteredDone == Spec => []RegisteredWereDone
<1>1. Init => ObservedOK
  BY DEF Init, ObservedOK
<1>2. Sound /\ ObservedOK /\ [Next]_vars => ObservedOK'
  BY ObservedStep
<1>3. ObservedOK => RegisteredWereDone
  BY DEF ObservedOK, RegisteredWereDone, In
<1> QED
  BY <1>1, <1>2, <1>3, SoundAlways, PTL DEF Spec

(***************************************************************************)
(* What is given up leaves the ScriptQueue.                                *)
(***************************************************************************)
Leaves(t) == \A i \in Indices(t) \cap Live : IsRunning(i)

(* Between the answer of remove_from_queue's request and mark_block_done,  *)
(* no script of a target that is removed is left but the running one.      *)
GoneOK ==
  /\ \A t \in Targets : place[t] = "gone" => Leaves(t)
  /\ step \in {"marksFailed", "marksRest"} =>
       \A t \in Targets : place[t] = "withdrawn" => Leaves(t)
  /\ cleanup = "marks" => \A t \in Targets : place[t] = "discarded" => Leaves(t)
  /\ queueing \in {"failedStopped", "nonconsecutiveStopped"} =>
       \A t \in Targets : place[t] = "inHand" => Leaves(t)

LEMMA LiveStep ==
  ASSUME QueueTypes, [Next]_vars
  PROVE  /\ \A i \in Live' : i \in Live \/ i = Len(onQueue) + 1
         /\ \A i \in Live : i \in Nat /\ i <= Len(onQueue)
         /\ \A i \in Live : i \in Live' /\ IsRunning(i) => IsRunning(i)'
<1>1. /\ QueueGrows /\ Len(onQueue) \in Nat /\ DOMAIN onQueue = 1..Len(onQueue)
  BY QueueStep DEF QueueTypes
<1>2. \A i \in Live' : i \in Live \/ i = Len(onQueue) + 1
  BY <1>1 DEF QueueGrows, Live
<1>3. \A i \in Live : i \in Nat /\ i <= Len(onQueue)
  BY <1>1 DEF Live
<1>4. ASSUME NEW i \in Live, i \in Live', IsRunning(i) PROVE IsRunning(i)'
  <2>1. \A j \in Live' : i <= j
    BY <1>1, <1>2, <1>3, <1>4 DEF IsRunning
  <2> QED
    BY <1>4, <2>1 DEF IsRunning
<1> QED
  BY <1>2, <1>3, <1>4

LEMMA LeavesStay ==
  ASSUME QueueTypes, [Next]_vars, NEW t \in Targets, ~QueueAccepted(t), Leaves(t)
  PROVE  Leaves(t)'
<1>1. Indices(t)' = Indices(t)
  BY IndicesStep
<1>2. \A i \in Indices(t) : i \in Nat /\ i <= Len(onQueue)
  BY DEF Indices, QueueTypes
<1>3. Len(onQueue) \in Nat
  BY DEF QueueTypes
<1>4. \A i \in Indices(t) \cap Live' : i \in Live /\ IsRunning(i)'
  BY <1>2, <1>3, LiveStep DEF Leaves
<1> QED
  BY <1>1, <1>4 DEF Leaves

LEMMA StopsLeaves ==
  ASSUME QueueTypes, [Next]_vars, NEW ts, Stops(ts), NEW t \in ts, t \in Targets, ~QueueAccepted(t)
  PROVE  Leaves(t)'
<1>1. PICK spared \in {{}, {i \in Live : IsRunning(i)}} :
        onQueue' = [i \in DOMAIN onQueue |->
          IF i \in {j \in Live : onQueue[j].of \in ts} \ spared
            THEN [onQueue[i] EXCEPT !.state = "failed"] ELSE onQueue[i]]
  BY DEF Stops
<1>2. Indices(t)' = Indices(t)
  BY IndicesStep
<1>3. ASSUME NEW i \in Indices(t), i \in Live' PROVE IsRunning(i)'
  <2>1. i \in DOMAIN onQueue /\ onQueue[i].of = t /\ onQueue[i] \in Scripts
    BY DEF Indices, QueueTypes
  <2>2. onQueue'[i].state = "live"
    BY <1>3 DEF Live
  <2>3. i \notin {j \in Live : onQueue[j].of \in ts} \ spared
    BY <1>1, <2>1, <2>2 DEF Scripts
  <2>4. i \in Live
    BY <1>1, <2>1, <2>2, <2>3 DEF Live
  <2>5. IsRunning(i)
    BY <2>1, <2>3, <2>4
  <2> QED
    BY <1>3, <2>4, <2>5, LiveStep
<1> QED
  BY <1>2, <1>3 DEF Leaves

LEMMA GoneStep ==
  ASSUME Sound, GoneOK, [Next]_vars
  PROVE  GoneOK'
<1>1. QueueTypes /\ CscTypes /\ HandOK
  BY DEF Sound
<1>2. ASSUME NEW t \in Targets PROVE Moves(t)
  BY <1>1, PlaceStep
<1>3. ASSUME NEW t \in Targets, place[t] # "inHand", Leaves(t) PROVE Leaves(t)'
  BY <1>1, <1>3, LeavesStay DEF QueueAccepted
<1>4. ASSUME NEW t \in Targets, place'[t] = "gone" PROVE Leaves(t)'
  <2>1. CASE place[t] = "gone"
    BY <1>3, <2>1 DEF GoneOK
  <2>2. CASE place[t] = "inHand" /\ queueing = "failedStopped"
    <3>1. Leaves(t) /\ ~QueueAccepted(t)
      BY <2>2 DEF GoneOK, QueueAccepted
    <3> QED
      BY <1>1, <3>1, LeavesStay
  <2>3. CASE place[t] = "withdrawn" /\ Marks
    BY <1>3, <2>3 DEF Marks, GoneOK
  <2>4. CASE place[t] = "discarded" /\ DiscardsMarked
    BY <1>3, <2>4 DEF DiscardsMarked, GoneOK
  <2> QED
    BY <1>2, <1>4, <2>1, <2>2, <2>3, <2>4, VerdictPlace DEF Moves, QueueTakes
<1>5. ASSUME step' \in {"marksFailed", "marksRest"}, NEW t \in Targets, place'[t] = "withdrawn"
      PROVE  Leaves(t)'
  <2>1. ~Checks /\ ~Cleans
    BY <1>5 DEF Checks, Cleans, Raises, LoopFaults
  <2>2. place[t] = "withdrawn"
    BY <1>2, <1>5, <2>1 DEF Moves, QueueTakes
  <2>3. CASE Removes
    <3>1. Stops(In("withdrawn")) /\ t \in In("withdrawn") /\ ~QueueAccepted(t)
      BY <2>2, <2>3 DEF Removes, In, QueueAccepted
    <3> QED
      BY <1>1, <3>1, StopsLeaves
  <2>4. CASE step \in {"marksFailed", "marksRest"}
    BY <1>3, <2>2, <2>4 DEF GoneOK
  <2> QED
    BY <1>5, <2>1, <2>3, <2>4 DEF Next, Check, Queue, Deliver, Registers, Raises, LoopFaults,
       Registered, CheckEnds, Marks, TaskLocks, QueueTakes, QueueAsks, QueueAccepted,
       QueueAcknowledged, QueueScheduled, QueueRemoves, QueueMarks, QueueFails, QueueingEnds,
       Cleanup, Discards, DiscardsStopped, DiscardsMarked, DiscardsFail, Failures, RemovalFails,
       TelemetryFaults, StopTimesOut, LoopLocks, LoopSleeps, Resumes, StopClears, StopLocks,
       OtherAdds, ScriptEnds, vars, csc
<1>6. ASSUME cleanup' = "marks", NEW t \in Targets, place'[t] = "discarded" PROVE Leaves(t)'
  <2>1. ~Discards
    BY <1>6 DEF Discards, CleanupEnds
  <2>2. place[t] = "discarded"
    BY <1>2, <1>6, <2>1, VerdictPlace DEF Moves, QueueTakes
  <2>3. CASE DiscardsStopped
    <3>1. Stops(In("discarded")) /\ t \in In("discarded") /\ ~QueueAccepted(t)
      BY <2>2, <2>3 DEF DiscardsStopped, In, QueueAccepted
    <3> QED
      BY <1>1, <3>1, StopsLeaves
  <2>4. CASE cleanup = "marks"
    BY <1>3, <2>2, <2>4 DEF GoneOK
  <2> QED
    BY <1>6, <2>1, <2>3, <2>4 DEF Next, Check, Queue, Deliver, Checks, Registers, Raises,
       LoopFaults, Registered, CheckEnds, Removes, Marks, Cleans, TaskLocks, QueueTakes, QueueAsks,
       QueueAccepted, QueueAcknowledged, QueueScheduled, QueueRemoves, QueueMarks, QueueFails,
       QueueingEnds, Cleanup, DiscardsMarked, DiscardsFail, CleanupEnds, Failures, RemovalFails,
       TelemetryFaults, StopTimesOut, LoopLocks, LoopSleeps, Resumes, StopClears, StopLocks,
       OtherAdds, ScriptEnds, vars, csc, commands
<1>7. ASSUME queueing' \in {"failedStopped", "nonconsecutiveStopped"},
             NEW t \in Targets, place'[t] = "inHand"
      PROVE  Leaves(t)'
  <2>1. place[t] = "inHand"
    BY <1>2, <1>7, VerdictPlace DEF Moves, QueueTakes
  <2>2. ASSUME NEW u \in Targets, QueueRemoves(u) PROVE Leaves(t)'
    <3>1. u = t
      BY <1>1, <2>1, <2>2 DEF QueueRemoves, HandOK, In
    <3>2. Stops({t}) /\ ~QueueAccepted(t)
      BY <2>2, <3>1 DEF QueueRemoves, QueueAccepted
    <3> QED
      BY <1>1, <3>2, StopsLeaves
  <2>3. CASE queueing \in {"failedStopped", "nonconsecutiveStopped"}
    <3>1. Leaves(t) /\ ~QueueAccepted(t)
      BY <2>1, <2>3 DEF GoneOK, QueueAccepted
    <3> QED
      BY <1>1, <3>1, LeavesStay
  <2> QED
    BY <1>7, <2>2, <2>3 DEF Next, Check, Queue, Deliver, Checks, Registers,
       Registered, Removes, Marks, Cleans, TaskLocks, QueueTakes, QueueAsks,
       QueueAccepted, QueueAcknowledged, QueueScheduled, QueueMarks, QueueFails,
       QueueingEnds, Cleanup, Discards, DiscardsStopped, DiscardsMarked, DiscardsFail, Failures,
       RemovalFails, TelemetryFaults, StopTimesOut, LoopLocks, LoopSleeps, Resumes, StopClears,
       StopLocks, OtherAdds, ScriptEnds, vars, csc
<1> QED
  BY <1>4, <1>5, <1>6, <1>7 DEF GoneOK

(* The scripts of a target whose removal was answered, be it asked for by *)
(* a check, stop, FAULT, with or without target_loop_lock, or by           *)
(* put_on_queue, have left the ScriptQueue, but for one that was running   *)
(* when it was removed, and still is.                                      *)
THEOREM GoneLeft == Spec => []GoneLeaveQueue
<1>1. Init => GoneOK
  BY DEF Init, GoneOK
<1>2. Sound /\ GoneOK /\ [Next]_vars => GoneOK'
  BY GoneStep
<1>3. GoneOK => GoneLeaveQueue
  BY DEF GoneOK, GoneLeaveQueue, Leaves, In
<1> QED
  BY <1>1, <1>2, <1>3, SoundAlways, PTL DEF Spec

(***************************************************************************)
(* The capacity.                                                           *)
(***************************************************************************)
(* Why a script may be live and no future pending for it: it runs on after *)
(* a removal, it is somebody else's, its target is in neither of the lists *)
(* of those that are followed, a cleanup that a KeyError cut short has     *)
(* emptied the futures of its target, or the answer to cmd_add is not back. *)
Excused(i) ==
  \/ IsRunning(i) \/ onQueue[i].of = Nobody
  \/ \E t \in Targets : /\ onQueue[i].of = t
                        /\ \/ place[t] \notin {"inHand", "scheduled"}
                           \/ /\ place[t] = "scheduled"
                              /\ Indices(t) \cap DOMAIN futures = {}
                           \/ /\ place[t] = "inHand" /\ queueing = "accepted"
                              /\ i = Max(Indices(t))

CapacityOK ==
  /\ \A i \in Live : i \in Pending \/ Excused(i)
  /\ Cardinality(Pending) <= Capacity
  /\ queueing \in {"asked", "accepted"} => Cardinality(Pending) < Capacity

LEMMA PendingFinite ==
  ASSUME QueueTypes, FutureTypes
  PROVE  IsFiniteSet(Pending) /\ Cardinality(Pending) \in Nat
<1>1. IsFiniteSet(1..Len(onQueue))
  BY UpToFinite DEF QueueTypes
<1>2. Pending \in SUBSET (1..Len(onQueue))
  BY DEF Pending, FutureTypes, QueueTypes
<1> QED
  BY <1>1, <1>2, FS_Subset, FS_CardinalityType

(* A new script is nobody's, or waits for the answer to cmd_add.           *)
LEMMA NewExcused ==
  ASSUME Sound, [Next]_vars, NEW i \in Live', i \notin Live
  PROVE  Excused(i)'
<1>1. QueueTypes /\ QueueGrows /\ QueueTypes'
  BY QueueStep DEF Sound
<1>2. i \in DOMAIN onQueue' /\ i \notin DOMAIN onQueue
  BY <1>1 DEF Live, QueueGrows
<1>3. CASE onQueue'[i].of = Nobody
  BY <1>3 DEF Excused
<1>4. ASSUME NEW t \in Targets, onQueue'[i].of = t, QueueAccepted(t)
      PROVE  Excused(i)'
  <2>1. i = Len(onQueue) + 1
    BY <1>1, <1>2 DEF QueueGrows
  <2>2. place'[t] = "inHand" /\ queueing' = "accepted" /\ Added(t)
    BY <1>4 DEF QueueAccepted
  <2>3. Len(onQueue') = Len(onQueue) + 1 /\ Len(onQueue) \in Nat
    BY <1>1, <2>2 DEF Added, QueueTypes
  <2>4. i \in Indices(t)'
    BY <1>2, <1>4 DEF Indices
  <2>5. Max(Indices(t)') \in 1..Len(onQueue') /\ i <= Max(Indices(t)')
    <3>1. Len(onQueue') \in Nat /\ \A j \in Indices(t)' : j \in 1..Len(onQueue')
      BY <1>1 DEF Indices, QueueTypes
    <3>2. Max(Indices(t)') \in Indices(t)' /\ \A j \in Indices(t)' : j <= Max(Indices(t)')
      BY <2>4, <3>1, Greatest
    <3> QED
      BY <2>4, <3>1, <3>2
  <2>6. i = Max(Indices(t)')
    BY <2>1, <2>3, <2>5
  <2> QED
    BY <1>4, <2>2, <2>6 DEF Excused
<1> QED
  BY <1>1, <1>2, <1>3, <1>4 DEF QueueGrows

(* A script whose future is lost or set while it is live runs on after a   *)
(* removal, or its target is not followed any more.                        *)
LEMMA PendingStep ==
  ASSUME Sound, ObservedOK, GoneOK, GoneOK', [Next]_vars,
         NEW i \in Live, i \in Live', i \in Pending, i \notin Pending'
  PROVE  Excused(i)'
<1>1. /\ QueueTypes /\ CscTypes /\ HandOK /\ QueueGrows
      /\ i \in DOMAIN onQueue /\ onQueue'[i].of = onQueue[i].of
  BY QueueStep DEF Sound, Live, QueueGrows
<1>2. i \in DOMAIN futures /\ futures[i] = "pending"
  BY DEF Pending
<1>3. ~(i \in DOMAIN futures' /\ futures'[i] = "pending")
  BY DEF Pending
<1>4. CASE Deliver
  <2> DEFINE e == Head(events)
             done == {t \in blocks : AllDone(t, Outcome(e))}
  <2>1. futures' = Without(Outcome(e), UNION {Indices(t) : t \in Forgotten(done)}) /\ events # << >>
    BY <1>4 DEF Deliver
  <2>2. e.state \in Finals => onQueue[e.index].state = e.state
    <3>1. 1 \in DOMAIN events /\ e = events[1]
      BY <1>1, <2>1 DEF QueueTypes
    <3> QED
      BY <1>1, <3>1 DEF QueueTypes, Right
  <2>3. i \in DOMAIN Outcome(e) /\ Outcome(e)[i] = "pending"
    <3>1. i = e.index => e.state \notin Finals
      BY <2>2 DEF Live, Finals
    <3> QED
      BY <1>2, <3>1 DEF Outcome
  <2>4. ASSUME NEW t \in Forgotten(done) PROVE i \notin Indices(t)
    <3>1. t \in done
      BY DEF Forgotten
    <3> QED
      BY <2>3, <3>1 DEF AllDone
  <2> HIDE DEF e, done
  <2>5. i \in DOMAIN futures' /\ futures'[i] = "pending"
    BY <2>1, <2>3, <2>4 DEF Without
  <2> QED
    BY <1>3, <2>5
<1>5. ASSUME NEW t \in Targets, onQueue[i].of = t, place'[t] \notin {"inHand", "scheduled"}
      PROVE  Excused(i)'
  BY <1>1, <1>5 DEF Excused
<1>6. ASSUME NEW ts, futures' = Marked(ts) PROVE onQueue[i].of \in ts
  BY <1>2, <1>3, <1>6 DEF Marked
<1>7. ASSUME NEW ts, futures' = Emptied(ts) PROVE \E t \in ts : i \in Indices(t)
  BY <1>2, <1>3, <1>7 DEF Emptied, Without
<1>8. ASSUME NEW t \in Targets, Registers(t) PROVE FALSE
  <2>1. place[t] = "observed" /\ futures' = Without(futures, Indices(t))
    BY <1>8 DEF Registers
  <2>2. i \in Indices(t)
    BY <1>2, <1>3, <2>1 DEF Without
  <2> QED
    BY <2>1, <2>2 DEF ObservedOK, Live
<1>9. CASE Marks
  <2>1. onQueue[i].of \in Reached(In("withdrawn"))
    BY <1>6, <1>9 DEF Marks
  <2>2. PICK t \in Targets : onQueue[i].of = t /\ place[t] = "withdrawn"
    BY <2>1 DEF Reached, In
  <2>3. place'[t] \notin {"inHand", "scheduled"}
    BY <1>1, <2>2, PlaceStep DEF Moves
  <2> QED
    BY <1>5, <2>2, <2>3
<1>10. CASE DiscardsMarked
  <2>1. onQueue[i].of \in Reached(In("discarded"))
    BY <1>6, <1>10 DEF DiscardsMarked
  <2>2. PICK t \in Targets : onQueue[i].of = t /\ place[t] = "discarded"
    BY <2>1 DEF Reached, In
  <2>3. place'[t] \notin {"inHand", "scheduled"}
    BY <1>1, <2>2, PlaceStep DEF Moves
  <2> QED
    BY <1>5, <2>2, <2>3
<1>11. CASE Cleans \/ Discards
  <2>1. futures' = Emptied(Reached(In("scheduled"))) /\ onQueue' = onQueue
    BY <1>11 DEF Cleans, Discards, Withdraws, WithdrawsNone, queueSide
  <2>2. PICK t \in Reached(In("scheduled")) : i \in Indices(t)
    BY <1>7, <2>1
  <2>3. t \in Targets /\ place[t] = "scheduled" /\ onQueue[i].of = t
    BY <2>2 DEF Reached, In, Indices
  <2>4. Indices(t)' = Indices(t) /\ Indices(t) \cap DOMAIN futures' = {}
    BY <2>1, <2>2 DEF Indices, Emptied, Without
  <2>5. place'[t] # "inHand"
    BY <1>1, <2>3, PlaceStep, VerdictPlace DEF Moves
  <2> QED
    BY <1>1, <2>3, <2>4, <2>5 DEF Excused
<1>12. ASSUME NEW t \in Targets, QueueMarks(t) PROVE Excused(i)'
  <2>1. (futures' = Emptied({t}) \/ futures' = Marked({t})) /\ place[t] = "inHand"
    BY <1>12 DEF QueueMarks
  <2>2. i \in Indices(t) /\ onQueue[i].of = t
    BY <1>1, <1>6, <1>7, <2>1 DEF Indices
  <2>3. Leaves(t)
    BY <1>12 DEF QueueMarks, GoneOK
  <2>4. IsRunning(i)
    BY <2>2, <2>3 DEF Leaves
  <2> QED
    BY <1>1, <2>4, LiveStep DEF Excused
<1>13. ASSUME NEW t \in Targets, QueueAcknowledged(t) PROVE FALSE
  <2>1. PICK last : futures' = [j \in DOMAIN futures \cup {last} |->
                                  IF j = last THEN "pending" ELSE futures[j]]
    BY <1>13 DEF QueueAcknowledged
  <2> QED
    BY <1>2, <1>3, <2>1
<1> QED
  BY <1>2, <1>3, <1>4, <1>8, <1>9, <1>10, <1>11, <1>12, <1>13 DEF Next, Check, Queue, Checks,
     Removes, QueueAccepted, QueueRemoves, Registered, TaskLocks, QueueAsks, QueueScheduled,
     QueueMarks, QueueFails, Cleanup, Discards, DiscardsStopped, DiscardsMarked, DiscardsFail,
     Failures, RemovalFails, TelemetryFaults, StopTimesOut, QueueTakes, LoopLocks, LoopSleeps,
     Resumes, StopClears, StopLocks, OtherAdds, ScriptEnds, vars, model

(* What excuses a script goes on to excuse it, until its future is made.   *)
LEMMA ExcusedStep ==
  ASSUME Sound, [Next]_vars, NEW i \in Live, i \in Live', Excused(i)
  PROVE  i \in Pending' \/ Excused(i)'
<1>1. /\ QueueTypes /\ CscTypes /\ HandOK /\ QueueGrows
      /\ i \in DOMAIN onQueue /\ onQueue'[i].of = onQueue[i].of
  BY QueueStep DEF Sound, Live, QueueGrows
<1>2. CASE IsRunning(i) \/ onQueue[i].of = Nobody
  BY <1>1, <1>2, LiveStep DEF Excused
<1>3. ASSUME NEW t \in Targets, onQueue[i].of = t, place[t] \notin {"inHand", "scheduled"}
      PROVE  Excused(i)'
  <2>1. place[t] # "queued"
    BY <1>1, <1>3 DEF HandOK, In, Indices
  <2>2. place'[t] \notin {"inHand", "scheduled"}
    BY <1>1, <1>3, <2>1, PlaceStep DEF Moves
  <2> QED
    BY <1>1, <1>3, <2>2 DEF Excused
<1>4. ASSUME NEW t \in Targets, onQueue[i].of = t, place[t] = "scheduled",
             Indices(t) \cap DOMAIN futures = {}
      PROVE  Excused(i)'
  <2>1. Indices(t)' = Indices(t)
    BY <1>1, <1>4, IndicesStep DEF QueueAccepted
  <2>2. place'[t] # "inHand"
    BY <1>1, <1>4, PlaceStep, VerdictPlace DEF Moves
  <2>3. ASSUME NEW k \in DOMAIN futures' PROVE k \in DOMAIN futures \/ k \notin Indices(t)
    <3>1. ASSUME NEW u \in Targets, QueueAcknowledged(u)
          PROVE  k \in DOMAIN futures \/ k \notin Indices(t)
      <4> DEFINE last == Max(Indices(u))
      <4>1. Indices(u) # {} /\ u # t
        BY <1>4, <3>1 DEF QueueAcknowledged, Sound, HandOK, In
      <4>2. Len(onQueue) \in Nat /\ \A l \in Indices(u) : l \in 1..Len(onQueue)
        BY <1>1 DEF Indices, QueueTypes
      <4>3. last \in Indices(u)
        BY <4>1, <4>2, Greatest
      <4>4. DOMAIN futures' = DOMAIN futures \cup {last}
        BY <3>1 DEF QueueAcknowledged
      <4> HIDE DEF last
      <4> QED
        BY <4>1, <4>3, <4>4 DEF Indices
    <3>2. CASE Deliver
      BY <3>2 DEF Deliver, Without, Outcome
    <3>3. CASE \/ Marks \/ Cleans \/ Discards \/ DiscardsMarked
               \/ \E u \in Targets : Registers(u) \/ QueueMarks(u)
      <4>1. \/ \E ts : futures' = Marked(ts) \/ futures' = Emptied(ts)
            \/ \E keys : futures' = Without(futures, keys)
        BY <3>3 DEF Marks, Cleans, Withdraws, WithdrawsNone, Discards, DiscardsMarked, Registers,
           QueueMarks
      <4> QED
        BY <4>1 DEF Without, Marked, Emptied
    <3>4. CASE futures' = futures
      BY <3>4
    <3> QED
      BY <3>1, <3>2, <3>3, <3>4 DEF Next, Check, Queue, Checks, Removes, QueueAccepted,
         Registered, TaskLocks, QueueAsks, QueueScheduled, QueueMarks, QueueFails, Cleanup,
         Discards, DiscardsStopped, DiscardsMarked, DiscardsFail, Failures, RemovalFails,
         TelemetryFaults, StopTimesOut, QueueTakes, QueueRemoves, LoopLocks, LoopSleeps, Resumes,
         StopClears, StopLocks, OtherAdds, ScriptEnds, vars, model
  <2>4. Indices(t)' \cap DOMAIN futures' = {}
    BY <1>4, <2>1, <2>3
  <2> QED
    BY <1>1, <1>4, <2>2, <2>4 DEF Excused
<1>5. ASSUME NEW t \in Targets, onQueue[i].of = t, place[t] = "inHand", queueing = "accepted",
             i = Max(Indices(t))
      PROVE  i \in Pending' \/ Excused(i)'
  <2>1. ASSUME NEW u \in Targets, QueueAcknowledged(u) PROVE i \in Pending'
    <3>1. u = t
      BY <1>1, <1>5, <2>1 DEF QueueAcknowledged, HandOK, In
    <3>2. futures' = [j \in DOMAIN futures \cup {i} |-> IF j = i THEN "pending" ELSE futures[j]]
      BY <1>5, <2>1, <3>1 DEF QueueAcknowledged
    <3> QED
      BY <3>2 DEF Pending
  <2>2. CASE StopTimesOut /\ queueing' # "accepted"
    <3>1. place' = Moved({"inHand", "observed", "withdrawn"}, "lost")
      BY <1>5, <2>2 DEF StopTimesOut
    <3>2. place'[t] = "lost"
      BY <1>5, <3>1 DEF Moved
    <3> QED
      BY <1>1, <1>5, <3>2 DEF Excused
  <2>3. CASE (~\E u \in Targets : QueueAcknowledged(u)) /\ (StopTimesOut => queueing' = "accepted")
    <3>1. queueing' = "accepted"
      BY <1>5, <2>3 DEF Next, Check, Queue, Deliver, Checks, Registers, Registered, Removes, Marks,
         Cleans, TaskLocks, QueueTakes, QueueAsks, QueueAccepted, QueueMarks, QueueFails, Cleanup,
         Discards, DiscardsStopped, DiscardsMarked, DiscardsFail, Failures, RemovalFails,
         TelemetryFaults, StopTimesOut, QueueScheduled, QueueRemoves, LoopLocks, LoopSleeps,
         Resumes, StopClears, StopLocks, OtherAdds, ScriptEnds, vars, csc
    <3>2. place'[t] = "inHand"
      BY <1>1, <1>5, <3>1, PlaceStep DEF Moves
    <3>3. Indices(t)' = Indices(t)
      BY <1>1, <1>5, IndicesStep DEF QueueAccepted
    <3> QED
      BY <1>1, <1>5, <3>1, <3>2, <3>3 DEF Excused
  <2> QED
    BY <2>1, <2>2, <2>3
<1> QED
  BY <1>2, <1>3, <1>4, <1>5 DEF Excused

LEMMA CountStep ==
  ASSUME Sound, CapacityOK, [Next]_vars
  PROVE  /\ Cardinality(Pending') <= Capacity
         /\ queueing' \in {"asked", "accepted"} => Cardinality(Pending') < Capacity
<1>1. /\ IsFiniteSet(Pending) /\ Cardinality(Pending) \in Nat /\ Capacity \in Nat
      /\ IsFiniteSet(Pending') /\ Cardinality(Pending') \in Nat
  <2>1. QueueTypes /\ FutureTypes /\ QueueTypes' /\ FutureTypes'
    BY SoundStep DEF Sound
  <2>2. IsFiniteSet(Pending) /\ Cardinality(Pending) \in Nat
    BY <2>1, PendingFinite
  <2>3. IsFiniteSet(Pending') /\ Cardinality(Pending') \in Nat
    <3>1. IsFiniteSet(1..Len(onQueue'))
      BY <2>1, UpToFinite DEF QueueTypes
    <3>2. Pending' \in SUBSET (1..Len(onQueue'))
      BY <2>1 DEF Pending, FutureTypes, QueueTypes
    <3> QED
      BY <3>1, <3>2, FS_Subset, FS_CardinalityType
  <2> QED
    BY <2>2, <2>3, ScriptTrackingAssumption
<1>2. ASSUME NEW t \in Targets, QueueAcknowledged(t)
      PROVE  Cardinality(Pending') <= Capacity /\ queueing' \notin {"asked", "accepted"}
  <2>1. PICK last : futures' = [j \in DOMAIN futures \cup {last} |->
                                  IF j = last THEN "pending" ELSE futures[j]]
    BY <1>2 DEF QueueAcknowledged
  <2>2. queueing = "accepted" /\ queueing' \notin {"asked", "accepted"}
    BY <1>2 DEF QueueAcknowledged
  <2>3. Pending' \in SUBSET (Pending \cup {last})
    BY <2>1 DEF Pending
  <2>4. /\ IsFiniteSet(Pending \cup {last}) /\ Cardinality(Pending \cup {last}) \in Nat
        /\ Cardinality(Pending \cup {last}) <= Cardinality(Pending) + 1
    BY <1>1, OneMore
  <2>5. Cardinality(Pending') <= Cardinality(Pending \cup {last})
    BY <2>3, <2>4, FS_Subset
  <2>6. Cardinality(Pending) < Capacity
    BY <2>2 DEF CapacityOK
  <2> QED
    BY <1>1, <2>2, <2>4, <2>5, <2>6
<1>3. CASE ~\E t \in Targets : QueueAcknowledged(t)
  <2>1. Pending' \in SUBSET Pending
    <3>1. CASE futures' = futures
      BY <3>1 DEF Pending
    <3>2. CASE Deliver
      BY <3>2 DEF Deliver, Pending, Without, Outcome
    <3>3. CASE \/ Marks \/ Cleans \/ Discards \/ DiscardsMarked
               \/ \E t \in Targets : Registers(t) \/ QueueMarks(t)
      <4>1. \/ \E ts : futures' = Marked(ts) \/ futures' = Emptied(ts)
            \/ \E keys : futures' = Without(futures, keys)
        BY <3>3 DEF Marks, Cleans, Withdraws, WithdrawsNone, Discards, DiscardsMarked, Registers,
           QueueMarks
      <4> QED
        BY <4>1 DEF Pending, Without, Marked, Emptied
    <3> QED
      BY <1>3, <3>1, <3>2, <3>3 DEF Next, Check, Queue, Checks, Removes, QueueAccepted, QueueRemoves,
         Registered, TaskLocks, QueueAsks, QueueScheduled, QueueMarks, QueueFails, Cleanup,
         Discards, DiscardsStopped, DiscardsMarked, DiscardsFail, Failures, RemovalFails,
         TelemetryFaults, StopTimesOut, QueueTakes, LoopLocks, LoopSleeps, Resumes, StopClears,
         StopLocks, OtherAdds, ScriptEnds, vars, model
  <2>2. Cardinality(Pending') <= Cardinality(Pending)
    BY <1>1, <2>1, FS_Subset
  <2>3. queueing' \in {"asked", "accepted"} => Cardinality(Pending) < Capacity
    BY <1>3 DEF CapacityOK, Next, Check, Queue, Deliver, Checks, Registers, Registered, Removes,
       Marks, Cleans, TaskLocks, QueueTakes, QueueAsks, QueueAccepted, QueueMarks, QueueFails,
       Cleanup, Discards, DiscardsStopped, DiscardsMarked, DiscardsFail, Failures, RemovalFails,
       TelemetryFaults, StopTimesOut, QueueScheduled, QueueRemoves, QueueingEnds, LoopLocks,
       LoopSleeps, Resumes, StopClears, StopLocks, OtherAdds, ScriptEnds, vars, csc
  <2>4. Cardinality(Pending) <= Capacity
    BY DEF CapacityOK
  <2> QED
    BY <1>1, <2>2, <2>3, <2>4
<1> QED
  BY <1>1, <1>2, <1>3

LEMMA CapacityStep ==
  ASSUME Sound, ObservedOK, GoneOK, CapacityOK, [Next]_vars
  PROVE  CapacityOK'
<1>1. GoneOK'
  BY GoneStep
<1>2. ASSUME NEW i \in Live' PROVE i \in Pending' \/ Excused(i)'
  <2>1. CASE i \notin Live
    BY <2>1, NewExcused
  <2>2. CASE i \in Live /\ Excused(i)
    BY <2>2, ExcusedStep
  <2>3. CASE i \in Live /\ i \in Pending
    BY <1>1, <2>3, PendingStep
  <2> QED
    BY <2>1, <2>2, <2>3 DEF CapacityOK
<1> QED
  BY <1>2, CountStep DEF CapacityOK

LEMMA CapacityWaiting == Sound /\ CapacityOK => WithinCapacity
<1> SUFFICES ASSUME Sound, CapacityOK PROVE WithinCapacity
  OBVIOUS
<1>1. IsFiniteSet(Pending) /\ Cardinality(Pending) \in Nat /\ Capacity \in Nat
  BY PendingFinite, ScriptTrackingAssumption DEF Sound
<1>2. ASSUME NEW i \in Waiting, i \notin Pending
      PROVE  \E t \in Targets : /\ place[t] = "inHand" /\ queueing = "accepted"
                                /\ i = Max(Indices(t))
  <2>1. i \in Live /\ onQueue[i].of \in Counted /\ ~IsRunning(i)
    BY <1>2 DEF Waiting
  <2>2. onQueue[i].of \in Targets /\ onQueue[i].of # Nobody
    BY <2>1, ScriptTrackingAssumption DEF Counted, In
  <2>3. Excused(i)
    BY <1>2, <2>1 DEF CapacityOK
  <2> QED
    BY <2>1, <2>2, <2>3 DEF Excused, Counted, In
<1>3. CASE \E i \in Waiting : i \notin Pending
  <2>1. PICK i \in Waiting : i \notin Pending
    BY <1>3
  <2>2. Cardinality(Pending) < Capacity
    BY <1>2, <2>1 DEF CapacityOK
  <2>3. Waiting \in SUBSET (Pending \cup {i})
    <3>1. \A t, u \in Targets : place[t] = "inHand" /\ place[u] = "inHand" => t = u
      BY DEF Sound, HandOK, In
    <3> QED
      BY <1>2, <2>1, <3>1
  <2>4. /\ IsFiniteSet(Pending \cup {i}) /\ Cardinality(Pending \cup {i}) \in Nat
        /\ Cardinality(Pending \cup {i}) <= Cardinality(Pending) + 1
    BY <1>1, OneMore
  <2>5. Cardinality(Waiting) <= Cardinality(Pending \cup {i}) /\ Cardinality(Waiting) \in Nat
    BY <2>3, <2>4, FS_Subset, FS_CardinalityType
  <2> QED
    BY <1>1, <2>2, <2>4, <2>5 DEF WithinCapacity
<1>4. CASE Waiting \in SUBSET Pending
  <2>1. Cardinality(Waiting) <= Cardinality(Pending) /\ Cardinality(Waiting) \in Nat
    BY <1>1, <1>4, FS_Subset, FS_CardinalityType
  <2>2. Cardinality(Pending) <= Capacity
    BY DEF CapacityOK
  <2> QED
    BY <1>1, <2>1, <2>2 DEF WithinCapacity
<1> QED
  BY <1>3, <1>4

(* No more than _max_queue_capacity scripts of the targets that are in     *)
(* hand or scheduled wait to end, besides a running one that was spared,   *)
(* though futures are forgotten, set and made while put_on_queue waits for *)
(* a place, and removals fail, are cut short by a KeyError, or interleave  *)
(* with each other (_wait_queue_capacity_available).                       *)
THEOREM CapacityKept == Spec => []WithinCapacity
<1>1. Init => ObservedOK /\ GoneOK /\ CapacityOK
  <2>1. Init => Live = {} /\ Pending = {} /\ queueing = "off"
    BY DEF Init, Live, Pending
  <2>2. Cardinality({}) = 0 /\ Capacity \in Nat
    BY FS_EmptySet, ScriptTrackingAssumption
  <2>3. 0 <= Capacity
    BY <2>2
  <2> QED
    BY <2>1, <2>2, <2>3 DEF Init, ObservedOK, GoneOK, CapacityOK
<1>2. Sound /\ ObservedOK /\ [Next]_vars => ObservedOK'
  BY ObservedStep
<1>3. Sound /\ GoneOK /\ [Next]_vars => GoneOK'
  BY GoneStep
<1>4. Sound /\ ObservedOK /\ GoneOK /\ CapacityOK /\ [Next]_vars => CapacityOK'
  BY CapacityStep
<1> QED
  BY <1>1, <1>2, <1>3, <1>4, SoundAlways, CapacityWaiting, PTL DEF Spec

(***************************************************************************)
(* Blocks whose scripts are all there.                                     *)
(***************************************************************************)
(* If nobody else adds scripts, those of the target that is being sent are *)
(* the last of the ScriptQueue, one after the other.                       *)
WholeOK ==
  /\ queueing \notin {"nonconsecutive", "nonconsecutiveStopped"}
  /\ \A t \in Targets :
       /\ place[t] = "inHand" =>
            \A i \in Indices(t), j \in DOMAIN onQueue : i <= j => j \in Indices(t)
       /\ place[t] \in {"scheduled", "observed", "registered"} =>
            Cardinality(Indices(t)) = Size[t]

LEMMA WholeStep ==
  ASSUME Others = 0, Sound, WholeOK, [Next]_vars
  PROVE  WholeOK'
<1>1. /\ QueueTypes /\ CscTypes /\ HandOK /\ QueueGrows
      /\ Len(onQueue) \in Nat /\ DOMAIN onQueue = 1..Len(onQueue)
      /\ Len(onQueue') \in Nat /\ DOMAIN onQueue' = 1..Len(onQueue')
  BY QueueStep DEF Sound, QueueTypes
<1>2. ~OtherAdds
  <2>1. IsFiniteSet(1..Len(onQueue))
    BY <1>1, UpToFinite
  <2>2. {i \in DOMAIN onQueue : onQueue[i].of = Nobody} \in SUBSET (1..Len(onQueue))
    BY <1>1
  <2>3. Cardinality({i \in DOMAIN onQueue : onQueue[i].of = Nobody}) \in Nat
    BY <2>1, <2>2, FS_Subset, FS_CardinalityType
  <2>4. ~(Cardinality({i \in DOMAIN onQueue : onQueue[i].of = Nobody}) < Others)
    BY <2>3
  <2> QED
    BY <2>4 DEF OtherAdds
<1>3. queueing' \notin {"nonconsecutive", "nonconsecutiveStopped"}
  <2>1. ASSUME NEW t \in Targets, QueueAcknowledged(t)
        PROVE  queueing' \notin {"nonconsecutive", "nonconsecutiveStopped"}
    <3> DEFINE last == Max(Indices(t))
    <3>1. place[t] = "inHand" /\ Indices(t) # {}
      BY <2>1 DEF QueueAcknowledged, Sound, HandOK, In
    <3>2. \A i \in Indices(t) : i \in 1..Len(onQueue)
      BY <1>1 DEF Indices
    <3>3. last \in Indices(t) /\ \A i \in Indices(t) : i <= last
      BY <1>1, <3>1, <3>2, Greatest
    <3>4. queueing' = IF Indices(t) = {last} \/ last - 1 \in Indices(t)
                        THEN "next" ELSE "nonconsecutive"
      BY <2>1 DEF QueueAcknowledged
    <3> HIDE DEF last
    <3>5. ASSUME Indices(t) # {last} PROVE last - 1 \in Indices(t)
      <4>1. PICK i \in Indices(t) : i # last
        BY <3>3, <3>5
      <4>2. last - 1 \in DOMAIN onQueue /\ i <= last - 1
        BY <1>1, <3>2, <3>3, <4>1
      <4> QED
        BY <3>1, <4>2 DEF WholeOK
    <3> QED
      BY <3>4, <3>5
  <2> QED
    BY <2>1 DEF WholeOK, Next, Check, Queue, Deliver, Checks, Registers, Registered, Removes, Marks,
       Cleans, TaskLocks, QueueTakes, QueueAsks, QueueAccepted, QueueMarks, QueueFails, Cleanup,
       Discards, DiscardsStopped, DiscardsMarked, DiscardsFail, Failures, RemovalFails,
       TelemetryFaults, StopTimesOut, QueueScheduled, QueueRemoves, QueueingEnds, LoopLocks,
       LoopSleeps, Resumes, StopClears, StopLocks, OtherAdds, ScriptEnds, vars, csc
<1>4. ASSUME NEW t \in Targets PROVE Moves(t) /\ (~QueueAccepted(t) => Indices(t)' = Indices(t))
  BY <1>1, PlaceStep, IndicesStep
<1>6. ASSUME NEW t \in Targets, place'[t] = "inHand",
             NEW i \in Indices(t)', NEW j \in DOMAIN onQueue', i <= j
      PROVE  j \in Indices(t)'
  <2>1. CASE QueueTakes(t)
    BY <1>1, <1>4, <1>6, <2>1 DEF QueueTakes, HandOK, In, QueueAccepted
  <2>2. CASE place[t] = "inHand"
    <3>1. \A u \in Targets : place[u] = "inHand" => u = t
      BY <1>1, <2>2 DEF HandOK, In
    <3>2. CASE j \in DOMAIN onQueue
      <4>1. i \in DOMAIN onQueue /\ i \in Indices(t)
        BY <1>1, <1>6, <3>2 DEF Indices, QueueGrows
      <4>2. j \in Indices(t)
        BY <1>6, <2>2, <3>2, <4>1 DEF WholeOK
      <4> QED
        BY <1>1, <4>2, IndicesStep
    <3>3. CASE j \notin DOMAIN onQueue
      <4>1. onQueue' # onQueue
        BY <1>6, <3>3
      <4>2. onQueue'[j].of # Nobody
        <5>1. PICK owner \in Targets : Added(owner) /\ place[owner] = "inHand"
          <6>1. DOMAIN onQueue' # DOMAIN onQueue
            BY <1>6, <3>3
          <6>2. ASSUME NEW ts, Stops(ts) PROVE DOMAIN onQueue' = DOMAIN onQueue
            BY <6>2 DEF Stops
          <6>3. ASSUME NEW k \in DOMAIN onQueue, ScriptEnds(k)
                PROVE  DOMAIN onQueue' = DOMAIN onQueue
            BY <6>3 DEF ScriptEnds
          <6>4. \E u \in Targets : QueueAccepted(u)
            BY <1>2, <4>1, <6>1, <6>2, <6>3 DEF Next, Check, Queue, Deliver, Checks, Registers,
               Registered, Removes, Marks, Cleans, TaskLocks, QueueTakes, QueueAsks, QueueMarks,
               QueueFails, Cleanup, Discards, DiscardsStopped, DiscardsMarked, DiscardsFail,
               Failures, RemovalFails, TelemetryFaults, StopTimesOut, QueueAcknowledged,
               QueueScheduled, QueueRemoves, LoopLocks, LoopSleeps, Resumes, StopClears,
               StopLocks, vars, queueSide
          <6> QED
            BY <6>4 DEF QueueAccepted
        <5>2. j = Len(onQueue) + 1 /\ onQueue'[j].of = owner
          BY <1>1, <1>6, <3>3, <5>1 DEF Added, QueueTypes
        <5> QED
          BY <5>2, ScriptTrackingAssumption
      <4>3. onQueue'[j].of \in Targets /\ QueueAccepted(onQueue'[j].of)
        BY <1>1, <1>6, <3>3, <4>2 DEF QueueGrows
      <4>4. onQueue'[j].of = t
        BY <3>1, <4>3 DEF QueueAccepted
      <4> QED
        BY <1>6, <4>4 DEF Indices
    <3> QED
      BY <3>2, <3>3
  <2>3. place[t] = "inHand" \/ QueueTakes(t)
    BY <1>4, <1>6, VerdictPlace DEF Moves
  <2> QED
    BY <2>1, <2>2, <2>3
<1>7. ASSUME NEW t \in Targets, place'[t] \in {"scheduled", "observed", "registered"}
      PROVE  Cardinality(Indices(t)') = Size[t]
  <2>1. CASE place[t] = "inHand"
    <3>1. queueing' = "off" /\ place'[t] = "scheduled"
      BY <1>4, <1>7, <2>1 DEF Moves
    <3>2. PICK u \in Targets : QueueScheduled(u)
      <4>1. queueing # "off" /\ place \in [Targets -> Places]
        BY <1>1, <2>1 DEF HandOK, CscTypes, In
      <4>2. ~QueueFails /\ ~(StopTimesOut /\ queueing' # queueing)
        BY <2>1, <3>1, <4>1 DEF QueueFails, StopTimesOut, Moved
      <4>3. ASSUME NEW u \in Targets, QueueMarks(u) PROVE FALSE
        <5>1. place' = Moved({"inHand"}, "gone")
          BY <4>3 DEF QueueMarks, QueueingEnds, WholeOK
        <5> QED
          BY <2>1, <3>1, <5>1 DEF Moved
      <4> QED
        BY <3>1, <4>1, <4>2, <4>3 DEF Next, Check, Queue, Deliver, Checks, Registers, Registered,
           Removes, Marks, Cleans, TaskLocks, QueueTakes, QueueAsks, QueueAccepted,
           QueueAcknowledged, QueueRemoves, LoopLocks, LoopSleeps, Resumes, StopClears, StopLocks,
           OtherAdds, ScriptEnds, Cleanup, Discards, DiscardsStopped, DiscardsMarked,
           DiscardsFail, Failures, RemovalFails, TelemetryFaults, vars, csc
    <3>3. u = t
      BY <1>1, <2>1, <3>2 DEF QueueScheduled, HandOK, In
    <3>4. Cardinality(Indices(t)) = Size[t] /\ ~QueueAccepted(t)
      BY <3>2, <3>3 DEF QueueScheduled, QueueAccepted
    <3> QED
      BY <1>4, <3>4
  <2>2. CASE place[t] \in {"scheduled", "observed", "registered"}
    BY <1>4, <2>2 DEF WholeOK, QueueAccepted
  <2>3. place[t] \in {"inHand", "scheduled", "observed", "registered"}
    BY <1>4, <1>7 DEF Moves, QueueTakes
  <2> QED
    BY <2>1, <2>2, <2>3
<1> QED
  BY <1>3, <1>6, <1>7 DEF WholeOK

(* While nobody else adds scripts to the ScriptQueue, the SAL indices of a *)
(* block are consecutive, and what is registered as observed had all its   *)
(* scripts added (put_on_queue, add_sal_index).  Somebody who adds one in  *)
(* between is enough to break it.                                          *)
THEOREM RegisteredWhole == ASSUME Others = 0 PROVE Spec => []RegisteredAreWhole
<1>1. Init => WholeOK
  BY DEF Init, WholeOK, Indices
<1>2. Sound /\ WholeOK /\ [Next]_vars => WholeOK'
  BY WholeStep
<1>3. WholeOK => RegisteredAreWhole
  BY DEF WholeOK, RegisteredAreWhole, In
<1> QED
  BY <1>1, <1>2, <1>3, SoundAlways, PTL DEF Spec
===============================================================================
