--------------------------- MODULE DriverStateProofs ---------------------------
(***************************************************************************)
(* What DriverState's runs check on three targets, proved for any set of   *)
(* targets and any bounds.                                                 *)
(***************************************************************************)
EXTENDS DriverState, FiniteSetTheorems, SequenceTheorems, TLAPS

(***************************************************************************)
(* Sequences of targets, and how the actions move targets between them.    *)
(***************************************************************************)
(* No two elements are in the relation R.                                  *)
Alone(R, s) == \A i, j \in DOMAIN s : <<s[i], s[j]>> \in R => i = j
Strangers(R, s, t) ==
  \A i \in DOMAIN s, j \in DOMAIN t : <<s[i], t[j]>> \notin R /\ <<t[j], s[i]>> \notin R

(* The queue, what is scheduled, what has failed and what is in hand.      *)
Apart(R, q, s, f, h) ==
  /\ Alone(R, q) /\ Alone(R, s) /\ Alone(R, f) /\ Alone(R, h)
  /\ Strangers(R, q, s) /\ Strangers(R, q, f) /\ Strangers(R, q, h)
  /\ Strangers(R, s, f) /\ Strangers(R, s, h) /\ Strangers(R, f, h)

(* Whatever comes first is in the relation R to what comes later.          *)
Ascending(R, s) == \A i, j \in DOMAIN s : i < j => <<s[i], s[j]>> \in R
Precede(R, s, t) == \A i \in DOMAIN s, j \in DOMAIN t : <<s[i], t[j]>> \in R

InOrder(R, q, s, f, h) ==
  /\ Ascending(R, q) /\ Ascending(R, s) /\ Ascending(R, f)
  /\ Precede(R, s, h) /\ Precede(R, s, q) /\ Precede(R, h, q) /\ Precede(R, f, q)

(***************************************************************************)
(* The inductive invariants.                                               *)
(***************************************************************************)
Held == IF inHand = None THEN << >> ELSE <<inHand>>

Idle == {"off", "top", "failed"}

(* Where the loop has a current_scheduler_state open.                      *)
Opened == {"selecting", "registering", "estimating", "guessing", "estimated",
           "predicting", "playing"}

(* The simple types, and the label the coroutines other than the loop take.*)
ControlTypes ==
  /\ algorithm \in Algorithms /\ mode \in Modes
  /\ {enabled, runSet, needQueue, needPredict} \subseteq BOOLEAN
  /\ session \in {"idle", "running", "predicting"}
  /\ tlock \in {"loop", "check", None}
  /\ pc \in [Procs -> Labels]
  /\ pc["check"] \in {"off", "rolling"}
  /\ pc["stop"] \in {"off", "asked"}
  /\ pc["predict"] \in {"off", "predicting", "playing"}
  /\ pc["load"] \in {"off", "asked"}
  /\ stray \in Targets \cup {"asking", None}

(* target_loop_lock is held for a part of the body of the loop or of the   *)
(* check, and only a loop that was resumed takes it.                       *)
LockInv ==
  /\ tlock = "loop" <=> pc["loop"] \notin Idle
  /\ tlock = "check" <=> At("check", "rolling")
  /\ tlock = "loop" => enabled /\ session = "running"
  /\ enabled <=> ~At("loop", "off")
  /\ At("stop", "asked") => enabled /\ session = "running" /\ ~runSet
  /\ runSet /\ enabled => session = "running"
  /\ ~enabled => session # "running"
  /\ ~At("predict", "off") => session = "predicting" \/ ~enabled
  /\ session = "predicting" => ~At("predict", "off")
  /\ session # "running" => scheduled = << >> /\ (enabled => queue = << >>)

(* One snapshot is open at a time, by whoever is between its two ends; one *)
(* target is in hand while it is sent; failed targets are rolled back.     *)
OpenInv ==
  /\ kept # NoFile <=> pc["loop"] \in Opened \/ ~At("predict", "off")
  /\ inHand # None <=> At("loop", "queueing")
  /\ failing # << >> <=> At("loop", "rolling") \/ At("check", "rolling")

ControlInv == ControlTypes /\ LockInv /\ OpenInv

(* The values of the variables that hold data.                             *)
PlanTypes ==
  /\ {queue, scheduled, failing} \subseteq Seq(Planned)
  /\ inHand \in Planned \cup {None}
  /\ selected \in Items \cup {None} /\ desired \in Targets \cup {None}

StoreTypes ==
  /\ kept \in Files \cup {NoFile}
  /\ loads \in 0..MaxLoads /\ (At("load", "asked") => loads < MaxLoads)
  /\ driver \in Snapshots
  /\ DOMAIN disk \subseteq Files /\ \A f \in DOMAIN disk : disk[f] \in Snapshots

DataTypes == PlanTypes /\ StoreTypes

(* What is in use, as a set.                                               *)
Using == Range(queue) \cup Range(scheduled) \cup Range(failing)
           \cup (IF inHand = None THEN {} ELSE {inHand})

ShareFile == {x \in Planned \X Planned : x[1].file = x[2].file /\ x[1].file # NoFile}
ShareTarget == {x \in Planned \X Planned : x[1].item = x[2].item /\ ~x[1].item.cwfs}

(* The files of what is in use are on disk, one each, and the open         *)
(* snapshot is in a file of its own.                                       *)
FilesInv ==
  /\ Referenced \subseteq DOMAIN disk
  /\ Apart(ShareFile, queue, scheduled, failing, Held)
  /\ kept \notin FilesOf(InUse)

StoreInv == ControlInv /\ DataTypes /\ FilesInv

(* Everything that is counted was issued, except while the driver is       *)
(* played forward.                                                         *)
Forward == Resetting \/ ~At("predict", "off")

CountInv ==
  /\ ItemsOf(InUse) \subseteq issued
  /\ \A f \in DOMAIN disk : disk[f].counted \subseteq issued
  /\ ~Forward => driver.counted \subseteq issued

(* The snapshots that may still be restored: what a loop that failed left  *)
(* on the queue goes when the next one starts.                             *)
Restorable ==
  IF enabled THEN Referenced
  ELSE FilesOf(scheduled) \cup FilesOf(failing) \cup FilesOf(Held) \cup ({kept} \ {NoFile})

(* They are no older than the load that is secured.                        *)
LoadInv ==
  /\ secured \in 0..loads
  /\ driver.loaded >= secured
  /\ \A f \in Restorable : disk[f].loaded >= secured
  /\ driver.loaded <= loads
  /\ \A f \in DOMAIN disk : disk[f].loaded <= loads

(* Snapshots of one load, the second taken when the first was.             *)
Older(d, e) == d.loaded = e.loaded => d.counted \subseteq e.counted

Base == IF Forward THEN disk[kept] ELSE driver

OlderFile == {x \in Planned \X Planned : Older(disk[x[1].file], disk[x[2].file])}

Generating == {"generating", "selecting", "registering"}

(* What is in use was selected in its order, each target with a snapshot   *)
(* in the ADVANCE mode and none in the SIMPLE mode; all the snapshots are  *)
(* from before where the driver is, or comes back to.                      *)
OrderInv ==
  /\ mode = "SIMPLE" => pc["loop"] \notin Generating /\ FilesOf(InUse) = {}
  /\ mode # "SIMPLE" => /\ \A x \in Using : x.file # NoFile
                        /\ InOrder(OlderFile, queue, scheduled, failing, Held)
  /\ \A f \in Referenced : Older(disk[f], Base)
  /\ kept # NoFile => \A f \in FilesOf(InUse) : Older(disk[f], disk[kept])

(* The targets under way, but for the wavefront sensing before them.       *)
Committed == {i.of : i \in {j \in ItemsOf(InUse) : ~j.cwfs}}
InSelected == {i.of : i \in {j \in {selected} \ {None} : ~j.cwfs}}

(* None of them is offered for selection, or is once the driver is taken   *)
(* back to the open snapshot.                                              *)
WaitingInv ==
  /\ Apart(ShareTarget, queue, scheduled, failing, Held)
  /\ driver.waiting \cap Committed = {}
  /\ kept # NoFile => disk[kept].waiting \cap Committed = {}
  /\ desired \notin Committed
  /\ At("loop", "registering") =>
       InSelected \cap (Committed \cup driver.waiting \cup {desired}) = {}

(***************************************************************************)
(* Lemmas about sequences.                                                 *)
(***************************************************************************)
(* Elements picked from a sequence, in their order.                        *)
Picks(u, s, I) ==
  /\ I \subseteq DOMAIN s
  /\ \E g \in [DOMAIN u -> I] :
       /\ \A j \in DOMAIN u : u[j] = s[g[j]]
       /\ \A j, k \in DOMAIN u : j < k => g[j] < g[k]
       /\ \A j, k \in DOMAIN u : g[j] = g[k] => j = k

(* Only(s, I): the elements of s at the indices of I, each once, in the    *)
(* order they have in s.                                                   *)
LEMMA OnlyPicks ==
  ASSUME NEW S, NEW s \in Seq(S), NEW I \in SUBSET DOMAIN s
  PROVE  Only(s, I) \in Seq(S) /\ Picks(Only(s, I), s, I)
<1> DEFINE Below(i) == {k \in I : k <= i}
           n == Cardinality(I)
           rank == [i \in I |-> Cardinality(Below(i))]
           g == [j \in 1..n |-> CHOOSE i \in I : Cardinality(Below(i)) = j]
<1>1. I \subseteq 1..Len(s) /\ Len(s) \in Nat
  BY LenProperties
<1>2. IsFiniteSet(I) /\ n \in Nat
  <2>1. IsFiniteSet(1..Len(s))
    BY <1>1, FS_Interval
  <2> QED
    BY <2>1, <1>1, FS_Subset, FS_CardinalityType
<1>3. \A i \in I : /\ IsFiniteSet(Below(i)) /\ Below(i) \in SUBSET I
                   /\ Cardinality(Below(i)) \in 1..n /\ Cardinality(Below(i)) \in Nat
  <2> TAKE i \in I
  <2>1. IsFiniteSet(Below(i)) /\ Cardinality(Below(i)) <= n /\ Cardinality(Below(i)) \in Nat
    BY <1>2, FS_Subset, FS_CardinalityType
  <2>2. i \in Below(i)
    BY <1>1
  <2>3. Cardinality(Below(i)) # 0
    BY <2>1, <2>2, FS_EmptySet
  <2> QED
    BY <2>1, <2>3, <1>2
<1>4. \A i, k \in I : i < k => Cardinality(Below(i)) < Cardinality(Below(k))
  <2> TAKE i, k \in I
  <2> HAVE i < k
  <2>1. Below(i) \in SUBSET Below(k) /\ k \in Below(k) /\ k \notin Below(i)
    BY <1>1
  <2>2. Cardinality(Below(i)) <= Cardinality(Below(k))
        /\ Cardinality(Below(i)) # Cardinality(Below(k))
    BY <2>1, <1>3, FS_Subset
  <2>3. Cardinality(Below(i)) \in Nat /\ Cardinality(Below(k)) \in Nat
    <3> HIDE DEF Below
    <3> QED
      BY <1>3
  <2> QED
    BY <2>2, <2>3
<1>5. rank \in Injection(I, 1..n)
  <2>1. rank \in [I -> 1..n]
    BY <1>3
  <2>2. \A i, k \in I : rank[i] = rank[k] => i = k
    <3> SUFFICES ASSUME NEW i \in I, NEW k \in I, i # k
                 PROVE  rank[i] # rank[k]
      OBVIOUS
    <3>1. Cardinality(Below(i)) \in Nat /\ Cardinality(Below(k)) \in Nat
      <4> HIDE DEF Below
      <4> QED
        BY <1>3
    <3>2. i < k \/ k < i
      BY <1>1
    <3>3. Cardinality(Below(i)) # Cardinality(Below(k))
      <4> HIDE DEF Below
      <4> QED
        BY <3>1, <3>2, <1>4
    <3> QED
      BY <3>3
  <2> QED
    BY <2>1, <2>2 DEF Injection, IsInjective
<1>6. rank \in Surjection(I, 1..n)
  <2>1. IsFiniteSet(1..n) /\ Cardinality(1..n) = n
    BY <1>2, FS_Interval
  <2> QED
    BY <2>1, <1>5, <1>2, FS_Injection
<1>7. \A j \in 1..n : g[j] \in I /\ Cardinality(Below(g[j])) = j
  <2> TAKE j \in 1..n
  <2>1. \E i \in I : Cardinality(Below(i)) = j
    BY <1>6 DEF Surjection
  <2> QED
    BY <2>1
<1>8. Only(s, I) = [j \in 1..n |-> s[g[j]]]
  BY DEF Only
<1> HIDE DEF g, Below, n
<1>9. \A j \in 1..n : s[g[j]] \in S
  BY <1>7, <1>1, ElementOfSeq
<1>10. Only(s, I) \in Seq(S) /\ DOMAIN Only(s, I) = 1..n
  BY <1>8, <1>9, <1>2
<1>11. ASSUME NEW j \in 1..n, NEW k \in 1..n
       PROVE  /\ j < k => g[j] < g[k]
              /\ g[j] = g[k] => j = k
  <2>1. /\ g[j] \in I /\ g[k] \in I
        /\ Cardinality(Below(g[j])) = j /\ Cardinality(Below(g[k])) = k
    BY <1>7
  <2>2. g[j] \in Int /\ g[k] \in Int
    BY <2>1, <1>1
  <2>3. g[k] < g[j] => k < j
    BY <2>1, <1>4
  <2>4. g[j] = g[k] => j = k
    BY <2>1
  <2> QED
    BY <2>2, <2>3, <2>4, <1>2
<1>12. g \in [1..n -> I]
  BY <1>7 DEF g
<1>13. \A j \in DOMAIN Only(s, I) : Only(s, I)[j] = s[g[j]]
  BY <1>8, <1>10
<1>14. \A j, k \in DOMAIN Only(s, I) : (j < k => g[j] < g[k]) /\ (g[j] = g[k] => j = k)
  BY <1>10, <1>11
<1>15. g \in [DOMAIN Only(s, I) -> I]
  BY <1>10, <1>12
<1> QED
  BY <1>10, <1>13, <1>14, <1>15 DEF Picks

(* Two sequences put together have the elements of both.                   *)
LEMMA Joined ==
  ASSUME NEW S, NEW s \in Seq(S), NEW t \in Seq(S)
  PROVE  /\ s \o t \in Seq(S)
         /\ \A i \in DOMAIN (s \o t) : \/ i \in DOMAIN s /\ (s \o t)[i] = s[i]
                                       \/ /\ i \notin DOMAIN s
                                          /\ i - Len(s) \in DOMAIN t
                                          /\ (s \o t)[i] = t[i - Len(s)]
         /\ \A i \in DOMAIN s : i \in DOMAIN (s \o t) /\ (s \o t)[i] = s[i]
         /\ \A i \in DOMAIN t : i + Len(s) \in DOMAIN (s \o t) /\ (s \o t)[i + Len(s)] = t[i]
<1>1. /\ Len(s) \in Nat /\ DOMAIN s = 1..Len(s)
      /\ Len(t) \in Nat /\ DOMAIN t = 1..Len(t)
  BY LenProperties
<1>2. /\ s \o t \in Seq(S)
      /\ DOMAIN (s \o t) = 1..(Len(s) + Len(t))
      /\ \A i \in 1..(Len(s) + Len(t)) : (s \o t)[i] = IF i <= Len(s) THEN s[i] ELSE t[i - Len(s)]
  BY ConcatProperties, LenProperties
<1> QED
  BY <1>1, <1>2

(* The same for a relation none of the elements has to another.            *)
LEMMA JoinedAlone ==
  ASSUME NEW S, NEW s \in Seq(S), NEW t \in Seq(S), NEW R,
         Alone(R, s), Alone(R, t), Strangers(R, s, t)
  PROVE  /\ Alone(R, s \o t)
         /\ \A v : Strangers(R, s, v) /\ Strangers(R, t, v) => Strangers(R, s \o t, v)
<1>1. /\ Len(s) \in Nat /\ DOMAIN s = 1..Len(s)
      /\ Len(t) \in Nat /\ DOMAIN t = 1..Len(t)
      /\ s \o t \in Seq(S)
      /\ DOMAIN (s \o t) \subseteq Int
  BY LenProperties, Joined
<1>2. \A i \in DOMAIN (s \o t) : \/ i \in DOMAIN s /\ (s \o t)[i] = s[i]
                                 \/ i - Len(s) \in DOMAIN t /\ (s \o t)[i] = t[i - Len(s)]
  BY Joined
<1>3. ASSUME NEW i \in DOMAIN (s \o t), NEW j \in DOMAIN (s \o t),
             <<(s \o t)[i], (s \o t)[j]>> \in R
      PROVE  i = j
  <2>1. i \in Int /\ j \in Int
    BY <1>1
  <2>2. CASE i \in DOMAIN s /\ (s \o t)[i] = s[i]
    BY <2>2, <1>2, <1>3 DEF Alone, Strangers
  <2>3. CASE i - Len(s) \in DOMAIN t /\ (s \o t)[i] = t[i - Len(s)]
    <3>1. CASE j \in DOMAIN s /\ (s \o t)[j] = s[j]
      BY <2>3, <3>1, <1>3 DEF Strangers
    <3>2. CASE j - Len(s) \in DOMAIN t /\ (s \o t)[j] = t[j - Len(s)]
      <4>1. i - Len(s) = j - Len(s)
        BY <2>3, <3>2, <1>3 DEF Alone
      <4> QED
        BY <4>1, <2>1, <1>1
    <3> QED
      BY <3>1, <3>2, <1>2
  <2> QED
    BY <2>2, <2>3, <1>2
<1>4. ASSUME NEW v, Strangers(R, s, v), Strangers(R, t, v)
      PROVE  Strangers(R, s \o t, v)
  BY <1>2, <1>4 DEF Strangers
<1> QED
  BY <1>3, <1>4 DEF Alone

(* All that is in use, as one sequence.                                    *)
LEMMA Together ==
  ASSUME NEW S, NEW q \in Seq(S), NEW s \in Seq(S), NEW f \in Seq(S), NEW h \in Seq(S)
  PROVE  /\ q \o s \o f \o h \in Seq(S)
         /\ Range(q \o s \o f \o h) = Range(q) \cup Range(s) \cup Range(f) \cup Range(h)
<1>1. /\ q \o s \in Seq(S) /\ q \o s \o f \in Seq(S)
      /\ q \o s \o f \o h \in Seq(S)
  BY Joined
<1>2. /\ Range(q \o s) = Range(q) \cup Range(s)
      /\ Range(q \o s \o f) = Range(q \o s) \cup Range(f)
      /\ Range(q \o s \o f \o h) = Range(q \o s \o f) \cup Range(h)
  BY <1>1, RangeConcatenation
<1> QED
  BY <1>1, <1>2

LEMMA TogetherAlone ==
  ASSUME NEW S, NEW q \in Seq(S), NEW s \in Seq(S), NEW f \in Seq(S), NEW h \in Seq(S),
         NEW R, Apart(R, q, s, f, h)
  PROVE  Alone(R, q \o s \o f \o h)
<1>1. q \o s \in Seq(S) /\ q \o s \o f \in Seq(S)
  BY Joined
<1> USE DEF Apart
<1>2. Alone(R, q \o s) /\ Strangers(R, q \o s, f) /\ Strangers(R, q \o s, h)
  BY JoinedAlone
<1>3. Alone(R, q \o s \o f) /\ Strangers(R, q \o s \o f, h)
  BY <1>1, <1>2, JoinedAlone
<1> QED
  BY <1>1, <1>3, JoinedAlone

LEMMA FilesAndItems ==
  ASSUME NEW u
  PROVE  /\ ItemsOf(u) = {x.item : x \in Range(u)}
         /\ FilesOf(u) = {x.file : x \in Range(u)} \ {NoFile}
<1>1. \A x : x \in Range(u) <=> \E i \in DOMAIN u : x = u[i]
  BY DEF Range
<1>2. ItemsOf(u) = {x.item : x \in Range(u)}
  BY <1>1 DEF ItemsOf
<1>3. {u[i].file : i \in DOMAIN u} = {x.file : x \in Range(u)}
  BY <1>1
<1> QED
  BY <1>2, <1>3 DEF FilesOf

LEMMA HeldRange ==
  ASSUME NEW S, NEW N, NEW h \in S \cup {N},
         NEW held, held = (IF h = N THEN << >> ELSE <<h>>)
  PROVE  held \in Seq(S) /\ Range(held) = IF h = N THEN {} ELSE {h}
BY DEF Range

(* Sequences that are kept or emptied.                                     *)
LEMMA SomeDropped ==
  ASSUME NEW R, NEW q, NEW s, NEW f, NEW h,
         NEW q2 \in {q, << >>}, NEW s2 \in {s, << >>}, NEW f2 \in {f, << >>},
         NEW h2 \in {h, << >>}
  PROVE  /\ Apart(R, q, s, f, h) => Apart(R, q2, s2, f2, h2)
         /\ InOrder(R, q, s, f, h) => InOrder(R, q2, s2, f2, h2)
<1>1. DOMAIN << >> = {}
  OBVIOUS
<1>2. ASSUME Apart(R, q, s, f, h) PROVE Apart(R, q2, s2, f2, h2)
  BY <1>1, <1>2 DEF Apart, Alone, Strangers
<1>3. ASSUME InOrder(R, q, s, f, h) PROVE InOrder(R, q2, s2, f2, h2)
  BY <1>1, <1>3 DEF InOrder, Ascending, Precede
<1> QED
  BY <1>2, <1>3

LEMMA PickedAlike ==
  ASSUME NEW s, NEW u, NEW I, Picks(u, s, I), NEW R, NEW v
  PROVE  /\ Range(u) \subseteq Range(s)
         /\ Alone(R, s) => Alone(R, u)
         /\ Ascending(R, s) => Ascending(R, u)
         /\ Strangers(R, s, v) => Strangers(R, u, v)
         /\ Strangers(R, v, s) => Strangers(R, v, u)
         /\ Precede(R, s, v) => Precede(R, u, v)
<1>1. PICK g \in [DOMAIN u -> I] :
             /\ \A j \in DOMAIN u : u[j] = s[g[j]]
             /\ \A j, k \in DOMAIN u : j < k => g[j] < g[k]
             /\ \A j, k \in DOMAIN u : g[j] = g[k] => j = k
  BY DEF Picks
<1>2. \A j \in DOMAIN u : g[j] \in DOMAIN s
  BY DEF Picks
<1>3. Range(u) \subseteq Range(s)
  BY <1>1, <1>2 DEF Range
<1>4. Alone(R, s) => Alone(R, u)
  BY <1>1, <1>2 DEF Alone
<1>5. Ascending(R, s) => Ascending(R, u)
  BY <1>1, <1>2 DEF Ascending
<1>6. /\ Strangers(R, s, v) => Strangers(R, u, v)
      /\ Strangers(R, v, s) => Strangers(R, v, u)
      /\ Precede(R, s, v) => Precede(R, u, v)
  BY <1>1, <1>2 DEF Strangers, Precede
<1> QED
  BY <1>3, <1>4, <1>5, <1>6

LEMMA OnlyTypes ==
  ASSUME NEW S, NEW s \in Seq(S), NEW I \in SUBSET DOMAIN s
  PROVE  Only(s, I) \in Seq(S) /\ Range(Only(s, I)) \subseteq Range(s)
<1>1. Only(s, I) \in Seq(S) /\ Picks(Only(s, I), s, I)
  BY OnlyPicks
<1>2. \A j \in DOMAIN Only(s, I) : \E i \in DOMAIN s : Only(s, I)[j] = s[i]
  BY <1>1 DEF Picks
<1> QED
  BY <1>1, <1>2 DEF Range

LEMMA PickedApart ==
  ASSUME NEW s, NEW u, NEW v, NEW I, NEW J,
         I \cap J = {}, Picks(u, s, I), Picks(v, s, J), NEW R, Alone(R, s)
  PROVE  Strangers(R, u, v)
<1>1. PICK g \in [DOMAIN u -> I] : \A j \in DOMAIN u : u[j] = s[g[j]]
  BY DEF Picks
<1>2. PICK e \in [DOMAIN v -> J] : \A j \in DOMAIN v : v[j] = s[e[j]]
  BY DEF Picks
<1>3. \A i \in DOMAIN u, j \in DOMAIN v : g[i] \in DOMAIN s /\ e[j] \in DOMAIN s /\ g[i] # e[j]
  BY DEF Picks
<1> QED
  BY <1>1, <1>2, <1>3 DEF Strangers, Alone

(* check_scheduled_targets sorts what is scheduled into what is done, what *)
(* has failed and the rest: none of it is in two of them.                  *)
LEMMA ScheduledSorted ==
  ASSUME NEW S, NEW q \in Seq(S), NEW s \in Seq(S), NEW h \in Seq(S),
         NEW done \in SUBSET DOMAIN s, NEW failed \in SUBSET (DOMAIN s \ done), NEW R,
         NEW rest, rest = DOMAIN s \ (done \cup failed), NEW d, NEW f2, NEW s2,
         d = Only(s, done), f2 = Only(s, failed), s2 = Only(s, rest)
  PROVE  /\ Apart(R, q, s, << >>, h) =>
              /\ Apart(R, q, s2, f2, h)
              /\ Strangers(R, d, q) /\ Strangers(R, d, s2) /\ Strangers(R, d, f2)
              /\ Strangers(R, d, h)
         /\ InOrder(R, q, s, << >>, h) => InOrder(R, q, s2, f2, h)
         /\ d \in Seq(S) /\ s2 \in Seq(S) /\ f2 \in Seq(S)
         /\ Range(d) \subseteq Range(s) /\ Range(s2) \subseteq Range(s)
         /\ Range(f2) \subseteq Range(s)
<1>1. failed \in SUBSET DOMAIN s /\ rest \in SUBSET DOMAIN s
  OBVIOUS
<1>2. done \cap rest = {} /\ done \cap failed = {} /\ rest \cap failed = {}
  OBVIOUS
<1>4. d \in Seq(S) /\ Picks(d, s, done)
  BY OnlyPicks
<1>5. f2 \in Seq(S) /\ Picks(f2, s, failed)
  BY <1>1, OnlyPicks
<1>6. s2 \in Seq(S) /\ Picks(s2, s, rest)
  BY <1>1, OnlyPicks
<1>7. ASSUME Apart(R, q, s, << >>, h)
      PROVE  /\ Apart(R, q, s2, f2, h)
             /\ Strangers(R, d, q) /\ Strangers(R, d, s2) /\ Strangers(R, d, f2)
             /\ Strangers(R, d, h)
  <2>1. /\ Alone(R, q) /\ Alone(R, s) /\ Alone(R, h)
        /\ Strangers(R, q, s) /\ Strangers(R, q, h) /\ Strangers(R, s, h)
    BY <1>7 DEF Apart
  <2>2. Strangers(R, s, q)
    BY <2>1 DEF Strangers
  <2>3. Alone(R, s2) /\ Strangers(R, q, s2) /\ Strangers(R, s2, h)
    BY <2>1, <1>1, <1>6, PickedAlike
  <2>4. Alone(R, f2) /\ Strangers(R, q, f2) /\ Strangers(R, f2, h)
    BY <2>1, <1>1, <1>5, PickedAlike
  <2>5. Strangers(R, d, q) /\ Strangers(R, d, h)
    BY <2>1, <2>2, <1>4, PickedAlike
  <2>6. Strangers(R, d, s2)
    BY <2>1, <1>1, <1>2, <1>4, <1>6, PickedApart
  <2>7. Strangers(R, d, f2)
    BY <2>1, <1>1, <1>2, <1>4, <1>5, PickedApart
  <2>8. Strangers(R, s2, f2)
    BY <2>1, <1>1, <1>2, <1>5, <1>6, PickedApart
  <2> QED
    BY <2>1, <2>3, <2>4, <2>5, <2>6, <2>7, <2>8 DEF Apart
<1>8. ASSUME InOrder(R, q, s, << >>, h)
      PROVE  InOrder(R, q, s2, f2, h)
  <2>1. /\ Ascending(R, q) /\ Ascending(R, s)
        /\ Precede(R, s, h) /\ Precede(R, s, q) /\ Precede(R, h, q)
    BY <1>8 DEF InOrder
  <2>2. Ascending(R, s2) /\ Precede(R, s2, h) /\ Precede(R, s2, q)
    BY <2>1, <1>1, <1>6, PickedAlike
  <2>3. Ascending(R, f2) /\ Precede(R, f2, q)
    BY <2>1, <1>1, <1>5, PickedAlike
  <2> QED
    BY <2>1, <2>2, <2>3 DEF InOrder
<1>9. Range(d) \subseteq Range(s) /\ Range(s2) \subseteq Range(s) /\ Range(f2) \subseteq Range(s)
  BY <1>1, <1>4, <1>5, <1>6, PickedAlike
<1> QED
  BY <1>4, <1>5, <1>6, <1>7, <1>8, <1>9

(* The first of the queue is taken in hand.                                *)
LEMMA FirstTaken ==
  ASSUME NEW S, NEW q \in Seq(S), q # << >>, NEW s, NEW f, NEW R
  PROVE  /\ Apart(R, q, s, f, << >>) => Apart(R, Tail(q), s, f, <<Head(q)>>)
         /\ InOrder(R, q, s, f, << >>) => InOrder(R, Tail(q), s, f, <<Head(q)>>)
         /\ Tail(q) \in Seq(S) /\ Head(q) \in S
         /\ Range(Tail(q)) \cup {Head(q)} \subseteq Range(q)
<1>1. /\ Tail(q) \in Seq(S) /\ Head(q) \in S
      /\ DOMAIN q = 1..Len(q) /\ Len(q) \in Nat \ {0}
      /\ DOMAIN Tail(q) = 1..(Len(q) - 1)
      /\ \A i \in DOMAIN Tail(q) : Tail(q)[i] = q[i + 1]
      /\ Head(q) = q[1]
  BY HeadTailProperties, LenProperties, EmptySeq
<1>2. /\ \A i \in DOMAIN Tail(q) : i + 1 \in DOMAIN q /\ i + 1 # 1 /\ i \in Int
      /\ 1 \in DOMAIN q
  BY <1>1
<1>3. DOMAIN <<Head(q)>> = {1} /\ <<Head(q)>>[1] = q[1]
  BY <1>1
<1>4. ASSUME Apart(R, q, s, f, << >>) PROVE Apart(R, Tail(q), s, f, <<Head(q)>>)
  <2>1. /\ Alone(R, q) /\ Alone(R, s) /\ Alone(R, f)
        /\ Strangers(R, q, s) /\ Strangers(R, q, f) /\ Strangers(R, s, f)
    BY <1>4 DEF Apart
  <2>2. Alone(R, Tail(q))
    BY <2>1, <1>1, <1>2 DEF Alone
  <2>3. Alone(R, <<Head(q)>>)
    BY <1>3 DEF Alone
  <2>4. Strangers(R, Tail(q), <<Head(q)>>)
    BY <2>1, <1>1, <1>2, <1>3 DEF Alone, Strangers
  <2>5. /\ Strangers(R, Tail(q), s) /\ Strangers(R, Tail(q), f)
        /\ Strangers(R, s, <<Head(q)>>) /\ Strangers(R, f, <<Head(q)>>)
    BY <2>1, <1>1, <1>2, <1>3 DEF Strangers
  <2> QED
    BY <2>1, <2>2, <2>3, <2>4, <2>5 DEF Apart
<1>5. ASSUME InOrder(R, q, s, f, << >>) PROVE InOrder(R, Tail(q), s, f, <<Head(q)>>)
  <2>1. /\ Ascending(R, q) /\ Ascending(R, s) /\ Ascending(R, f)
        /\ Precede(R, s, q) /\ Precede(R, f, q)
    BY <1>5 DEF InOrder
  <2>2. Ascending(R, Tail(q))
    BY <2>1, <1>1, <1>2 DEF Ascending
  <2>3. Precede(R, <<Head(q)>>, Tail(q))
    <3>1. \A j \in DOMAIN Tail(q) : 1 < j + 1 /\ j + 1 \in DOMAIN q
      BY <1>1
    <3>2. \A j \in DOMAIN Tail(q) : <<q[1], Tail(q)[j]>> \in R
      BY <3>1, <2>1, <1>1, <1>2 DEF Ascending
    <3> QED
      BY <3>2, <1>3 DEF Precede
  <2>4. /\ Precede(R, s, Tail(q)) /\ Precede(R, f, Tail(q)) /\ Precede(R, s, <<Head(q)>>)
    BY <2>1, <1>1, <1>2, <1>3 DEF Precede
  <2> QED
    BY <2>1, <2>2, <2>3, <2>4 DEF InOrder
<1>6. Range(Tail(q)) \cup {Head(q)} \subseteq Range(q)
  BY <1>1, <1>2 DEF Range
<1> QED
  BY <1>1, <1>4, <1>5, <1>6

(* An element that comes last.                                             *)
LEMMA LastElement ==
  ASSUME NEW S, NEW s \in Seq(S), NEW x \in S
  PROVE  /\ Append(s, x) \in Seq(S)
         /\ \A i \in DOMAIN Append(s, x) : \/ i \in DOMAIN s /\ Append(s, x)[i] = s[i]
                                           \/ i = Len(s) + 1 /\ Append(s, x)[i] = x
         /\ \A i \in DOMAIN s : i < Len(s) + 1 /\ i \in Int
         /\ Len(s) \in Nat
         /\ Range(Append(s, x)) = Range(s) \cup {x}
<1>1. Append(s, x) \in Seq(S) /\ DOMAIN s = 1..Len(s) /\ Len(s) \in Nat
      /\ DOMAIN Append(s, x) = 1..(Len(s) + 1)
      /\ \A i \in 1..Len(s) : Append(s, x)[i] = s[i]
      /\ Append(s, x)[Len(s) + 1] = x
  BY AppendProperties, LenProperties
<1>2. Range(Append(s, x)) = Range(s) \cup {x}
  BY <1>1 DEF Range
<1> QED
  BY <1>1, <1>2

(* What was in hand is scheduled.                                          *)
LEMMA HandedOver ==
  ASSUME NEW S, NEW q \in Seq(S), NEW s \in Seq(S), NEW f, NEW x \in S, NEW R
  PROVE  /\ Apart(R, q, s, f, <<x>>) => Apart(R, q, Append(s, x), f, << >>)
         /\ InOrder(R, q, s, f, <<x>>) => InOrder(R, q, Append(s, x), f, << >>)
<1>1. /\ \A i \in DOMAIN Append(s, x) : \/ i \in DOMAIN s /\ Append(s, x)[i] = s[i]
                                        \/ i = Len(s) + 1 /\ Append(s, x)[i] = x
      /\ \A i \in DOMAIN s : i < Len(s) + 1 /\ i \in Int
      /\ Len(s) \in Nat
  BY LastElement
<1>2. DOMAIN <<x>> = {1} /\ <<x>>[1] = x /\ DOMAIN << >> = {}
  OBVIOUS
<1>3. ASSUME Apart(R, q, s, f, <<x>>) PROVE Apart(R, q, Append(s, x), f, << >>)
  <2>1. /\ Alone(R, q) /\ Alone(R, s) /\ Alone(R, f)
        /\ Strangers(R, q, s) /\ Strangers(R, q, f) /\ Strangers(R, s, f)
        /\ Strangers(R, q, <<x>>) /\ Strangers(R, s, <<x>>) /\ Strangers(R, f, <<x>>)
    BY <1>3 DEF Apart
  <2>2. Alone(R, Append(s, x))
    BY <2>1, <1>1, <1>2 DEF Alone, Strangers
  <2>3. Strangers(R, q, Append(s, x)) /\ Strangers(R, Append(s, x), f)
    BY <2>1, <1>1, <1>2 DEF Strangers
  <2> QED
    BY <2>1, <2>2, <2>3, <1>2 DEF Apart, Alone, Strangers
<1>4. ASSUME InOrder(R, q, s, f, <<x>>) PROVE InOrder(R, q, Append(s, x), f, << >>)
  <2>1. /\ Ascending(R, q) /\ Ascending(R, s) /\ Ascending(R, f)
        /\ Precede(R, s, q) /\ Precede(R, f, q) /\ Precede(R, s, <<x>>)
        /\ Precede(R, <<x>>, q)
    BY <1>4 DEF InOrder
  <2>2. Ascending(R, Append(s, x))
    <3> SUFFICES ASSUME NEW i \in DOMAIN Append(s, x), NEW j \in DOMAIN Append(s, x), i < j
                 PROVE  <<Append(s, x)[i], Append(s, x)[j]>> \in R
      BY DEF Ascending
    <3>1. i \in DOMAIN s /\ Append(s, x)[i] = s[i]
      BY <1>1
    <3>2. CASE j \in DOMAIN s /\ Append(s, x)[j] = s[j]
      BY <3>1, <3>2, <2>1 DEF Ascending
    <3>3. CASE Append(s, x)[j] = x
      BY <3>1, <3>3, <2>1, <1>2 DEF Precede
    <3> QED
      BY <3>2, <3>3, <1>1
  <2>3. Precede(R, Append(s, x), q)
    BY <2>1, <1>1, <1>2 DEF Precede
  <2> QED
    BY <2>1, <2>2, <2>3, <1>2 DEF InOrder, Precede
<1> QED
  BY <1>3, <1>4

(* A new target comes to the end of the queue, or in hand.                 *)
LEMMA NewComer ==
  ASSUME NEW S, NEW q \in Seq(S), NEW s, NEW f, NEW h, NEW x \in S, NEW R
  PROVE  /\ (/\ Apart(R, q, s, f, h)
             /\ \A y \in Range(q) \cup Range(s) \cup Range(f) \cup Range(h) :
                  <<x, y>> \notin R /\ <<y, x>> \notin R)
              => Apart(R, Append(q, x), s, f, h) /\ (h = << >> => Apart(R, q, s, f, <<x>>))
         /\ (/\ InOrder(R, q, s, f, h)
             /\ \A y \in Range(q) \cup Range(s) \cup Range(f) \cup Range(h) : <<y, x>> \in R)
              => InOrder(R, Append(q, x), s, f, h)
<1>1. /\ \A i \in DOMAIN Append(q, x) : \/ i \in DOMAIN q /\ Append(q, x)[i] = q[i]
                                        \/ i = Len(q) + 1 /\ Append(q, x)[i] = x
      /\ \A i \in DOMAIN q : i < Len(q) + 1 /\ i \in Int
      /\ Len(q) \in Nat
  BY LastElement
<1>2. DOMAIN <<x>> = {1} /\ <<x>>[1] = x /\ DOMAIN << >> = {}
  OBVIOUS
<1>3. ASSUME Apart(R, q, s, f, h),
             \A y \in Range(q) \cup Range(s) \cup Range(f) \cup Range(h) :
               <<x, y>> \notin R /\ <<y, x>> \notin R
      PROVE  Apart(R, Append(q, x), s, f, h) /\ (h = << >> => Apart(R, q, s, f, <<x>>))
  <2>1. /\ Alone(R, q) /\ Alone(R, s) /\ Alone(R, f) /\ Alone(R, h)
        /\ Strangers(R, q, s) /\ Strangers(R, q, f) /\ Strangers(R, s, f)
        /\ Strangers(R, q, h) /\ Strangers(R, s, h) /\ Strangers(R, f, h)
    BY <1>3 DEF Apart
  <2>2. /\ \A i \in DOMAIN q : <<x, q[i]>> \notin R /\ <<q[i], x>> \notin R
        /\ \A i \in DOMAIN s : <<x, s[i]>> \notin R /\ <<s[i], x>> \notin R
        /\ \A i \in DOMAIN f : <<x, f[i]>> \notin R /\ <<f[i], x>> \notin R
        /\ \A i \in DOMAIN h : <<x, h[i]>> \notin R /\ <<h[i], x>> \notin R
    BY <1>3 DEF Range
  <2>3. Alone(R, Append(q, x)) /\ Alone(R, <<x>>)
    BY <2>1, <2>2, <1>1, <1>2 DEF Alone
  <2>4. /\ Strangers(R, Append(q, x), s) /\ Strangers(R, Append(q, x), f)
        /\ Strangers(R, Append(q, x), h)
    BY <2>1, <2>2, <1>1 DEF Strangers
  <2>5. Strangers(R, q, <<x>>) /\ Strangers(R, s, <<x>>) /\ Strangers(R, f, <<x>>)
    BY <2>2, <1>2 DEF Strangers
  <2> QED
    BY <2>1, <2>3, <2>4, <2>5 DEF Apart
<1>4. ASSUME InOrder(R, q, s, f, h),
             \A y \in Range(q) \cup Range(s) \cup Range(f) \cup Range(h) : <<y, x>> \in R
      PROVE  InOrder(R, Append(q, x), s, f, h)
  <2>1. /\ Ascending(R, q) /\ Ascending(R, s) /\ Ascending(R, f)
        /\ Precede(R, s, h) /\ Precede(R, s, q) /\ Precede(R, h, q) /\ Precede(R, f, q)
    BY <1>4 DEF InOrder
  <2>2. /\ \A i \in DOMAIN q : <<q[i], x>> \in R
        /\ \A i \in DOMAIN s : <<s[i], x>> \in R
        /\ \A i \in DOMAIN f : <<f[i], x>> \in R
        /\ \A i \in DOMAIN h : <<h[i], x>> \in R
    BY <1>4 DEF Range
  <2>3. Ascending(R, Append(q, x))
    <3> SUFFICES ASSUME NEW i \in DOMAIN Append(q, x), NEW j \in DOMAIN Append(q, x), i < j
                 PROVE  <<Append(q, x)[i], Append(q, x)[j]>> \in R
      BY DEF Ascending
    <3>1. i \in DOMAIN q /\ Append(q, x)[i] = q[i]
      BY <1>1
    <3> QED
      BY <3>1, <2>1, <2>2, <1>1 DEF Ascending
  <2>4. Precede(R, s, Append(q, x)) /\ Precede(R, h, Append(q, x)) /\ Precede(R, f, Append(q, x))
    BY <2>1, <2>2, <1>1 DEF Precede
  <2> QED
    BY <2>1, <2>3, <2>4 DEF InOrder
<1> QED
  BY <1>3, <1>4

(***************************************************************************)
(* Types, and what the labels say.                                         *)
(***************************************************************************)
LEMMA Names ==
  /\ None \notin Targets /\ None # "loop" /\ None # "check"
  /\ None \notin Items /\ None \notin Planned
  /\ MaxLoads \in Nat /\ MaxFiles \in Nat /\ NTargets \in Nat
  /\ NoFile \notin Files
BY DriverStateAssumption, NoneAssumption DEF NoFile, Files

LEMMA ItemFields ==
  /\ \A t \in Targets : /\ Observation(t) \in Items /\ Cwfs(t) \in Items
                        /\ Observation(t).of = t /\ Observation(t).cwfs = FALSE
                        /\ Cwfs(t).of = t /\ Cwfs(t).cwfs = TRUE
  /\ \A i \in Items : i.of \in Targets /\ i.cwfs \in BOOLEAN /\ i = [of |-> i.of, cwfs |-> i.cwfs]
  /\ \A p \in Planned : p.item \in Items /\ p.file \in Files \cup {NoFile}
  /\ \A i \in Items, f \in Files \cup {NoFile} : /\ [item |-> i, file |-> f] \in Planned
                                              /\ [item |-> i, file |-> f].item = i
                                              /\ [item |-> i, file |-> f].file = f
BY DEF Observation, Cwfs, Items, Planned

LEMMA SnapshotFields ==
  ASSUME NEW d \in Snapshots, NEW W \in SUBSET Targets, NEW C \in SUBSET Items
  PROVE  /\ d.waiting \in SUBSET Targets /\ d.counted \in SUBSET Items
         /\ d.loaded \in 0..MaxLoads
         /\ [d EXCEPT !.waiting = W] \in Snapshots
         /\ [d EXCEPT !.waiting = W].waiting = W
         /\ [d EXCEPT !.waiting = W].counted = d.counted
         /\ [d EXCEPT !.waiting = W].loaded = d.loaded
         /\ [d EXCEPT !.counted = C] \in Snapshots
         /\ [d EXCEPT !.counted = C].waiting = d.waiting
         /\ [d EXCEPT !.counted = C].counted = C
         /\ [d EXCEPT !.counted = C].loaded = d.loaded
BY DEF Snapshots

(* What the driver is after a selection, and what may be selected.         *)
LEMMA SelectedTyped ==
  ASSUME driver \in Snapshots, desired \in Targets \cup {None}, Selects
  PROVE  /\ driver' \in Snapshots
         /\ driver'.counted = driver.counted /\ driver'.loaded = driver.loaded
         /\ desired' \in Targets \cup {None}
         /\ selected' \in Items \cup {None}
         /\ driver'.waiting \cup ({desired'} \ {None})
              \subseteq driver.waiting \cup ({desired} \ {None})
         /\ \/ selected' = None
            \/ \E t \in Targets : /\ \/ selected' = Observation(t) /\ desired' = None
                                     \/ selected' = Cwfs(t)
                                  /\ t \in driver.waiting \cup ({desired} \ {None})
                                  /\ t \notin driver'.waiting
<1>1. driver.waiting \in SUBSET Targets /\ driver.counted \in SUBSET Items
  BY SnapshotFields
<1>2. Offered \subseteq driver.waiting \cup ({desired} \ {None}) /\ Offered \subseteq Targets
  BY <1>1, Names DEF Offered
<1>3. \A t \in Targets : Observation(t) \in Items /\ Cwfs(t) \in Items
  BY ItemFields
<1>4. CASE SelectsNone
  <2> DEFINE W == driver.waiting \cup ({desired} \ {None})
  <2>1. W \in SUBSET Targets /\ driver' = [driver EXCEPT !.waiting = W]
    BY <1>1, <1>4, Names DEF SelectsNone
  <2> HIDE DEF W
  <2>2. /\ driver' \in Snapshots /\ driver'.waiting = W
        /\ driver'.counted = driver.counted /\ driver'.loaded = driver.loaded
    BY <2>1, <1>1, SnapshotFields
  <2> QED
    BY <2>2, <1>4 DEF SelectsNone, W
<1>5. ASSUME NEW t \in Offered, SelectsTarget(t) \/ SelectsCwfs(t)
      PROVE  /\ driver' \in Snapshots
             /\ driver'.counted = driver.counted /\ driver'.loaded = driver.loaded
             /\ driver'.waiting = driver.waiting \ {t}
             /\ desired' \in {t, None}
             /\ \/ selected' = Observation(t) /\ desired' = None
                \/ selected' \in {Cwfs(t), None}
  <2> DEFINE W == driver.waiting \ {t}
  <2>1. W \in SUBSET Targets /\ driver' = [driver EXCEPT !.waiting = W]
    BY <1>1, <1>5 DEF SelectsTarget, SelectsCwfs
  <2> HIDE DEF W
  <2>2. /\ driver' \in Snapshots /\ driver'.waiting = W
        /\ driver'.counted = driver.counted /\ driver'.loaded = driver.loaded
    BY <2>1, <1>1, SnapshotFields
  <2>3. /\ desired' \in {t, None}
        /\ (selected' = Observation(t) /\ desired' = None) \/ selected' \in {Cwfs(t), None}
    BY <1>5 DEF SelectsTarget, SelectsCwfs
  <2> QED
    BY <2>2, <2>3 DEF W
<1>6. ASSUME NEW t \in Offered, SelectsTarget(t) \/ SelectsCwfs(t)
      PROVE  /\ desired' \in Targets \cup {None}
             /\ selected' \in Items \cup {None}
             /\ driver'.waiting \cup ({desired'} \ {None})
                  \subseteq driver.waiting \cup ({desired} \ {None})
             /\ \/ selected' = None
                \/ \E u \in Targets : /\ \/ selected' = Observation(u) /\ desired' = None
                                         \/ selected' = Cwfs(u)
                                      /\ u \in driver.waiting \cup ({desired} \ {None})
                                      /\ u \notin driver'.waiting
  <2>1. t \in Targets /\ t \in driver.waiting \cup ({desired} \ {None})
    BY <1>2
  <2>2. /\ driver'.waiting = driver.waiting \ {t} /\ desired' \in {t, None}
        /\ (selected' = Observation(t) /\ desired' = None) \/ selected' \in {Cwfs(t), None}
    BY <1>5, <1>6
  <2> QED
    BY <2>1, <2>2, <1>3
<1> QED
  BY <1>4, <1>5, <1>6, <1>2 DEF Selects, SelectsNone

LEMMA LeastElement ==
  ASSUME NEW T \in SUBSET Nat, T # {}
  PROVE  /\ \E f \in T : \A g \in T : f <= g
         /\ Min(T) \in T /\ \A g \in T : Min(T) <= g
<1> DEFINE less == OpToRel(<, Nat)
<1>1. \A m, n \in Nat : n < m => <<n, m>> \in less
  BY DEF OpToRel
<1>2. IsWellFoundedOn(less, Nat)
  BY NatLessThanWellFounded
<1> HIDE DEF less
<1>3. PICK f \in T : \A g \in T : <<g, f>> \notin less
  BY <1>2, WFMin
<1>4. \A g \in T : f <= g
  <2>1. \A g \in T : g \in Nat
    OBVIOUS
  <2>2. \A g \in T : ~(g < f)
    BY <1>1, <1>3, <2>1
  <2> QED
    BY <2>1, <2>2
<1> QED
  BY <1>4 DEF Min

(* save_scheduler_state writes what the driver holds to a file of its own. *)
LEMMA FirstFree ==
  ASSUME Saves
  PROVE  /\ kept' \in Files /\ kept' # NoFile /\ kept' \notin DOMAIN disk
         /\ DOMAIN disk' = DOMAIN disk \cup {kept'}
         /\ disk'[kept'] = driver
         /\ \A f \in DOMAIN disk : disk'[f] = disk[f]
<1> DEFINE Free == Files \ DOMAIN disk
           first == CHOOSE f \in Free : \A g \in Free : f <= g
<1>1. Free # {} /\ Free \subseteq Nat
  BY DEF Saves, Files
<1>2. \E f \in Free : \A g \in Free : f <= g
  BY <1>1, LeastElement
<1>4. first \in Free
  BY <1>2
<1>5. /\ kept' = first
      /\ disk' = [g \in DOMAIN disk \cup {first} |-> IF g = first THEN driver ELSE disk[g]]
  BY DEF Saves
<1> HIDE DEF first
<1> QED
  BY <1>4, <1>5, Names

(* target_loop_lock, the summary state, the session and the labels fit     *)
(* together.                                                               *)
(* A selection that outlives its loop changes the driver only.             *)
LEMMA StrayQuiet ==
  ASSUME Stray
  PROVE  UNCHANGED <<fixed, csc, tlock, pc, plans, store, selected, turn, flags, ghosts>>
BY DEF Stray, StrayAsks, StrayEnds

(* What it makes of the driver: nothing comes back on offer that is in use *)
(* or has been selected.                                                   *)
LEMMA StrayFields ==
  ASSUME DataTypes, Stray
  PROVE  /\ driver' \in Snapshots
         /\ driver'.counted = driver.counted /\ driver'.loaded = driver.loaded
         /\ driver'.waiting \subseteq driver.waiting \cup (Targets \ Taken)
         /\ desired' \in {desired, None} \cup (Targets \ Taken)
<1>1. driver \in Snapshots /\ desired \in Targets \cup {None}
  BY DEF DataTypes, PlanTypes, StoreTypes
<1>2. ASSUME NEW W \in SUBSET Targets, driver' = [driver EXCEPT !.waiting = W]
      PROVE  /\ driver' \in Snapshots /\ driver'.waiting = W
             /\ driver'.counted = driver.counted /\ driver'.loaded = driver.loaded
  BY <1>1, <1>2, SnapshotFields
<1>3. CASE StrayAsks
  <2>1. CASE driver' = driver
    BY <1>1, <1>3, <2>1 DEF StrayAsks
  <2>2. ASSUME NEW t \in Offered, driver' = [driver EXCEPT !.waiting = @ \ {t}]
        PROVE  /\ driver' \in Snapshots /\ driver'.waiting = driver.waiting \ {t}
               /\ driver'.counted = driver.counted /\ driver'.loaded = driver.loaded
    <3>1. driver.waiting \ {t} \in SUBSET Targets /\ driver' = [driver EXCEPT !.waiting = driver.waiting \ {t}]
      BY <1>1, <2>2 DEF Snapshots
    <3> QED
      BY <3>1, <1>2
  <2> QED
    BY <1>3, <2>1, <2>2 DEF StrayAsks
<1>4. CASE StrayEnds
  <2>1. CASE driver' = driver
    BY <1>1, <1>4, <2>1 DEF StrayEnds
  <2>2. CASE driver' = [driver EXCEPT !.waiting = @ \cup ({stray} \ Taken)]
    <3>1. /\ driver.waiting \cup ({stray} \ Taken) \in SUBSET Targets
          /\ driver' = [driver EXCEPT !.waiting = driver.waiting \cup ({stray} \ Taken)]
      BY <1>1, <1>4, <2>2 DEF Snapshots, StrayEnds
    <3>2. /\ driver' \in Snapshots /\ driver'.waiting = driver.waiting \cup ({stray} \ Taken)
          /\ driver'.counted = driver.counted /\ driver'.loaded = driver.loaded
      BY <3>1, <1>2
    <3> QED
      BY <3>2, <1>1, <1>4 DEF StrayEnds
  <2> QED
    BY <1>4, <2>1, <2>2 DEF StrayEnds
<1> QED
  BY <1>3, <1>4 DEF Stray

LEMMA ControlInit == Init => ControlInv
BY Names DEF Init, ControlInv, ControlTypes, LockInv, OpenInv, Procs, Labels, At, Idle, Opened

LEMMA ControlStep == ControlInv /\ DataTypes /\ [Next]_vars => ControlInv'
<1> SUFFICES ASSUME ControlInv, DataTypes, [Next]_vars
             PROVE  ControlInv'
  OBVIOUS
<1> USE Names DEF ControlInv, ControlTypes, LockInv, OpenInv, Procs, Labels, At, Goto, Idle, Opened,
                  fixed, csc, plans, store, flags, ghosts
<1>1. CASE UNCHANGED vars
  BY <1>1 DEF vars
<1>2. CASE Generation
  <2>1. CASE GenerateSaves
    BY <2>1, FirstFree DEF GenerateSaves
  <2>2. CASE GenerateSelects
    BY <2>2 DEF GenerateSelects
  <2>3. CASE GenerateRegisters
    <3>1. pc'["loop"] \in {"checking", "handling", "generating"} /\ \A p \in Procs \ {"loop"} : pc'[p] = pc[p]
      BY <2>3 DEF GenerateRegisters, AfterGenerating
    <3> QED
      BY <2>3, <3>1 DEF GenerateRegisters
  <2>4. CASE GenerateFails
    BY <2>4 DEF GenerateFails, LoopRaises
  <2>5. CASE EstimateBegins
    BY <2>5, FirstFree DEF EstimateBegins
  <2>6. CASE EstimateRegisters
    BY <2>6 DEF EstimateRegisters, RegistersPlayed
  <2>7. CASE EstimateEnds
    BY <2>7 DEF EstimateEnds, Restores, LoopRaises
  <2>8. CASE Plays("loop", "estimating", "guessing")
    BY <2>8 DEF Plays
  <2> QED
    BY <1>2, <2>1, <2>2, <2>3, <2>4, <2>5, <2>6, <2>7, <2>8 DEF Generation
<1>3. CASE Prediction
  <2>1. CASE PredictBegins
    BY <2>1, FirstFree DEF PredictBegins
  <2>2. CASE PredictEnds
    BY <2>2 DEF PredictEnds, Restores
  <2>3. CASE Plays("predict", "predicting", "playing")
    BY <2>3 DEF Plays
  <2>4. CASE RegistersPlayed("predict", "playing", "predicting")
    BY <2>4 DEF RegistersPlayed
  <2> QED
    BY <1>3, <2>1, <2>2, <2>3, <2>4 DEF Prediction
<1>4. CASE Commands
  <2>1. CASE Enables
    BY <2>1 DEF Enables
  <2>2. CASE Resumes
    BY <2>2 DEF Resumes
  <2>3. CASE StopAsks
    BY <2>3 DEF StopAsks
  <2>4. CASE StopCleansUp
    BY <2>4 DEF StopCleansUp
  <2>5. CASE StopKills
    <3>1. stray' \in Targets \cup {"asking", None}
      <4>1. Offered \subseteq Targets
        BY DEF Offered, Snapshots, DataTypes, PlanTypes, StoreTypes
      <4>2. stray' \in {stray} \cup LeavesBehind
        BY <2>5 DEF StopKills
      <4> QED
        BY <4>1, <4>2 DEF LeavesBehind
    <3> QED
      BY <2>5, <3>1 DEF StopKills
  <2>6. CASE LoadAsks
    BY <2>6 DEF LoadAsks
  <2>7. CASE LoadFails
    BY <2>7 DEF LoadFails
  <2>8. CASE Loads
    BY <2>8 DEF Loads
  <2> QED
    BY <1>4, <2>1, <2>2, <2>3, <2>4, <2>5, <2>6, <2>7, <2>8 DEF Commands
<1>5. ASSUME NEW p \in {"loop", "check"}, Checks(p)
      PROVE  ControlInv'
  BY <1>5 DEF Checks, AfterCheck
<1>6. ASSUME NEW p \in {"loop", "check"}, RollsBack(p)
      PROVE  ControlInv'
  BY <1>6 DEF RollsBack, AfterCheck, ReleasesAfterCheck
<1>7. ASSUME NEW p \in {"loop", "check"}, RollBackFails(p)
      PROVE  ControlInv'
  BY <1>7 DEF RollBackFails, LoopRaises
<1>8. CASE Loop
  <2>1. CASE LoopTurns
    BY <2>1 DEF LoopTurns
  <2>2. CASE Faults
    BY <2>2 DEF Faults
  <2>3. CASE QueueTakes
    <3>1. inHand' # None
      BY <2>3, HeadTailProperties DEF QueueTakes, DataTypes, PlanTypes
    <3> QED
      BY <2>3, <3>1 DEF QueueTakes
  <2>4. CASE QueuePuts
    BY <2>4 DEF QueuePuts
  <2>5. CASE QueueFails
    BY <2>5 DEF QueueFails, LoopRaises
  <2>6. CASE SimpleSelects
    <3>1. selected' \in Items \cup {None}
      BY <2>6, SelectedTyped DEF SimpleSelects, DataTypes, PlanTypes, StoreTypes
    <3>2. selected' # None => inHand' # None
      BY <2>6, <3>1, ItemFields DEF SimpleSelects
    <3> QED
      BY <2>6, <3>2 DEF SimpleSelects, LoopRaises
  <2>7. CASE LoopSleeps
    BY <2>7 DEF LoopSleeps
  <2>8. CASE LoopPredicts
    BY <2>8, FirstFree DEF LoopPredicts
  <2>9. CASE LoopPredicted
    BY <2>9 DEF LoopPredicted, Restores, LoopRaises
  <2>10. CASE Plays("loop", "predicting", "playing")
    BY <2>10 DEF Plays
  <2>11. CASE RegistersPlayed("loop", "playing", "predicting")
    BY <2>11 DEF RegistersPlayed
  <2> QED
    BY <1>8, <1>2, <1>5, <1>6, <1>7, <2>1, <2>2, <2>3, <2>4, <2>5, <2>6, <2>7, <2>8, <2>9,
       <2>10, <2>11 DEF Loop
<1>9. CASE Stray
  <2>1. stray' \in Targets \cup {"asking", None}
    <3>1. Offered \subseteq Targets
      BY DEF Offered, Snapshots, DataTypes, PlanTypes, StoreTypes
    <3> QED
      BY <1>9, <3>1 DEF Stray, StrayAsks, StrayEnds
  <2> QED
    BY <1>9, <2>1, StrayQuiet
<1> QED
  BY <1>1, <1>3, <1>4, <1>5, <1>6, <1>7, <1>8, <1>9 DEF Next, Check

(***************************************************************************)
(* What a step does to the targets in use.                                 *)
(***************************************************************************)
LEMMA UseNow ==
  ASSUME PlanTypes
  PROVE  /\ Using \subseteq Planned
         /\ Held \in Seq(Planned) /\ Range(Held) = IF inHand = None THEN {} ELSE {inHand}
         /\ InUse \in Seq(Planned) /\ Range(InUse) = Using
         /\ ItemsOf(InUse) = {x.item : x \in Using}
         /\ FilesOf(InUse) = {x.file : x \in Using} \ {NoFile}
         /\ InUse = queue \o scheduled \o failing \o Held
<1>1. /\ queue \in Seq(Planned) /\ scheduled \in Seq(Planned) /\ failing \in Seq(Planned)
      /\ inHand \in Planned \cup {None}
  BY DEF PlanTypes
<1>2. Held = IF inHand = None THEN << >> ELSE <<inHand>>
  BY DEF Held
<1>3. InUse = queue \o scheduled \o failing \o Held
  BY <1>2 DEF InUse
<1>4. Using = Range(queue) \cup Range(scheduled) \cup Range(failing)
                \cup (IF inHand = None THEN {} ELSE {inHand})
  BY DEF Using
<1>5. Held \in Seq(Planned) /\ Range(Held) = IF inHand = None THEN {} ELSE {inHand}
  BY <1>1, <1>2, HeldRange
<1>6. InUse \in Seq(Planned) /\ Range(InUse) = Using
  BY <1>1, <1>3, <1>4, <1>5, Together
<1>7. Using \subseteq Planned
  BY <1>6, RangeOfSeq
<1> QED
  BY <1>3, <1>5, <1>6, <1>7, FilesAndItems

(* The same after a step.                                                  *)
LEMMA UseNext ==
  ASSUME PlanTypes'
  PROVE  /\ Using' \subseteq Planned
         /\ Held' \in Seq(Planned) /\ Range(Held') = IF inHand' = None THEN {} ELSE {inHand'}
         /\ InUse' \in Seq(Planned) /\ Range(InUse') = Using'
         /\ ItemsOf(InUse)' = {x.item : x \in Using'}
         /\ FilesOf(InUse)' = {x.file : x \in Using'} \ {NoFile}
         /\ InUse' = queue' \o scheduled' \o failing' \o Held'
<1>1. /\ queue' \in Seq(Planned) /\ scheduled' \in Seq(Planned) /\ failing' \in Seq(Planned)
      /\ inHand' \in Planned \cup {None}
  BY DEF PlanTypes
<1>2. Held' = IF inHand' = None THEN << >> ELSE <<inHand'>>
  BY DEF Held
<1>3. InUse' = queue' \o scheduled' \o failing' \o Held'
  BY <1>2 DEF InUse
<1>4. Using' = Range(queue') \cup Range(scheduled') \cup Range(failing')
                 \cup (IF inHand' = None THEN {} ELSE {inHand'})
  BY DEF Using, Range
<1>5. Held' \in Seq(Planned) /\ Range(Held') = IF inHand' = None THEN {} ELSE {inHand'}
  BY <1>1, <1>2, HeldRange
<1>6. InUse' \in Seq(Planned) /\ Range(InUse') = Using'
  BY <1>1, <1>3, <1>4, <1>5, Together
<1>7. Using' \subseteq Planned
  BY <1>6, RangeOfSeq
<1>8. ItemsOf(InUse)' = ItemsOf(InUse') /\ FilesOf(InUse)' = FilesOf(InUse')
  BY DEF ItemsOf, FilesOf
<1> QED
  BY <1>3, <1>5, <1>6, <1>7, <1>8, FilesAndItems

(* Most steps keep the plans or empty some of them.                        *)
Drops ==
  /\ queue' \in {queue, << >>} /\ scheduled' \in {scheduled, << >>}
  /\ failing' \in {failing, << >>} /\ inHand' \in {inHand, None}

LEMMA PlanSteps ==
  ASSUME [Next]_vars
  PROVE  Drops \/ GenerateRegisters \/ (\E p \in {"loop", "check"} : Checks(p))
           \/ QueueTakes \/ QueuePuts \/ SimpleSelects
<1> USE DEF Drops, plans
<1>1. CASE UNCHANGED vars
  BY <1>1 DEF vars
<1>2. CASE Generation
  BY <1>2 DEF Generation, GenerateSaves, GenerateSelects, GenerateFails, EstimateBegins,
       EstimateRegisters, EstimateEnds, Plays, RegistersPlayed
<1>3. CASE Prediction
  BY <1>3 DEF Prediction, PredictBegins, PredictEnds, Plays, RegistersPlayed
<1>4. CASE Commands
  BY <1>4 DEF Commands, Enables, Resumes, StopAsks, StopCleansUp, StopKills, LoadAsks, LoadFails,
       Loads
<1>5. ASSUME NEW p \in {"loop", "check"}, RollsBack(p) \/ RollBackFails(p)
      PROVE  Drops
  BY <1>5 DEF RollsBack, RollBackFails
<1>6. CASE LoopTurns \/ Faults \/ QueueFails \/ LoopSleeps \/ LoopPredicts \/ LoopPredicted
  BY <1>6 DEF LoopTurns, Faults, QueueFails, LoopSleeps, LoopPredicts, LoopPredicted
<1>7. CASE Plays("loop", "predicting", "playing") \/ RegistersPlayed("loop", "playing", "predicting")
  BY <1>7 DEF Plays, RegistersPlayed
<1>8. CASE Stray
  BY <1>8, StrayQuiet
<1> QED
  BY <1>1, <1>2, <1>3, <1>4, <1>5, <1>6, <1>7, <1>8 DEF Next, Check, Loop

(* All but two keep apart what was apart and in order what was in order.   *)
Shrinks ==
  /\ Using' \subseteq Using
  /\ \A R : /\ Apart(R, queue, scheduled, failing, Held)
                 => Apart(R, queue', scheduled', failing', Held')
            /\ InOrder(R, queue, scheduled, failing, Held)
                 => InOrder(R, queue', scheduled', failing', Held')

LEMMA DropsShrink ==
  ASSUME PlanTypes, Drops
  PROVE  /\ {queue', scheduled', failing'} \subseteq Seq(Planned)
         /\ inHand' \in Planned \cup {None}
         /\ Shrinks
<1>1. Held' \in {Held, << >>}
  BY DEF Drops, Held
<1>2. Range(<< >>) = {}
  BY DEF Range
<1>3. Using' = Range(queue') \cup Range(scheduled') \cup Range(failing')
                 \cup (IF inHand' = None THEN {} ELSE {inHand'})
  BY DEF Using, Range
<1>4. Using' \subseteq Using
  BY <1>2, <1>3 DEF Using, Drops
<1>5. \A R : /\ Apart(R, queue, scheduled, failing, Held)
                 => Apart(R, queue', scheduled', failing', Held')
             /\ InOrder(R, queue, scheduled, failing, Held)
                 => InOrder(R, queue', scheduled', failing', Held')
  <2> HIDE DEF Held
  <2> QED
    BY <1>1, SomeDropped DEF Drops
<1>6. << >> \in Seq(Planned)
  OBVIOUS
<1> QED
  BY <1>4, <1>5, <1>6 DEF Shrinks, Drops, PlanTypes

LEMMA SelectionSteps ==
  ASSUME [Next]_vars
  PROVE  (selected' \in {selected, None} /\ desired' = desired) \/ Selects \/ Stray
<1>1. CASE UNCHANGED vars
  BY <1>1 DEF vars
<1>2. CASE Generation
  BY <1>2 DEF Generation, GenerateSaves, GenerateSelects, GenerateRegisters, GenerateFails,
       EstimateBegins, EstimateRegisters, EstimateEnds, Plays, RegistersPlayed
<1>3. CASE Prediction
  BY <1>3 DEF Prediction, PredictBegins, PredictEnds, Plays, RegistersPlayed
<1>4. CASE Commands
  BY <1>4 DEF Commands, Enables, Resumes, StopAsks, StopCleansUp, StopKills, LoadAsks, LoadFails,
       Loads
<1>5. ASSUME NEW p \in {"loop", "check"}, Checks(p) \/ RollsBack(p) \/ RollBackFails(p)
      PROVE  selected' \in {selected, None} /\ desired' = desired
  BY <1>5 DEF Checks, RollsBack, RollBackFails
<1>6. CASE LoopTurns \/ Faults \/ QueueTakes \/ QueuePuts \/ QueueFails \/ SimpleSelects
             \/ LoopSleeps \/ LoopPredicts \/ LoopPredicted
  BY <1>6 DEF LoopTurns, Faults, QueueTakes, QueuePuts, QueueFails, SimpleSelects,
       LoopSleeps, LoopPredicts, LoopPredicted
<1>7. CASE Plays("loop", "predicting", "playing") \/ RegistersPlayed("loop", "playing", "predicting")
  BY <1>7 DEF Plays, RegistersPlayed
<1> QED
  BY <1>1, <1>2, <1>3, <1>4, <1>5, <1>6, <1>7 DEF Next, Check, Loop

LEMMA ChecksShrink ==
  ASSUME ControlInv, PlanTypes, NEW p \in {"loop", "check"}, Checks(p)
  PROVE  /\ {queue', scheduled', failing'} \subseteq Seq(Planned)
         /\ inHand' \in Planned \cup {None}
         /\ Shrinks
<1>1. failing = << >> /\ inHand' = inHand /\ queue' = queue
  BY Names DEF Checks, ControlInv, ControlTypes, LockInv, OpenInv, At, Idle
<1>2. PICK done \in SUBSET DOMAIN scheduled : \E failed \in SUBSET (DOMAIN scheduled \ done) :
             /\ failing' = Only(scheduled, failed)
             /\ scheduled' = Only(scheduled, DOMAIN scheduled \ (done \cup failed))
  BY DEF Checks
<1>2a. PICK failed \in SUBSET (DOMAIN scheduled \ done) : \E rest, d :
             /\ rest = DOMAIN scheduled \ (done \cup failed)
             /\ d = Only(scheduled, done)
             /\ failing' = Only(scheduled, failed)
             /\ scheduled' = Only(scheduled, rest)
  BY <1>2
<1>3. PICK rest, d :
      /\ rest = DOMAIN scheduled \ (done \cup failed)
      /\ d = Only(scheduled, done)
      /\ failing' = Only(scheduled, failed)
      /\ scheduled' = Only(scheduled, rest)
  BY <1>2a
<1>4. /\ queue \in Seq(Planned) /\ scheduled \in Seq(Planned)
      /\ Held \in Seq(Planned) /\ Held' = Held
  BY <1>1, UseNow DEF PlanTypes, Held
<1>5. /\ scheduled' \in Seq(Planned) /\ failing' \in Seq(Planned)
      /\ Range(scheduled') \subseteq Range(scheduled) /\ Range(failing') \subseteq Range(scheduled)
  <2>1. failed \in SUBSET DOMAIN scheduled /\ rest \in SUBSET DOMAIN scheduled
    BY <1>3
  <2> QED
    BY <1>3, <1>4, <2>1, OnlyTypes
<1>6. ASSUME NEW R
      PROVE  /\ Apart(R, queue, scheduled, failing, Held)
                  => Apart(R, queue', scheduled', failing', Held')
             /\ InOrder(R, queue, scheduled, failing, Held)
                  => InOrder(R, queue', scheduled', failing', Held')
  BY <1>1, <1>3, <1>4, ScheduledSorted
<1>7. Using' \subseteq Using
  <2>1. Using' = Range(queue') \cup Range(scheduled') \cup Range(failing')
                   \cup (IF inHand' = None THEN {} ELSE {inHand'})
    BY DEF Using, Range
  <2> QED
    BY <2>1, <1>1, <1>5 DEF Using
<1> QED
  BY <1>1, <1>4, <1>5, <1>6, <1>7 DEF Shrinks, PlanTypes

LEMMA TakesShrink ==
  ASSUME ControlInv, PlanTypes, QueueTakes
  PROVE  /\ {queue', scheduled', failing'} \subseteq Seq(Planned)
         /\ inHand' \in Planned \cup {None}
         /\ Shrinks
<1>1. /\ inHand = None /\ queue # << >> /\ inHand' = Head(queue) /\ queue' = Tail(queue)
      /\ scheduled' = scheduled /\ failing' = failing
      /\ queue \in Seq(Planned) /\ scheduled \in Seq(Planned) /\ failing \in Seq(Planned)
  BY DEF QueueTakes, ControlInv, OpenInv, At, PlanTypes
<1>2. /\ Tail(queue) \in Seq(Planned) /\ Head(queue) \in Planned
      /\ Range(Tail(queue)) \cup {Head(queue)} \subseteq Range(queue)
  BY <1>1, FirstTaken
<1>3. Held = << >> /\ Held' = <<Head(queue)>>
  BY <1>1, <1>2, Names DEF Held
<1>4. ASSUME NEW R
      PROVE  /\ Apart(R, queue, scheduled, failing, Held)
                  => Apart(R, queue', scheduled', failing', Held')
             /\ InOrder(R, queue, scheduled, failing, Held)
                  => InOrder(R, queue', scheduled', failing', Held')
  BY <1>1, <1>3, FirstTaken
<1>5. Using' \subseteq Using
  <2>1. Using' = Range(queue') \cup Range(scheduled') \cup Range(failing')
                   \cup (IF inHand' = None THEN {} ELSE {inHand'})
    BY DEF Using, Range
  <2> QED
    BY <2>1, <1>1, <1>2 DEF Using
<1> QED
  BY <1>1, <1>2, <1>4, <1>5 DEF Shrinks

LEMMA PutsShrink ==
  ASSUME ControlInv, PlanTypes, QueuePuts
  PROVE  /\ {queue', scheduled', failing'} \subseteq Seq(Planned)
         /\ inHand' \in Planned \cup {None}
         /\ Shrinks
<1>1. /\ inHand \in Planned /\ inHand # None /\ inHand' = None
      /\ queue' = queue /\ failing' = failing
      /\ queue \in Seq(Planned) /\ scheduled \in Seq(Planned) /\ failing \in Seq(Planned)
  BY DEF QueuePuts, ControlInv, OpenInv, At, PlanTypes
<1>2. CASE scheduled' = scheduled
  BY <1>1, <1>2, DropsShrink DEF Drops
<1>3. CASE scheduled' = Append(scheduled, inHand)
  <2>1. /\ scheduled' \in Seq(Planned)
        /\ Range(scheduled') = Range(scheduled) \cup {inHand}
    BY <1>1, <1>3, LastElement
  <2>2. Held = <<inHand>> /\ Held' = << >>
    BY <1>1 DEF Held
  <2>3. ASSUME NEW R
        PROVE  /\ Apart(R, queue, scheduled, failing, Held)
                    => Apart(R, queue', scheduled', failing', Held')
               /\ InOrder(R, queue, scheduled, failing, Held)
                    => InOrder(R, queue', scheduled', failing', Held')
    BY <1>1, <1>3, <2>2, HandedOver
  <2>4. Using' \subseteq Using
    <3>1. Using' = Range(queue') \cup Range(scheduled') \cup Range(failing')
                     \cup (IF inHand' = None THEN {} ELSE {inHand'})
      BY DEF Using, Range
    <3> QED
      BY <3>1, <1>1, <2>1 DEF Using
  <2> QED
    BY <1>1, <2>1, <2>3, <2>4 DEF Shrinks
<1> QED
  BY <1>2, <1>3 DEF QueuePuts

(* A target comes to the queue, or to hand, that was not in use.           *)
Comes(x) ==
  /\ x \in Planned
  /\ Using' = Using \cup {x}
  /\ \A R : /\ (/\ Apart(R, queue, scheduled, failing, Held)
                /\ \A y \in Using : <<x, y>> \notin R /\ <<y, x>> \notin R)
                 => Apart(R, queue', scheduled', failing', Held')
            /\ (/\ At("loop", "registering")
                /\ InOrder(R, queue, scheduled, failing, Held)
                /\ \A y \in Using : <<y, x>> \in R)
                 => InOrder(R, queue', scheduled', failing', Held')

NewQueued == GenerateRegisters /\ selected # None /\ Comes([item |-> selected, file |-> kept])
NewInHand == SimpleSelects /\ selected' # None /\ Comes([item |-> selected', file |-> NoFile])

LEMMA RegistersComes ==
  ASSUME PlanTypes, StoreTypes, GenerateRegisters, selected # None
  PROVE  /\ {queue', scheduled', failing'} \subseteq Seq(Planned)
         /\ inHand' \in Planned \cup {None}
         /\ NewQueued
<1> DEFINE x == [item |-> selected, file |-> kept]
<1>1. x \in Planned
  BY ItemFields DEF PlanTypes, StoreTypes
<1>2. /\ queue' = Append(queue, x) /\ scheduled' = scheduled /\ failing' = failing
      /\ inHand' = inHand /\ Held' = Held
      /\ queue \in Seq(Planned) /\ scheduled \in Seq(Planned) /\ failing \in Seq(Planned)
  BY DEF GenerateRegisters, PlanTypes, Held
<1> HIDE DEF x
<1>3. queue' \in Seq(Planned) /\ Range(queue') = Range(queue) \cup {x}
  BY <1>1, <1>2, LastElement
<1>4. Range(Held) = IF inHand = None THEN {} ELSE {inHand}
  BY UseNow
<1>5. Using = Range(queue) \cup Range(scheduled) \cup Range(failing) \cup Range(Held)
  BY <1>4 DEF Using
<1>6. Using' = Using \cup {x}
  <2>1. Using' = Range(queue') \cup Range(scheduled') \cup Range(failing')
                   \cup (IF inHand' = None THEN {} ELSE {inHand'})
    BY DEF Using, Range
  <2> QED
    BY <2>1, <1>2, <1>3 DEF Using
<1>7. ASSUME NEW R, Apart(R, queue, scheduled, failing, Held),
             \A y \in Using : <<x, y>> \notin R /\ <<y, x>> \notin R
      PROVE  Apart(R, queue', scheduled', failing', Held')
  BY <1>1, <1>2, <1>5, <1>7, NewComer
<1>8. ASSUME NEW R, InOrder(R, queue, scheduled, failing, Held),
             \A y \in Using : <<y, x>> \in R
      PROVE  InOrder(R, queue', scheduled', failing', Held')
  BY <1>1, <1>2, <1>5, <1>8, NewComer
<1>9. Comes(x)
  BY <1>1, <1>6, <1>7, <1>8 DEF Comes
<1> QED
  BY <1>2, <1>3, <1>9 DEF NewQueued, PlanTypes, x

LEMMA SelectsComes ==
  ASSUME ControlInv, PlanTypes, StoreTypes, SimpleSelects, selected' # None
  PROVE  /\ {queue', scheduled', failing'} \subseteq Seq(Planned)
         /\ inHand' \in Planned \cup {None}
         /\ NewInHand
<1> DEFINE x == [item |-> selected', file |-> NoFile]
<1>1. selected' \in Items
  BY SelectedTyped DEF SimpleSelects, PlanTypes, StoreTypes
<1>2. x \in Planned /\ x # None
  BY <1>1, ItemFields, Names
<1>3. /\ inHand' = x /\ queue' = queue /\ scheduled' = scheduled /\ failing' = failing
      /\ queue \in Seq(Planned) /\ scheduled \in Seq(Planned) /\ failing \in Seq(Planned)
      /\ inHand = None /\ ~At("loop", "registering")
  BY DEF SimpleSelects, PlanTypes, ControlInv, OpenInv, At
<1> HIDE DEF x
<1>4. Held = << >> /\ Held' = <<x>>
  BY <1>2, <1>3 DEF Held
<1>5. Range(Held) = {}
  BY <1>4 DEF Range
<1>6. Using = Range(queue) \cup Range(scheduled) \cup Range(failing) \cup Range(Held)
  BY <1>3, <1>5 DEF Using
<1>7. Using' = Using \cup {x}
  <2>1. Using' = Range(queue') \cup Range(scheduled') \cup Range(failing')
                   \cup (IF inHand' = None THEN {} ELSE {inHand'})
    BY DEF Using, Range
  <2> QED
    BY <2>1, <1>2, <1>3 DEF Using
<1>8. ASSUME NEW R, Apart(R, queue, scheduled, failing, Held),
             \A y \in Using : <<x, y>> \notin R /\ <<y, x>> \notin R
      PROVE  Apart(R, queue', scheduled', failing', Held')
  <2>1. Apart(R, queue, scheduled, failing, <<x>>)
    BY <1>2, <1>3, <1>4, <1>6, <1>8, NewComer
  <2> QED
    BY <2>1, <1>3, <1>4
<1>9. Comes(x)
  BY <1>2, <1>3, <1>7, <1>8 DEF Comes
<1> QED
  BY <1>2, <1>3, <1>9 DEF NewInHand, PlanTypes, x

LEMMA PlanStep ==
  ASSUME ControlInv, PlanTypes, StoreTypes, [Next]_vars
  PROVE  PlanTypes' /\ (Shrinks \/ NewQueued \/ NewInHand)
<1>1. selected' \in Items \cup {None} /\ desired' \in Targets \cup {None}
  <2>1. CASE Selects
    BY <2>1, SelectedTyped DEF PlanTypes, StoreTypes
  <2>2. CASE Stray
    BY <2>2, StrayFields, StrayQuiet DEF DataTypes, PlanTypes
  <2> QED
    BY <2>1, <2>2, SelectionSteps DEF PlanTypes
<1>2. /\ {queue', scheduled', failing'} \subseteq Seq(Planned)
      /\ inHand' \in Planned \cup {None}
      /\ Shrinks \/ NewQueued \/ NewInHand
  <2>1. CASE Drops
    BY <2>1, DropsShrink
  <2>2. CASE GenerateRegisters
    <3>1. selected = None => Drops
      BY <2>2 DEF GenerateRegisters, Drops
    <3> QED
      BY <2>1, <2>2, <3>1, RegistersComes
  <2>3. CASE \E p \in {"loop", "check"} : Checks(p)
    BY <2>3, ChecksShrink
  <2>4. CASE QueueTakes
    BY <2>4, TakesShrink
  <2>5. CASE QueuePuts
    BY <2>5, PutsShrink
  <2>6. CASE SimpleSelects
    <3>1. selected' = None => Drops
      BY <2>6 DEF SimpleSelects, Drops
    <3> QED
      BY <2>1, <2>6, <3>1, SelectsComes
  <2> QED
    BY <2>1, <2>2, <2>3, <2>4, <2>5, <2>6, PlanSteps
<1> QED
  BY <1>1, <1>2 DEF PlanTypes

(***************************************************************************)
(* What a step does to the snapshots.                                      *)
(***************************************************************************)
LEMMA FilesTogether ==
  ASSUME NEW q \in Seq(Planned), NEW s \in Seq(Planned), NEW f \in Seq(Planned),
         NEW h \in Seq(Planned)
  PROVE  /\ FilesOf(q \o s \o f \o h) = FilesOf(q) \cup FilesOf(s) \cup FilesOf(f) \cup FilesOf(h)
         /\ FilesOf(q \o f) = FilesOf(q) \cup FilesOf(f)
<1>1. \A u, y : y \in FilesOf(u) <=> y # NoFile /\ \E x \in Range(u) : y = x.file
  BY FilesAndItems
<1>3. Range(q \o s \o f \o h) = Range(q) \cup Range(s) \cup Range(f) \cup Range(h)
  BY Together
<1>4. Range(q \o f) = Range(q) \cup Range(f)
  BY RangeConcatenation
<1>5. \A y : y \in FilesOf(q \o s \o f \o h) <=>
              y \in FilesOf(q) \cup FilesOf(s) \cup FilesOf(f) \cup FilesOf(h)
  BY <1>1, <1>3
<1>6. \A y : y \in FilesOf(q \o f) <=> y \in FilesOf(q) \cup FilesOf(f)
  BY <1>1, <1>4
<1> QED
  BY <1>5, <1>6

LEMMA FilesNow ==
  ASSUME PlanTypes
  PROVE  FilesOf(InUse) = FilesOf(queue) \cup FilesOf(scheduled) \cup FilesOf(failing) \cup FilesOf(Held)
<1>1. /\ queue \in Seq(Planned) /\ scheduled \in Seq(Planned) /\ failing \in Seq(Planned)
      /\ Held \in Seq(Planned) /\ InUse = queue \o scheduled \o failing \o Held
  BY UseNow DEF PlanTypes
<1> QED
  BY <1>1, FilesTogether

LEMMA FilesNext ==
  ASSUME PlanTypes'
  PROVE  FilesOf(InUse)' = FilesOf(queue') \cup FilesOf(scheduled') \cup FilesOf(failing')
                             \cup FilesOf(Held')
<1>1. /\ queue' \in Seq(Planned) /\ scheduled' \in Seq(Planned) /\ failing' \in Seq(Planned)
      /\ Held' \in Seq(Planned) /\ InUse' = queue' \o scheduled' \o failing' \o Held'
  BY UseNext DEF PlanTypes
<1>2. FilesOf(InUse)' = FilesOf(InUse')
  BY DEF FilesOf
<1> QED
  BY <1>1, <1>2, FilesTogether

LEMMA StrangerFiles ==
  ASSUME NEW s \in Seq(Planned), NEW t \in Seq(Planned), Strangers(ShareFile, s, t)
  PROVE  FilesOf(s) \cap FilesOf(t) = {}
<1> SUFFICES ASSUME NEW i \in DOMAIN s, NEW j \in DOMAIN t, s[i].file = t[j].file, s[i].file # NoFile
             PROVE  FALSE
  BY DEF FilesOf
<1>1. s[i] \in Planned /\ t[j] \in Planned
  BY LenProperties, ElementOfSeq
<1>2. <<s[i], t[j]>> \in ShareFile
  BY <1>1 DEF ShareFile
<1> QED
  BY <1>2 DEF Strangers

(* Nothing is written: what is on disk and still referred to stays there.  *)
Keeps ==
  /\ kept' \in {kept, NoFile}
  /\ DOMAIN disk' \subseteq DOMAIN disk
  /\ \A f \in DOMAIN disk' : disk'[f] = disk[f]
  /\ Referenced' \subseteq DOMAIN disk' /\ Referenced' \subseteq Referenced

Writes == Saves /\ UNCHANGED <<plans, driver>>

StoresStep == Stores(disk) /\ kept' \in {kept, NoFile}

LEMMA StoreSteps ==
  ASSUME [Next]_vars
  PROVE  \/ UNCHANGED store \/ Writes \/ StoresStep
         \/ \E p \in {"loop", "check"} : Checks(p) \/ RollsBack(p) \/ RollBackFails(p)
<1> USE DEF Writes, StoresStep, store, plans
<1>1. CASE UNCHANGED vars
  BY <1>1 DEF vars
<1>2. CASE Generation
  BY <1>2 DEF Generation, GenerateSaves, GenerateSelects, GenerateRegisters, GenerateFails,
       EstimateBegins, EstimateRegisters, EstimateEnds, Restores, Plays, RegistersPlayed
<1>3. CASE Prediction
  BY <1>3 DEF Prediction, PredictBegins, PredictEnds, Restores, Plays, RegistersPlayed
<1>4. CASE Commands
  BY <1>4 DEF Commands, Enables, Resumes, StopAsks, StopCleansUp, StopKills, LoadAsks, LoadFails,
       Loads
<1>5. CASE LoopTurns \/ Faults \/ QueueTakes \/ QueuePuts \/ QueueFails \/ SimpleSelects
             \/ LoopSleeps \/ LoopPredicts \/ LoopPredicted
  BY <1>5 DEF LoopTurns, Faults, QueueTakes, QueuePuts, QueueFails, SimpleSelects,
       LoopSleeps, LoopPredicts, LoopPredicted, Restores
<1>6. CASE Plays("loop", "predicting", "playing") \/ RegistersPlayed("loop", "playing", "predicting")
  BY <1>6 DEF Plays, RegistersPlayed
<1>7. CASE Stray
  BY <1>7, StrayQuiet
<1> QED
  BY <1>1, <1>2, <1>3, <1>4, <1>5, <1>6, <1>7 DEF Next, Check, Loop

LEMMA ReferencedStep ==
  ASSUME StoreInv, [Next]_vars, kept' \in {kept, NoFile}
  PROVE  PlanTypes' /\ Referenced' \subseteq Referenced
<1>1. PlanTypes' /\ (Shrinks \/ NewQueued \/ NewInHand)
  BY PlanStep DEF StoreInv, DataTypes
<1>2. /\ FilesOf(InUse) = {x.file : x \in Using} \ {NoFile}
      /\ FilesOf(InUse)' = {x.file : x \in Using'} \ {NoFile}
  BY <1>1, UseNow, UseNext DEF StoreInv, DataTypes
<1>3. Referenced' = FilesOf(InUse)' \cup ({kept'} \ {NoFile})
  BY DEF Referenced
<1>4. FilesOf(InUse)' \subseteq Referenced
  <2>1. CASE Shrinks
    BY <2>1, <1>2 DEF Shrinks, Referenced
  <2>2. CASE NewQueued
    <3>1. Using' = Using \cup {[item |-> selected, file |-> kept]}
      BY <2>2 DEF NewQueued, Comes
    <3> QED
      BY <3>1, <1>2 DEF Referenced
  <2>3. CASE NewInHand
    <3>1. Using' = Using \cup {[item |-> selected', file |-> NoFile]}
      BY <2>3 DEF NewInHand, Comes
    <3> QED
      BY <3>1, <1>2 DEF Referenced
  <2> QED
    BY <1>1, <2>1, <2>2, <2>3
<1> QED
  BY <1>1, <1>3, <1>4 DEF Referenced

LEMMA StoresKeep ==
  ASSUME StoreInv, [Next]_vars, kept' \in {kept, NoFile}, NEW X,
         Stores(Restrict(disk, DOMAIN disk \ X)), Referenced' \cap X = {}
  PROVE  Keeps
<1>1. Referenced' \subseteq Referenced
  BY ReferencedStep
<1>2. Referenced \subseteq DOMAIN disk
  BY DEF StoreInv, FilesInv
<1> DEFINE D == (DOMAIN disk \ X) \cap Referenced'
<1>3. disk' = [f \in D |-> disk[f]]
  BY DEF Stores, Restrict
<1>4. Referenced' \subseteq D
  BY <1>1, <1>2
<1> QED
  BY <1>1, <1>3, <1>4 DEF Keeps

LEMMA StoreStep ==
  ASSUME StoreInv, [Next]_vars
  PROVE  Writes \/ Keeps
<1>1. CASE UNCHANGED store
  <2>1. disk' = disk /\ kept' = kept /\ Referenced' \subseteq Referenced
    BY <1>1, ReferencedStep DEF store
  <2> QED
    BY <2>1 DEF Keeps, StoreInv, FilesInv
<1>2. CASE StoresStep
  <2>1. Referenced' \subseteq Referenced /\ Referenced \subseteq DOMAIN disk
    BY <1>2, ReferencedStep DEF StoresStep, StoreInv, FilesInv
  <2>2. disk' = [f \in DOMAIN disk \cap Referenced' |-> disk[f]]
    BY <1>2 DEF StoresStep, Stores, Restrict
  <2> QED
    BY <1>2, <2>1, <2>2 DEF Keeps, StoresStep
<1>3. /\ queue \in Seq(Planned) /\ scheduled \in Seq(Planned) /\ failing \in Seq(Planned)
      /\ Held \in Seq(Planned)
      /\ FilesOf(InUse) = FilesOf(queue) \cup FilesOf(scheduled) \cup FilesOf(failing) \cup FilesOf(Held)
  BY UseNow, FilesNow DEF StoreInv, DataTypes, PlanTypes
<1>4. kept \notin FilesOf(InUse)
  BY DEF StoreInv, FilesInv
<1>5. FilesOf(<< >>) = {} /\ NoFile \notin UNION {FilesOf(u) : u \in {queue, scheduled, failing, Held}}
  BY DEF FilesOf
<1>6. PlanTypes' /\ Referenced' = FilesOf(queue') \cup FilesOf(scheduled') \cup FilesOf(failing')
                                    \cup FilesOf(Held') \cup ({kept'} \ {NoFile})
  BY PlanStep, FilesNext DEF Referenced, StoreInv, DataTypes
<1>7. Apart(ShareFile, queue, scheduled, failing, Held)
  BY DEF StoreInv, FilesInv
<1>8. ASSUME NEW p \in {"loop", "check"}, Checks(p)
      PROVE  Keeps
  <2>1. /\ failing = << >> /\ queue' = queue /\ kept' = kept /\ Held' = Held
    BY <1>8, Names DEF Checks, StoreInv, ControlInv, ControlTypes, LockInv, OpenInv, At, Idle, Held
  <2>2. PICK done \in SUBSET DOMAIN scheduled : \E failed \in SUBSET (DOMAIN scheduled \ done) :
               /\ failing' = Only(scheduled, failed)
               /\ scheduled' = Only(scheduled, DOMAIN scheduled \ (done \cup failed))
               /\ Stores(Without(Only(scheduled, done)))
    BY <1>8 DEF Checks
  <2>2a. PICK failed \in SUBSET (DOMAIN scheduled \ done) : \E rest, d :
               /\ rest = DOMAIN scheduled \ (done \cup failed)
               /\ d = Only(scheduled, done)
               /\ failing' = Only(scheduled, failed)
               /\ scheduled' = Only(scheduled, rest)
               /\ Stores(Without(d))
    BY <2>2
  <2>3. PICK rest, d :
        /\ rest = DOMAIN scheduled \ (done \cup failed)
        /\ d = Only(scheduled, done)
        /\ failing' = Only(scheduled, failed)
        /\ scheduled' = Only(scheduled, rest)
        /\ Stores(Without(d))
    BY <2>2a
  <2>4. /\ Strangers(ShareFile, d, queue) /\ Strangers(ShareFile, d, scheduled')
        /\ Strangers(ShareFile, d, failing') /\ Strangers(ShareFile, d, Held)
        /\ d \in Seq(Planned) /\ scheduled' \in Seq(Planned) /\ failing' \in Seq(Planned)
        /\ Range(d) \subseteq Range(scheduled)
    <3>1. Apart(ShareFile, queue, scheduled, << >>, Held)
      BY <2>1, <1>7
    <3>2. /\ Apart(ShareFile, queue, scheduled', failing', Held)
          /\ Strangers(ShareFile, d, queue) /\ Strangers(ShareFile, d, scheduled')
          /\ Strangers(ShareFile, d, failing') /\ Strangers(ShareFile, d, Held)
      BY <2>3, <1>3, <3>1, ScheduledSorted
    <3>3. d \in Seq(Planned) /\ Range(d) \subseteq Range(scheduled)
      BY <2>3, <1>3, OnlyTypes
    <3> QED
      BY <1>6, <3>2, <3>3 DEF PlanTypes
  <2>5. /\ FilesOf(d) \cap FilesOf(queue) = {} /\ FilesOf(d) \cap FilesOf(scheduled') = {}
        /\ FilesOf(d) \cap FilesOf(failing') = {} /\ FilesOf(d) \cap FilesOf(Held) = {}
    BY <2>4, <1>3, StrangerFiles
  <2>6. FilesOf(d) \subseteq FilesOf(scheduled)
    BY <2>4, FilesAndItems
  <2>7. Referenced' \cap FilesOf(d) = {}
    BY <2>1, <2>5, <2>6, <1>3, <1>4, <1>6
  <2>8. Stores(Restrict(disk, DOMAIN disk \ FilesOf(d)))
    BY <2>3 DEF Without, Stores
  <2> QED
    BY <2>1, <2>7, <2>8, StoresKeep
<1>9. ASSUME NEW p \in {"loop", "check"}, RollsBack(p)
      PROVE  Keeps
  <2>1. /\ queue' = << >> /\ scheduled' = << >> /\ failing' = << >> /\ kept' = kept /\ Held' = Held
        /\ Stores(Without(queue \o failing))
    BY <1>9 DEF RollsBack, Held
  <2>2. Strangers(ShareFile, queue, Held) /\ Strangers(ShareFile, failing, Held)
    BY <1>7 DEF Apart
  <2>3. FilesOf(queue) \cap FilesOf(Held) = {} /\ FilesOf(failing) \cap FilesOf(Held) = {}
    BY <2>2, <1>3, StrangerFiles
  <2>4. FilesOf(queue \o failing) = FilesOf(queue) \cup FilesOf(failing)
    BY <1>3, FilesTogether
  <2>5. Referenced' \cap FilesOf(queue \o failing) = {}
    BY <2>1, <2>3, <2>4, <1>3, <1>4, <1>5, <1>6
  <2>6. Stores(Restrict(disk, DOMAIN disk \ FilesOf(queue \o failing)))
    BY <2>1 DEF Without, Stores
  <2> QED
    BY <2>1, <2>5, <2>6, StoresKeep
<1>10. ASSUME NEW p \in {"loop", "check"}, RollBackFails(p)
       PROVE  Keeps
  <2>1. /\ queue' = << >> /\ scheduled' = scheduled /\ failing' = << >> /\ kept' = kept /\ Held' = Held
        /\ Stores(Without(queue))
    BY <1>10 DEF RollBackFails, Held
  <2>2. Strangers(ShareFile, queue, Held) /\ Strangers(ShareFile, queue, scheduled)
    BY <1>7 DEF Apart
  <2>3. FilesOf(queue) \cap FilesOf(Held) = {} /\ FilesOf(queue) \cap FilesOf(scheduled) = {}
    BY <2>2, <1>3, StrangerFiles
  <2>4. Referenced' \cap FilesOf(queue) = {}
    BY <2>1, <2>3, <1>3, <1>4, <1>5, <1>6
  <2>5. Stores(Restrict(disk, DOMAIN disk \ FilesOf(queue)))
    BY <2>1 DEF Without, Stores
  <2> QED
    BY <2>1, <2>4, <2>5, StoresKeep
<1> QED
  BY <1>1, <1>2, <1>8, <1>9, <1>10, StoreSteps

(***************************************************************************)
(* StoreInv is inductive: types, and that a snapshot is found.             *)
(***************************************************************************)
(* Where the driver may come from.                                         *)
LEMMA DriverSteps ==
  ASSUME [Next]_vars
  PROVE  \/ driver' = driver \/ Selects
         \/ driver' = Registered(driver, {selected} \ {None})
         \/ \E p \in {"loop", "check"} : Checks(p) \/ RollsBack(p)
         \/ driver' = disk[kept]
              /\ (Resetting \/ At("predict", "predicting"))
         \/ Loads \/ Stray
<1>1. CASE UNCHANGED vars
  BY <1>1 DEF vars
<1>2. CASE Generation
  BY <1>2 DEF Generation, GenerateSaves, GenerateSelects, GenerateRegisters, GenerateFails,
       EstimateBegins, EstimateRegisters, EstimateEnds, Restores, Plays, RegistersPlayed,
       Registered, Resetting
<1>3. CASE Prediction
  BY <1>3 DEF Prediction, PredictBegins, PredictEnds, Restores, Plays, RegistersPlayed
<1>4. CASE Commands
  BY <1>4 DEF Commands, Enables, Resumes, StopAsks, StopCleansUp, StopKills, LoadAsks, LoadFails
<1>5. ASSUME NEW p \in {"loop", "check"}, RollBackFails(p)
      PROVE  driver' = driver
  BY <1>5 DEF RollBackFails
<1>6. CASE LoopTurns \/ Faults \/ QueueTakes \/ QueuePuts \/ QueueFails \/ SimpleSelects
             \/ LoopSleeps \/ LoopPredicts \/ LoopPredicted
  BY <1>6 DEF LoopTurns, Faults, QueueTakes, QueuePuts, QueueFails, SimpleSelects,
       LoopSleeps, LoopPredicts, LoopPredicted, Restores, Resetting, At
<1>7. CASE Plays("loop", "predicting", "playing") \/ RegistersPlayed("loop", "playing", "predicting")
  BY <1>7 DEF Plays, RegistersPlayed
<1> QED
  BY <1>1, <1>2, <1>3, <1>4, <1>5, <1>6, <1>7 DEF Next, Check, Loop

LEMMA LoadSteps ==
  ASSUME ControlInv, [Next]_vars
  PROVE  \/ loads' = loads /\ secured' = secured /\ pc'["load"] = pc["load"]
         \/ LoadAsks \/ LoadFails \/ Loads
<1> USE DEF ghosts, ControlInv, ControlTypes, Procs, Goto
<1>1. CASE UNCHANGED vars
  BY <1>1 DEF vars
<1>2. CASE Generation
  BY <1>2 DEF Generation, GenerateSaves, GenerateSelects, GenerateRegisters, GenerateFails,
       EstimateBegins, EstimateRegisters, EstimateEnds, LoopRaises, Plays, RegistersPlayed
<1>3. CASE Prediction
  BY <1>3 DEF Prediction, PredictBegins, PredictEnds, Plays, RegistersPlayed
<1>4. CASE Commands
  BY <1>4 DEF Commands, Enables, Resumes, StopAsks, StopCleansUp, StopKills
<1>5. ASSUME NEW p \in {"loop", "check"}, Checks(p) \/ RollsBack(p) \/ RollBackFails(p)
      PROVE  loads' = loads /\ secured' = secured /\ pc'["load"] = pc["load"]
  BY <1>5 DEF Checks, RollsBack, RollBackFails, LoopRaises
<1>6. CASE LoopTurns \/ Faults \/ QueueTakes \/ QueuePuts \/ QueueFails \/ SimpleSelects
             \/ LoopSleeps \/ LoopPredicts \/ LoopPredicted
  BY <1>6 DEF LoopTurns, Faults, QueueTakes, QueuePuts, QueueFails, SimpleSelects,
       LoopSleeps, LoopPredicts, LoopPredicted, LoopRaises
<1>7. CASE Plays("loop", "predicting", "playing") \/ RegistersPlayed("loop", "playing", "predicting")
  BY <1>7 DEF Plays, RegistersPlayed
<1>8. CASE Stray
  BY <1>8, StrayQuiet
<1> QED
  BY <1>1, <1>2, <1>3, <1>4, <1>5, <1>6, <1>7, <1>8 DEF Next, Check, Loop

LEMMA RegisteredFields ==
  ASSUME NEW d \in Snapshots, NEW X \in SUBSET Items
  PROVE  /\ Registered(d, X) \in Snapshots
         /\ Registered(d, X).waiting = d.waiting /\ Registered(d, X).loaded = d.loaded
         /\ Registered(d, X).counted \in {d.counted, d.counted \cup X}
<1> DEFINE C == d.counted \cup X
<1>1. C \in SUBSET Items
  BY SnapshotFields
<1>2. Registered(d, X) = IF algorithm = "feature" THEN [d EXCEPT !.counted = C] ELSE d
  BY DEF Registered
<1>3. C = d.counted \cup X
  OBVIOUS
<1> HIDE DEF C
<1>5. CASE algorithm = "feature"
  <2>1. Registered(d, X) = [d EXCEPT !.counted = C]
    BY <1>2, <1>5
  <2>2. /\ [d EXCEPT !.counted = C] \in Snapshots
        /\ [d EXCEPT !.counted = C].waiting = d.waiting
        /\ [d EXCEPT !.counted = C].counted = C
        /\ [d EXCEPT !.counted = C].loaded = d.loaded
    BY <1>1 DEF Snapshots
  <2> QED
    BY <2>1, <2>2, <1>3
<1>6. CASE algorithm # "feature"
  <2>1. Registered(d, X) = d
    BY <1>2, <1>6
  <2> QED
    BY <2>1
<1> QED
  BY <1>5, <1>6

(* The loads of a driver go with those of the CSC.                         *)
LEMMA LoadedFields ==
  ASSUME StoreInv, Loads
  PROVE  /\ loads' = loads + 1 /\ loads' \in 1..MaxLoads
         /\ driver' \in Snapshots /\ driver'.loaded = loads'
         /\ driver'.counted \in {{}, driver.counted}
         /\ driver'.waiting \subseteq driver.waiting \cup (Targets \ Spent)
<1>1. loads' = loads + 1 /\ loads' \in 1..MaxLoads /\ loads' \in 0..MaxLoads
  BY Names DEF Loads, StoreInv, DataTypes, StoreTypes
<1>2. driver \in Snapshots /\ driver.waiting \in SUBSET Targets /\ driver.counted \in SUBSET Items
  BY SnapshotFields DEF StoreInv, DataTypes, StoreTypes
<1>3. Late \subseteq Targets
  BY DriverStateAssumption
<1>4. CASE algorithm = "feature"
  <2>1. driver' = [waiting |-> Targets \ Spent, counted |-> {}, loaded |-> loads']
    BY <1>4 DEF Loads
  <2> QED
    BY <2>1, <1>1 DEF Snapshots
<1>5. CASE algorithm # "feature"
  <2> DEFINE W == driver.waiting \cup (Late \ Spent)
  <2>1. driver' = [driver EXCEPT !.waiting = W, !.loaded = loads']
    BY <1>5 DEF Loads
  <2>2. W \in SUBSET Targets /\ W \subseteq driver.waiting \cup (Targets \ Spent)
    BY <1>2, <1>3
  <2> HIDE DEF W
  <2>3. /\ driver' \in Snapshots /\ driver'.waiting = W /\ driver'.loaded = loads'
        /\ driver'.counted = driver.counted
    BY <2>1, <2>2, <1>1, <1>2 DEF Snapshots
  <2> QED
    BY <2>2, <2>3, <1>1
<1> QED
  BY <1>4, <1>5

(* The snapshot that a rollback takes the driver to.                       *)
LEMMA RollbackFile ==
  ASSUME StoreInv, Snapshotted # {}
  PROVE  /\ Min(Snapshotted) \in DOMAIN failing
         /\ failing[Min(Snapshotted)].file \in FilesOf(failing)
         /\ failing[Min(Snapshotted)].file \in DOMAIN disk
         /\ \A i \in DOMAIN failing : failing[i].file # NoFile => Min(Snapshotted) <= i
<1>1. failing \in Seq(Planned)
  BY DEF StoreInv, DataTypes, PlanTypes
<1>2. Snapshotted \in SUBSET Nat
  BY <1>1, LenProperties DEF Snapshotted
<1>3. Min(Snapshotted) \in Snapshotted /\ \A i \in Snapshotted : Min(Snapshotted) <= i
  BY <1>2, LeastElement
<1>4. failing[Min(Snapshotted)].file \in FilesOf(failing)
  BY <1>3 DEF Snapshotted, FilesOf
<1>5. FilesOf(failing) \subseteq DOMAIN disk
  BY FilesNow DEF StoreInv, DataTypes, FilesInv, Referenced
<1> QED
  BY <1>3, <1>4, <1>5 DEF Snapshotted

LEMMA ItemsTyped ==
  ASSUME NEW s \in Seq(Planned)
  PROVE  ItemsOf(s) \in SUBSET Items
BY LenProperties, ElementOfSeq, ItemFields DEF ItemsOf

LEMMA DriverTyped == StoreInv /\ [Next]_vars => driver' \in Snapshots
<1> SUFFICES ASSUME StoreInv, [Next]_vars
             PROVE  driver' \in Snapshots
  OBVIOUS
<1>1. /\ driver \in Snapshots /\ selected \in Items \cup {None}
      /\ scheduled \in Seq(Planned)
      /\ \A f \in DOMAIN disk : disk[f] \in Snapshots
  BY DEF StoreInv, DataTypes, PlanTypes, StoreTypes
<1>2. CASE Selects
  BY <1>2, SelectedTyped DEF StoreInv, DataTypes, PlanTypes, StoreTypes
<1>3. CASE driver' = Registered(driver, {selected} \ {None})
  <2>1. {selected} \ {None} \in SUBSET Items
    BY <1>1
  <2> QED
    BY <2>1, <1>1, <1>3, RegisteredFields
<1>4. ASSUME NEW p \in {"loop", "check"}, Checks(p)
      PROVE  driver' \in Snapshots
  <2>1. PICK done \in SUBSET DOMAIN scheduled :
               driver' = Registered(driver, ItemsOf(Only(scheduled, done)))
    BY <1>4 DEF Checks
  <2>2. ItemsOf(Only(scheduled, done)) \in SUBSET Items
    BY <1>1, OnlyTypes, ItemsTyped
  <2> QED
    BY <2>1, <2>2, <1>1, RegisteredFields
<1>5. ASSUME NEW p \in {"loop", "check"}, RollsBack(p)
      PROVE  driver' \in Snapshots
  BY <1>1, <1>5, RollbackFile DEF RollsBack
<1>6. ASSUME driver' = disk[kept], Resetting \/ At("predict", "predicting")
      PROVE  driver' \in Snapshots
  <2>1. kept # NoFile
    BY <1>6 DEF Resetting, At, StoreInv, ControlInv, OpenInv, Opened
  <2>2. kept \in DOMAIN disk
    BY <2>1 DEF StoreInv, FilesInv, Referenced
  <2> QED
    BY <1>1, <1>6, <2>2
<1>7. CASE Loads
  BY <1>7, LoadedFields
<1>8. CASE Stray
  BY <1>8, StrayFields DEF StoreInv
<1> QED
  BY <1>1, <1>2, <1>3, <1>4, <1>5, <1>6, <1>7, <1>8, DriverSteps

LEMMA StoreInit == Init => StoreInv
<1> SUFFICES ASSUME Init PROVE StoreInv
  OBVIOUS
<1>1. ControlInv
  BY ControlInit
<1>2. /\ queue = << >> /\ scheduled = << >> /\ failing = << >> /\ inHand = None /\ Held = << >>
      /\ disk = << >> /\ kept = NoFile /\ DOMAIN disk = {}
  BY DEF Init, Held
<1>3. PlanTypes
  BY <1>2 DEF Init, PlanTypes
<1>4. StoreTypes
  <2>1. driver \in Snapshots
    BY Names DEF Init, Snapshots
  <2> QED
    BY <1>2, <2>1, Names DEF Init, StoreTypes, At, Procs
<1>5. FilesOf(InUse) = {}
  BY <1>2, <1>3, FilesNow DEF FilesOf
<1>6. Apart(ShareFile, queue, scheduled, failing, Held)
  BY <1>2 DEF Apart, Alone, Strangers
<1> QED
  BY <1>1, <1>2, <1>3, <1>4, <1>5, <1>6 DEF StoreInv, DataTypes, FilesInv, Referenced

LEMMA StoreInductive == StoreInv /\ [Next]_vars => StoreInv'
<1> SUFFICES ASSUME StoreInv, [Next]_vars
             PROVE  StoreInv'
  OBVIOUS
<1>1. ControlInv'
  BY ControlStep DEF StoreInv
<1>2. PlanTypes' /\ (Shrinks \/ NewQueued \/ NewInHand)
  BY PlanStep DEF StoreInv, DataTypes
<1>3. /\ FilesOf(InUse) = {x.file : x \in Using} \ {NoFile} /\ Using \subseteq Planned
      /\ FilesOf(InUse)' = {x.file : x \in Using'} \ {NoFile}
  BY <1>2, UseNow, UseNext DEF StoreInv, DataTypes
<1>4. /\ Referenced \subseteq DOMAIN disk /\ kept \notin FilesOf(InUse)
      /\ Apart(ShareFile, queue, scheduled, failing, Held)
      /\ Referenced = FilesOf(InUse) \cup ({kept} \ {NoFile})
      /\ Referenced' = FilesOf(InUse)' \cup ({kept'} \ {NoFile})
  BY DEF StoreInv, FilesInv, Referenced
<1>5. StoreTypes'
  <2>1. driver' \in Snapshots
    BY DriverTyped
  <2>2. loads' \in 0..MaxLoads /\ (At("load", "asked")' => loads' < MaxLoads)
    <3>1. loads \in 0..MaxLoads /\ (At("load", "asked") => loads < MaxLoads) /\ MaxLoads \in Nat
      BY Names DEF StoreInv, DataTypes, StoreTypes
    <3>2. CASE loads' = loads /\ pc'["load"] = pc["load"]
      BY <3>1, <3>2 DEF At
    <3>3. CASE LoadAsks \/ LoadFails \/ Loads
      BY <3>1, <3>3 DEF LoadAsks, LoadFails, Loads, ghosts, Goto, At, StoreInv, ControlInv,
           ControlTypes, Procs
    <3> QED
      BY <3>2, <3>3, LoadSteps DEF StoreInv
  <2>3. /\ kept' \in Files \cup {NoFile} /\ DOMAIN disk' \subseteq Files
        /\ \A f \in DOMAIN disk' : disk'[f] \in Snapshots
    <3>1. /\ kept \in Files \cup {NoFile} /\ DOMAIN disk \subseteq Files
          /\ driver \in Snapshots /\ \A f \in DOMAIN disk : disk[f] \in Snapshots
      BY DEF StoreInv, DataTypes, StoreTypes
    <3>2. CASE Writes
      BY <3>1, <3>2, FirstFree DEF Writes
    <3>3. CASE Keeps
      BY <3>1, <3>3 DEF Keeps
    <3> QED
      BY <3>2, <3>3, StoreStep
  <2> QED
    BY <2>1, <2>2, <2>3 DEF StoreTypes
<1>6. Apart(ShareFile, queue', scheduled', failing', Held')
  <2>1. CASE Shrinks
    BY <2>1, <1>4 DEF Shrinks
  <2>2. ASSUME NEW x, Comes(x), x.file \notin FilesOf(InUse)
        PROVE  Apart(ShareFile, queue', scheduled', failing', Held')
    <3>1. \A y \in Using : <<x, y>> \notin ShareFile /\ <<y, x>> \notin ShareFile
      BY <1>3, <2>2 DEF ShareFile
    <3> QED
      BY <3>1, <2>2, <1>4 DEF Comes
  <2>3. CASE NewQueued
    <3>1. [item |-> selected, file |-> kept].file \notin FilesOf(InUse)
      BY <1>4
    <3> QED
      BY <2>2, <2>3, <3>1 DEF NewQueued
  <2>4. CASE NewInHand
    <3>1. [item |-> selected', file |-> NoFile].file \notin FilesOf(InUse)
      BY <1>3
    <3> QED
      BY <2>2, <2>4, <3>1 DEF NewInHand
  <2> QED
    BY <1>2, <2>1, <2>3, <2>4
<1>7. Referenced' \subseteq DOMAIN disk' /\ kept' \notin FilesOf(InUse)'
  <2>1. CASE Writes
    <3>1. Using' = Using
      BY <2>1 DEF Writes, plans, Using, Range
    <3> QED
      BY <2>1, <3>1, <1>3, <1>4, FirstFree DEF Writes
  <2>2. CASE Keeps
    <3>1. Referenced' \subseteq DOMAIN disk' /\ kept' \in {kept, NoFile}
      BY <2>2 DEF Keeps
    <3>2. CASE kept' = NoFile
      BY <3>1, <3>2, <1>3
    <3>3. CASE kept' = kept /\ kept # NoFile
      <4>1. ~NewQueued
        BY <3>3 DEF NewQueued, GenerateRegisters
      <4>2. FilesOf(InUse)' \subseteq FilesOf(InUse)
        <5>1. CASE Shrinks
          BY <5>1, <1>3 DEF Shrinks
        <5>2. CASE NewInHand
          <6>1. Using' = Using \cup {[item |-> selected', file |-> NoFile]}
            BY <5>2 DEF NewInHand, Comes
          <6> QED
            BY <6>1, <1>3
        <5> QED
          BY <4>1, <5>1, <5>2, <1>2
      <4> QED
        BY <3>1, <3>3, <4>2, <1>4
    <3> QED
      BY <3>1, <3>2, <3>3
  <2> QED
    BY <2>1, <2>2, StoreStep
<1> QED
  BY <1>1, <1>2, <1>5, <1>6, <1>7 DEF StoreInv, DataTypes, FilesInv

LEMMA StoreAlways == Spec => []StoreInv
<1>1. Init => StoreInv
  BY StoreInit
<1>2. StoreInv /\ [Next]_vars => StoreInv'
  BY StoreInductive
<1> QED
  BY <1>1, <1>2, PTL DEF Spec

(* The variables have their types, and what is referred to is found: what  *)
(* current_scheduler_state, check_scheduled_targets and load assign to the *)
(* driver is always a snapshot.                                            *)
THEOREM DriverTypeCorrect == Spec => []TypeOK
<1>1. StoreInv => TypeOK
  BY DEF StoreInv, ControlInv, ControlTypes, DataTypes, PlanTypes, StoreTypes, TypeOK
<1> QED
  BY <1>1, StoreAlways, PTL

(* The file a target names is on disk for as long as the target may fail,  *)
(* and no two targets share one (remove_scheduler_state, keep_state).      *)
THEOREM SnapshotsKept == Spec => []SnapshotExists
<1>1. ASSUME StoreInv
      PROVE  SnapshotExists
  <2>1. Alone(ShareFile, InUse) /\ InUse \in Seq(Planned)
    <3>1. /\ queue \in Seq(Planned) /\ scheduled \in Seq(Planned) /\ failing \in Seq(Planned)
          /\ Held \in Seq(Planned) /\ InUse = queue \o scheduled \o failing \o Held
          /\ InUse \in Seq(Planned) /\ Apart(ShareFile, queue, scheduled, failing, Held)
      BY <1>1, UseNow DEF StoreInv, FilesInv, DataTypes, PlanTypes
    <3> QED
      BY <3>1, TogetherAlone
  <2>2. \A i \in DOMAIN InUse : InUse[i] \in Planned
    BY <2>1, LenProperties, ElementOfSeq
  <2>3. \A i, j \in DOMAIN InUse :
          InUse[i].file = InUse[j].file /\ InUse[i].file # NoFile => i = j
    BY <2>1, <2>2 DEF Alone, ShareFile
  <2> QED
    BY <1>1, <2>3 DEF StoreInv, FilesInv, SnapshotExists
<1> QED
  BY <1>1, StoreAlways, PTL

(***************************************************************************)
(* Where the driver is taken.                                              *)
(***************************************************************************)
SameSide == Forward' <=> Forward

(* The driver is taken back to the open snapshot.                          *)
TakenBack == Forward /\ ~Forward' /\ driver' = disk[kept]

LEMMA DriverKinds ==
  ASSUME StoreInv, [Next]_vars
  PROVE  \/ Writes /\ ~Forward
         \/ driver' = driver /\ issued' = issued /\ SameSide
         \/ Selects /\ SameSide
         \/ driver' = Registered(driver, {selected} \ {None}) /\ Forward /\ Forward'
         \/ GenerateRegisters /\ SameSide
         \/ (\E p \in {"loop", "check"} : Checks(p) \/ RollsBack(p)) /\ SameSide
         \/ TakenBack
         \/ (Loads \/ Stray) /\ SameSide
<1> USE DEF StoreInv, ControlInv, ControlTypes, LockInv, Idle, Procs, Labels, At, Goto, Forward,
            Resetting, SameSide, TakenBack, Writes, plans, ghosts, csc
<1>1. CASE UNCHANGED vars
  BY <1>1 DEF vars
<1>2. CASE Generation
  <2>1. CASE GenerateSaves
    BY <2>1 DEF GenerateSaves
  <2>2. CASE GenerateSelects
    BY <2>2 DEF GenerateSelects
  <2>3. CASE GenerateRegisters
    <3>1. pc'["loop"] \in {"checking", "handling", "generating"} /\ pc'["predict"] = pc["predict"]
      BY <2>3 DEF GenerateRegisters, AfterGenerating
    <3> QED
      BY <2>3, <3>1 DEF GenerateRegisters
  <2>4. CASE GenerateFails
    BY <2>4 DEF GenerateFails, LoopRaises
  <2>5. CASE EstimateBegins
    BY <2>5 DEF EstimateBegins
  <2>6. CASE EstimateRegisters
    BY <2>6 DEF EstimateRegisters, RegistersPlayed
  <2>7. CASE EstimateEnds
    BY <2>7 DEF EstimateEnds, Restores, LoopRaises
  <2>8. CASE Plays("loop", "estimating", "guessing")
    BY <2>8 DEF Plays
  <2> QED
    BY <1>2, <2>1, <2>2, <2>3, <2>4, <2>5, <2>6, <2>7, <2>8 DEF Generation
<1>3. CASE Prediction
  <2>1. CASE PredictBegins
    BY <2>1 DEF PredictBegins
  <2>2. CASE PredictEnds
    BY <2>2 DEF PredictEnds, Restores
  <2>3. CASE Plays("predict", "predicting", "playing")
    BY <2>3 DEF Plays
  <2>4. CASE RegistersPlayed("predict", "playing", "predicting")
    BY <2>4 DEF RegistersPlayed
  <2> QED
    BY <1>3, <2>1, <2>2, <2>3, <2>4 DEF Prediction
<1>4. CASE Commands
  <2>1. CASE Enables
    BY <2>1 DEF Enables
  <2>2. CASE Resumes
    BY <2>2 DEF Resumes
  <2>3. CASE StopAsks
    BY <2>3 DEF StopAsks
  <2>4. CASE StopCleansUp
    BY <2>4 DEF StopCleansUp
  <2>5. CASE StopKills
    BY <2>5 DEF StopKills
  <2>6. CASE LoadAsks
    BY <2>6 DEF LoadAsks
  <2>7. CASE LoadFails
    BY <2>7 DEF LoadFails
  <2>8. CASE Loads
    BY <2>8 DEF Loads
  <2> QED
    BY <1>4, <2>1, <2>2, <2>3, <2>4, <2>5, <2>6, <2>7, <2>8 DEF Commands
<1>5. ASSUME NEW p \in {"loop", "check"}, Checks(p)
      PROVE  Checks(p) /\ SameSide
  BY <1>5 DEF Checks, AfterCheck
<1>6. ASSUME NEW p \in {"loop", "check"}, RollsBack(p)
      PROVE  RollsBack(p) /\ SameSide
  BY <1>6 DEF RollsBack, AfterCheck
<1>7. ASSUME NEW p \in {"loop", "check"}, RollBackFails(p)
      PROVE  driver' = driver /\ issued' = issued /\ SameSide
  BY <1>7 DEF RollBackFails, LoopRaises
<1>8. CASE Loop
  <2>1. CASE LoopTurns
    BY <2>1 DEF LoopTurns
  <2>2. CASE Faults
    BY <2>2 DEF Faults
  <2>3. CASE QueueTakes
    BY <2>3 DEF QueueTakes
  <2>4. CASE QueuePuts
    BY <2>4 DEF QueuePuts
  <2>5. CASE QueueFails
    BY <2>5 DEF QueueFails, LoopRaises
  <2>6. CASE SimpleSelects
    BY <2>6 DEF SimpleSelects, LoopRaises
  <2>7. CASE LoopSleeps
    BY <2>7 DEF LoopSleeps
  <2>8. CASE LoopPredicts
    BY <2>8 DEF LoopPredicts
  <2>9. CASE LoopPredicted
    BY <2>9 DEF LoopPredicted, Restores, LoopRaises
  <2>10. CASE Plays("loop", "predicting", "playing")
    BY <2>10 DEF Plays
  <2>11. CASE RegistersPlayed("loop", "playing", "predicting")
    BY <2>11 DEF RegistersPlayed
  <2> QED
    BY <1>8, <1>2, <1>5, <1>6, <1>7, <2>1, <2>2, <2>3, <2>4, <2>5, <2>6, <2>7, <2>8, <2>9,
       <2>10, <2>11 DEF Loop
<1>9. CASE Stray
  BY <1>9, StrayQuiet
<1> QED
  BY <1>1, <1>3, <1>4, <1>5, <1>6, <1>7, <1>8, <1>9 DEF Next, Check

LEMMA KeptSteps ==
  ASSUME [Next]_vars
  PROVE  kept' \in {kept, NoFile} \/ GenerateSaves \/ EstimateBegins \/ LoopPredicts \/ PredictBegins
<1> USE DEF store
<1>1. CASE UNCHANGED vars
  BY <1>1 DEF vars
<1>2. CASE Generation
  BY <1>2 DEF Generation, GenerateSelects, GenerateRegisters, GenerateFails,
       EstimateRegisters, EstimateEnds, Restores, Plays, RegistersPlayed
<1>3. CASE Prediction
  BY <1>3 DEF Prediction, PredictEnds, Restores, Plays, RegistersPlayed
<1>4. CASE Commands
  BY <1>4 DEF Commands, Enables, Resumes, StopAsks, StopCleansUp, StopKills, LoadAsks, LoadFails,
       Loads
<1>5. ASSUME NEW p \in {"loop", "check"}, Checks(p) \/ RollsBack(p) \/ RollBackFails(p)
      PROVE  kept' = kept
  BY <1>5 DEF Checks, RollsBack, RollBackFails
<1>6. CASE LoopTurns \/ Faults \/ QueueTakes \/ QueuePuts \/ QueueFails \/ SimpleSelects
             \/ LoopSleeps \/ LoopPredicted
  BY <1>6 DEF LoopTurns, Faults, QueueTakes, QueuePuts, QueueFails, SimpleSelects,
       LoopSleeps, LoopPredicted, Restores
<1>7. CASE Plays("loop", "predicting", "playing") \/ RegistersPlayed("loop", "playing", "predicting")
  BY <1>7 DEF Plays, RegistersPlayed
<1>8. CASE Stray
  BY <1>8, StrayQuiet
<1> QED
  BY <1>1, <1>2, <1>3, <1>4, <1>5, <1>6, <1>7, <1>8 DEF Next, Check, Loop

LEMMA OpenOnDisk ==
  ASSUME StoreInv, Forward
  PROVE  kept # NoFile /\ kept \in DOMAIN disk
<1>1. kept # NoFile
  BY DEF StoreInv, ControlInv, OpenInv, Opened, Forward, Resetting, At
<1> QED
  BY <1>1 DEF StoreInv, FilesInv, Referenced

(* A snapshot is written by whoever is about to play the driver forward,   *)
(* or to select a target, and by no other at that time.                    *)
LEMMA WritesQuiet ==
  ASSUME StoreInv, [Next]_vars, Writes
  PROVE  ~Forward /\ kept = NoFile
<1>1. kept' # NoFile /\ kept' \notin DOMAIN disk /\ kept' \in DOMAIN disk'
  BY FirstFree DEF Writes
<1>2. kept' # kept
  BY <1>1 DEF StoreInv, FilesInv, Referenced
<1> USE DEF StoreInv, ControlInv, ControlTypes, LockInv, OpenInv, Idle, Opened, At
<1>3. CASE GenerateSaves \/ EstimateBegins \/ LoopPredicts \/ PredictBegins
  BY <1>3 DEF GenerateSaves, EstimateBegins, LoopPredicts, PredictBegins, Forward, Resetting
<1>4. CASE ~(GenerateSaves \/ EstimateBegins \/ LoopPredicts \/ PredictBegins)
  BY <1>1, <1>2, <1>4, KeptSteps
<1> QED
  BY <1>3, <1>4

(***************************************************************************)
(* Only what was issued is counted.                                        *)
(***************************************************************************)
LEMMA IssuedGrows ==
  ASSUME [Next]_vars
  PROVE  issued \subseteq issued'
<1> USE DEF ghosts
<1>1. CASE UNCHANGED vars
  BY <1>1 DEF vars
<1>2. CASE Generation
  BY <1>2 DEF Generation, GenerateSaves, GenerateSelects, GenerateRegisters, GenerateFails,
       EstimateBegins, EstimateRegisters, EstimateEnds, Plays, RegistersPlayed
<1>3. CASE Prediction
  BY <1>3 DEF Prediction, PredictBegins, PredictEnds, Plays, RegistersPlayed
<1>4. CASE Commands
  BY <1>4 DEF Commands, Enables, Resumes, StopAsks, StopCleansUp, StopKills, LoadAsks, LoadFails,
       Loads
<1>5. ASSUME NEW p \in {"loop", "check"}, Checks(p) \/ RollsBack(p) \/ RollBackFails(p)
      PROVE  issued' = issued
  BY <1>5 DEF Checks, RollsBack, RollBackFails
<1>6. CASE LoopTurns \/ Faults \/ QueueTakes \/ QueuePuts \/ QueueFails \/ SimpleSelects
             \/ LoopSleeps \/ LoopPredicts \/ LoopPredicted
  BY <1>6 DEF LoopTurns, Faults, QueueTakes, QueuePuts, QueueFails, SimpleSelects,
       LoopSleeps, LoopPredicts, LoopPredicted
<1>7. CASE Plays("loop", "predicting", "playing") \/ RegistersPlayed("loop", "playing", "predicting")
  BY <1>7 DEF Plays, RegistersPlayed
<1>8. CASE Stray
  BY <1>8, StrayQuiet
<1> QED
  BY <1>1, <1>2, <1>3, <1>4, <1>5, <1>6, <1>7, <1>8 DEF Next, Check, Loop

(* The content of a snapshot does not change while it is on disk.          *)
LEMMA DiskContents ==
  ASSUME StoreInv, [Next]_vars
  PROVE  \/ Keeps /\ \A f \in DOMAIN disk' : f \in DOMAIN disk /\ disk'[f] = disk[f]
         \/ /\ Writes /\ driver' = driver /\ kept' # NoFile /\ kept' \in DOMAIN disk'
            /\ disk'[kept'] = driver /\ kept' \notin DOMAIN disk
            /\ \A f \in DOMAIN disk' : f = kept' \/ (f \in DOMAIN disk /\ disk'[f] = disk[f])
<1>1. CASE Keeps
  BY <1>1 DEF Keeps
<1>2. CASE Writes
  BY <1>2, FirstFree DEF Writes
<1> QED
  BY <1>1, <1>2, StoreStep

(* What has happened to an item before it is in use.                       *)
LEMMA UsingSteps ==
  ASSUME StoreInv, [Next]_vars
  PROVE  /\ Using \subseteq Planned /\ Using' \subseteq Planned
         /\ ItemsOf(InUse) = {x.item : x \in Using}
         /\ ItemsOf(InUse)' = {x.item : x \in Using'}
         /\ FilesOf(InUse) = {x.file : x \in Using} \ {NoFile}
         /\ FilesOf(InUse)' = {x.file : x \in Using'} \ {NoFile}
         /\ \/ Shrinks \/ NewQueued \/ NewInHand
<1>1. PlanTypes' /\ (Shrinks \/ NewQueued \/ NewInHand)
  BY PlanStep DEF StoreInv, DataTypes
<1> QED
  BY <1>1, UseNow, UseNext DEF StoreInv, DataTypes

LEMMA CountInductive == StoreInv /\ CountInv /\ [Next]_vars => CountInv'
<1> SUFFICES ASSUME StoreInv, CountInv, [Next]_vars
             PROVE  CountInv'
  OBVIOUS
<1>1. /\ ItemsOf(InUse) \subseteq issued
      /\ \A f \in DOMAIN disk : disk[f].counted \subseteq issued
      /\ ~Forward => driver.counted \subseteq issued
  BY DEF CountInv
<1>2. issued \subseteq issued'
  BY IssuedGrows
<1>3. ItemsOf(InUse)' \subseteq issued'
  <2>1. CASE Shrinks
    BY <2>1, <1>1, <1>2, UsingSteps DEF Shrinks
  <2>2. CASE NewQueued
    <3>1. Using' = Using \cup {[item |-> selected, file |-> kept]} /\ selected \in issued'
      BY <2>2 DEF NewQueued, Comes, GenerateRegisters
    <3> QED
      BY <3>1, <1>1, <1>2, UsingSteps
  <2>3. CASE NewInHand
    <3>1. Using' = Using \cup {[item |-> selected', file |-> NoFile]} /\ selected' \in issued'
      BY <2>3 DEF NewInHand, Comes, SimpleSelects
    <3> QED
      BY <3>1, <1>1, <1>2, UsingSteps
  <2> QED
    BY <2>1, <2>2, <2>3, UsingSteps
<1>4. /\ driver \in Snapshots /\ selected \in Items \cup {None} /\ scheduled \in Seq(Planned)
      /\ desired \in Targets \cup {None}
  BY DEF StoreInv, DataTypes, PlanTypes, StoreTypes
<1>5. \A f \in DOMAIN disk' : disk'[f].counted \subseteq issued'
  <2>1. CASE Keeps
    BY <2>1, <1>1, <1>2 DEF Keeps
  <2>2. CASE Writes
    <3>1. ~Forward
      BY <2>2, DriverKinds, WritesQuiet
    <3> QED
      BY <2>2, <3>1, <1>1, <1>2, FirstFree DEF Writes
  <2> QED
    BY <2>1, <2>2, StoreStep
<1>6. ASSUME ~Forward' PROVE driver'.counted \subseteq issued'
  <2>1. CASE driver' = driver /\ ~Forward
    BY <2>1, <1>1, <1>2
  <2>2. CASE Selects /\ SameSide
    <3>1. driver'.counted = driver.counted
      BY <2>2, <1>4, SelectedTyped
    <3> QED
      BY <2>2, <3>1, <1>1, <1>2, <1>6 DEF SameSide
  <2>3. CASE GenerateRegisters /\ SameSide
    <3>1. ~Forward
      BY <2>3, <1>6 DEF SameSide
    <3>2. CASE selected = None
      BY <2>3, <3>1, <3>2, <1>1, <1>2 DEF GenerateRegisters
    <3>3. CASE selected # None
      <4>1. {selected} \in SUBSET Items /\ selected \in issued'
            /\ driver' = Registered(driver, {selected})
        BY <2>3, <3>3, <1>4 DEF GenerateRegisters
      <4>2. driver'.counted \in {driver.counted, driver.counted \cup {selected}}
        BY <4>1, <1>4, RegisteredFields
      <4> QED
        BY <4>1, <4>2, <3>1, <1>1, <1>2
    <3> QED
      BY <3>2, <3>3
  <2>4. ASSUME NEW p \in {"loop", "check"}, Checks(p), SameSide
        PROVE  driver'.counted \subseteq issued'
    <3>1. PICK done \in SUBSET DOMAIN scheduled :
                 driver' = Registered(driver, ItemsOf(Only(scheduled, done)))
      BY <2>4 DEF Checks
    <3>2. /\ Only(scheduled, done) \in Seq(Planned)
          /\ Range(Only(scheduled, done)) \subseteq Range(scheduled)
      BY <1>4, OnlyTypes
    <3>3. ItemsOf(Only(scheduled, done)) \in SUBSET Items
      BY <3>2, ItemsTyped
    <3>4. ItemsOf(Only(scheduled, done)) \subseteq ItemsOf(InUse)
      <4>1. Range(scheduled) \subseteq Using
        BY DEF Using
      <4> QED
        BY <3>2, <4>1, FilesAndItems, UsingSteps
    <3>5. driver'.counted \in {driver.counted, driver.counted \cup ItemsOf(Only(scheduled, done))}
      BY <3>1, <3>3, <1>4, RegisteredFields
    <3> QED
      BY <2>4, <3>4, <3>5, <1>1, <1>2, <1>6 DEF SameSide
  <2>5. ASSUME NEW p \in {"loop", "check"}, RollsBack(p), SameSide
        PROVE  driver'.counted \subseteq issued'
    <3>1. ~Forward
      BY <2>5, <1>6 DEF SameSide
    <3> QED
      BY <2>5, <3>1, <1>1, <1>2, RollbackFile DEF RollsBack
  <2>6. CASE TakenBack
    <3>1. kept \in DOMAIN disk
      BY <2>6, OpenOnDisk DEF TakenBack
    <3> QED
      BY <2>6, <3>1, <1>1, <1>2 DEF TakenBack
  <2>7. CASE Loads /\ SameSide
    <3>1. driver'.counted \in {{}, driver.counted}
      BY <2>7, LoadedFields
    <3> QED
      BY <2>7, <3>1, <1>1, <1>2, <1>6 DEF SameSide
  <2>8. CASE Stray /\ SameSide
    <3>1. driver'.counted = driver.counted
      BY <2>8, StrayFields DEF StoreInv
    <3> QED
      BY <2>8, <3>1, <1>1, <1>2, <1>6 DEF SameSide
  <2> QED
    BY <1>6, <2>1, <2>2, <2>3, <2>4, <2>5, <2>6, <2>7, <2>8, DriverKinds DEF SameSide, Writes
<1> QED
  BY <1>3, <1>5, <1>6 DEF CountInv

LEMMA CountInit == Init => CountInv
<1> SUFFICES ASSUME Init PROVE CountInv
  OBVIOUS
<1>1. /\ PlanTypes /\ queue = << >> /\ scheduled = << >> /\ failing = << >> /\ inHand = None
      /\ disk = << >> /\ driver.counted = {}
  BY StoreInit DEF Init, StoreInv, DataTypes
<1>2. Using = {}
  BY <1>1 DEF Using, Range
<1>3. ItemsOf(InUse) = {}
  BY <1>1, <1>2, UseNow
<1> QED
  BY <1>1, <1>3 DEF CountInv

(* Predicting and estimating leave nothing behind: out of them the driver  *)
(* counts only targets that were put on the queue, whatever raised, was    *)
(* loaded or was stopped in between (current_scheduler_state).             *)
THEOREM OnlyIssued == Spec => []OnlyIssuedCounted
<1>1. Init => StoreInv /\ CountInv
  BY StoreInit, CountInit
<1>2. StoreInv /\ CountInv /\ [Next]_vars => StoreInv' /\ CountInv'
  BY StoreInductive, CountInductive
<1>3. StoreInv /\ CountInv => OnlyIssuedCounted
  BY OpenOnDisk DEF CountInv, OnlyIssuedCounted, Playing
<1> QED
  BY <1>1, <1>2, <1>3, PTL DEF Spec

(***************************************************************************)
(* A load that is secured stays.                                           *)
(***************************************************************************)
(* Without a loop the plans are only dropped, and a new one starts without *)
(* a queue.                                                                *)
LEMMA DisabledDrops ==
  ASSUME StoreInv, [Next]_vars, ~enabled
  PROVE  Drops /\ (enabled' => queue' = << >>)
<1>1. At("loop", "off") /\ scheduled = << >>
  BY DEF StoreInv, ControlInv, LockInv
<1>2. Drops
  BY <1>1, PlanSteps DEF GenerateRegisters, Checks, QueueTakes, QueuePuts, SimpleSelects, At
<1>3. ASSUME enabled' PROVE queue' = << >>
  <2> USE DEF At, csc
  <2>1. CASE UNCHANGED vars
    BY <2>1, <1>3 DEF vars
  <2>2. ~Generation
    BY <1>1 DEF Generation, GenerateSaves, GenerateSelects, GenerateRegisters, GenerateFails,
         EstimateBegins, EstimateRegisters, EstimateEnds, Plays, RegistersPlayed
  <2>3. CASE Prediction
    BY <2>3, <1>3 DEF Prediction, PredictBegins, PredictEnds, Plays, RegistersPlayed
  <2>4. CASE Commands
    BY <2>4, <1>3 DEF Commands, Enables, Resumes, StopAsks, StopCleansUp, StopKills, LoadAsks,
         LoadFails, Loads
  <2>5. CASE Check
    BY <2>5, <1>3 DEF Check, Checks, RollsBack, RollBackFails
  <2>6. ~Loop
    BY <2>2, <1>1 DEF Loop, LoopTurns, Faults, Checks, RollsBack, RollBackFails, QueueTakes,
         QueuePuts, QueueFails, SimpleSelects, LoopSleeps, LoopPredicts, LoopPredicted, Plays,
         RegistersPlayed
  <2>7. CASE Stray
    BY <2>7, <1>3, StrayQuiet
  <2> QED
    BY <2>1, <2>3, <2>4, <2>5, <2>6, <2>7 DEF Next
<1> QED
  BY <1>2, <1>3

LEMMA RestorableStep ==
  ASSUME StoreInv, [Next]_vars
  PROVE  /\ Restorable \subseteq DOMAIN disk /\ Restorable' \subseteq DOMAIN disk'
         /\ \A f \in Restorable' : f \in Restorable \/ (Writes /\ f = kept')
<1>1. StoreInv' /\ PlanTypes /\ PlanTypes'
  BY StoreInductive DEF StoreInv, DataTypes
<1>2. /\ Referenced = FilesOf(queue) \cup FilesOf(scheduled) \cup FilesOf(failing)
                        \cup FilesOf(Held) \cup ({kept} \ {NoFile})
      /\ Referenced' = FilesOf(queue') \cup FilesOf(scheduled') \cup FilesOf(failing')
                         \cup FilesOf(Held') \cup ({kept'} \ {NoFile})
  BY <1>1, FilesNow, FilesNext DEF Referenced
<1>3. Restorable' = IF enabled' THEN Referenced'
                    ELSE FilesOf(scheduled') \cup FilesOf(failing') \cup FilesOf(Held')
                           \cup ({kept'} \ {NoFile})
  BY DEF Restorable, FilesOf
<1>4. Restorable \subseteq Referenced /\ Restorable' \subseteq Referenced'
  BY <1>2, <1>3 DEF Restorable
<1>5. Referenced \subseteq DOMAIN disk /\ Referenced' \subseteq DOMAIN disk'
  BY <1>1 DEF StoreInv, FilesInv
<1>6. ASSUME NEW f \in Restorable'
      PROVE  f \in Restorable \/ (Writes /\ f = kept')
  <2>1. CASE enabled
    <3>1. CASE Keeps
      BY <2>1, <3>1, <1>4 DEF Keeps, Restorable
    <3>2. CASE Writes
      <4>1. queue' = queue /\ scheduled' = scheduled /\ failing' = failing /\ Held' = Held
        BY <3>2 DEF Writes, plans, Held
      <4> QED
        BY <2>1, <3>2, <4>1, <1>2, <1>4 DEF Restorable
    <3> QED
      BY <3>1, <3>2, StoreStep
  <2>2. CASE ~enabled
    <3>1. FilesOf(<< >>) = {}
      BY DEF FilesOf
    <3>2. /\ scheduled' \in {scheduled, << >>} /\ failing' \in {failing, << >>}
          /\ Held' \in {Held, << >>} /\ (enabled' => queue' = << >>)
      BY <2>2, DisabledDrops DEF Drops, Held
    <3>3. kept' \in {kept, NoFile} \/ Writes
      BY StoreStep DEF Keeps
    <3>4. FilesOf(scheduled') \cup FilesOf(failing') \cup FilesOf(Held') \subseteq Restorable
      BY <2>2, <3>1, <3>2 DEF Restorable
    <3>5. f \in FilesOf(scheduled') \cup FilesOf(failing') \cup FilesOf(Held') \cup ({kept'} \ {NoFile})
      BY <1>2, <1>3, <3>1, <3>2
    <3>6. f \in {kept'} \ {NoFile} => f \in Restorable \/ (Writes /\ f = kept')
      BY <2>2, <3>3 DEF Restorable
    <3> QED
      BY <3>4, <3>5, <3>6
  <2> QED
    BY <2>1, <2>2
<1> QED
  BY <1>4, <1>5, <1>6

(* Where the load that the driver is from comes from.                      *)
LEMMA LoadedSteps ==
  ASSUME StoreInv, [Next]_vars, ~Loads
  PROVE  \/ driver'.loaded = driver.loaded
         \/ \E f \in Restorable : driver' = disk[f]
<1>1. /\ driver \in Snapshots /\ selected \in Items \cup {None} /\ scheduled \in Seq(Planned)
      /\ desired \in Targets \cup {None} /\ PlanTypes
  BY DEF StoreInv, DataTypes, PlanTypes, StoreTypes
<1>2. CASE Selects
  BY <1>1, <1>2, SelectedTyped
<1>3. CASE driver' = Registered(driver, {selected} \ {None})
  <2>1. {selected} \ {None} \in SUBSET Items
    BY <1>1
  <2> QED
    BY <2>1, <1>1, <1>3, RegisteredFields
<1>4. ASSUME NEW p \in {"loop", "check"}, Checks(p)
      PROVE  driver'.loaded = driver.loaded
  <2>1. PICK done \in SUBSET DOMAIN scheduled :
               driver' = Registered(driver, ItemsOf(Only(scheduled, done)))
    BY <1>4 DEF Checks
  <2>2. ItemsOf(Only(scheduled, done)) \in SUBSET Items
    BY <1>1, OnlyTypes, ItemsTyped
  <2> QED
    BY <2>1, <2>2, <1>1, RegisteredFields
<1>5. ASSUME NEW p \in {"loop", "check"}, RollsBack(p)
      PROVE  driver' = driver \/ \E f \in Restorable : driver' = disk[f]
  <2>1. FilesOf(failing) \subseteq Restorable
    BY <1>1, FilesNow DEF Restorable, Referenced
  <2>2. CASE Snapshotted = {}
    BY <1>5, <2>2 DEF RollsBack
  <2>3. CASE Snapshotted # {}
    BY <1>5, <2>1, <2>3, RollbackFile DEF RollsBack
  <2> QED
    BY <2>2, <2>3
<1>6. ASSUME driver' = disk[kept], Resetting \/ At("predict", "predicting")
      PROVE  \E f \in Restorable : driver' = disk[f]
  <2>1. kept # NoFile
    BY <1>6 DEF Resetting, At, StoreInv, ControlInv, OpenInv, Opened
  <2>2. kept \in Restorable
    BY <2>1 DEF Restorable, Referenced
  <2> QED
    BY <1>6, <2>2
<1>7. CASE Stray
  BY <1>7, StrayFields DEF StoreInv
<1> QED
  BY <1>2, <1>3, <1>4, <1>5, <1>6, <1>7, DriverSteps

LEMMA LoadInductive == StoreInv /\ LoadInv /\ [Next]_vars => LoadInv'
<1> SUFFICES ASSUME StoreInv, LoadInv, [Next]_vars
             PROVE  LoadInv'
  OBVIOUS
<1>1. /\ loads \in Nat /\ secured \in 0..loads
      /\ driver.loaded >= secured /\ driver.loaded <= loads
      /\ \A f \in Restorable : disk[f].loaded >= secured
      /\ \A f \in DOMAIN disk : disk[f].loaded <= loads
  BY Names DEF LoadInv, StoreInv, DataTypes, StoreTypes
<1>2. /\ driver \in Snapshots /\ \A f \in DOMAIN disk : disk[f] \in Snapshots
  BY DEF StoreInv, DataTypes, StoreTypes
<1>3. driver.loaded \in Int /\ \A f \in DOMAIN disk : disk[f].loaded \in Int
  BY <1>2 DEF Snapshots
<1>4. CASE Loads
  <2>1. /\ loads' = loads + 1 /\ driver'.loaded = loads'
    BY <1>4, LoadedFields
  <2>2. /\ UNCHANGED <<csc, plans, store>>
        /\ secured' = IF NothingUnderWay THEN loads' ELSE secured
    BY <1>4 DEF Loads
  <2>3. disk' = disk /\ Restorable' = Restorable
    BY <2>2 DEF csc, plans, store, Restorable, Referenced, FilesOf, InUse, Held
  <2>4. ASSUME NothingUnderWay PROVE Restorable = {}
    <3>1. /\ scheduled = << >> /\ failing = << >> /\ inHand = None /\ kept = NoFile
          /\ (enabled => queue = << >>)
      BY <2>4, Names DEF NothingUnderWay, StoreInv, ControlInv, LockInv, OpenInv, At, Idle
    <3>2. Held = << >> /\ FilesOf(<< >>) = {}
      BY <3>1 DEF Held, FilesOf
    <3>3. enabled => Referenced = {}
      BY <3>1, <3>2, FilesNow DEF Referenced, StoreInv, DataTypes
    <3> QED
      BY <3>1, <3>2, <3>3 DEF Restorable
  <2>5. Restorable \subseteq DOMAIN disk
    BY RestorableStep
  <2>6. secured' \in 0..loads' /\ driver'.loaded >= secured' /\ driver'.loaded <= loads'
    BY <2>1, <2>2, <1>1
  <2>7. \A f \in Restorable' : disk'[f].loaded >= secured'
    BY <2>2, <2>3, <2>4, <1>1
  <2>8. \A f \in DOMAIN disk' : disk'[f].loaded <= loads'
    BY <2>1, <2>3, <1>1, <1>3
  <2> QED
    BY <2>6, <2>7, <2>8 DEF LoadInv
<1>5. CASE ~Loads
  <2>1. loads' = loads /\ secured' = secured
    BY <1>5, LoadSteps DEF StoreInv, LoadAsks, LoadFails, ghosts
  <2>2. Restorable \subseteq DOMAIN disk /\ Restorable' \subseteq DOMAIN disk'
    BY RestorableStep
  <2>3. driver'.loaded >= secured /\ driver'.loaded <= loads
    BY <1>1, <1>5, <2>2, LoadedSteps
  <2>4. \A f \in Restorable' : disk'[f].loaded >= secured
    <3> TAKE f \in Restorable'
    <3>1. CASE f \in Restorable
      BY <3>1, <1>1, <2>2, DiskContents
    <3>2. CASE Writes /\ f = kept'
      BY <3>2, <1>1, FirstFree DEF Writes
    <3> QED
      BY <3>1, <3>2, RestorableStep
  <2>5. \A f \in DOMAIN disk' : disk'[f].loaded <= loads
    BY <1>1, DiskContents
  <2> QED
    BY <2>1, <2>3, <2>4, <2>5, <1>1 DEF LoadInv
<1> QED
  BY <1>4, <1>5

LEMMA LoadInit == Init => LoadInv
<1> SUFFICES ASSUME Init PROVE LoadInv
  OBVIOUS
<1>1. /\ secured = 0 /\ loads = 0 /\ driver.loaded = 0 /\ disk = << >> /\ DOMAIN disk = {}
  BY DEF Init
<1>2. Restorable \subseteq DOMAIN disk
  BY StoreInit, FilesNow DEF StoreInv, DataTypes, FilesInv, Restorable, Referenced
<1> QED
  BY <1>1, <1>2 DEF LoadInv

(* A load made while nothing was under way (secured) is still in force: no *)
(* rollback or prediction goes back to before it (do_load).  Loads that a  *)
(* resume or a prediction overtakes are not among them, and may be undone. *)
THEOREM LoadKept == Spec => []LoadStays
<1>1. Init => StoreInv /\ LoadInv
  BY StoreInit, LoadInit
<1>2. StoreInv /\ LoadInv /\ [Next]_vars => StoreInv' /\ LoadInv'
  BY StoreInductive, LoadInductive
<1>3. LoadInv => LoadStays
  BY DEF LoadInv, LoadStays
<1> QED
  BY <1>1, <1>2, <1>3, PTL DEF Spec

(***************************************************************************)
(* The snapshots of what is in use are in the order of its selection.      *)
(***************************************************************************)
LEMMA ModeSteps ==
  ASSUME ControlInv, [Next]_vars
  PROVE  /\ mode' = mode
         /\ pc'["loop"] \in Generating => pc["loop"] \in Generating \/ mode = "ADVANCE"
<1> USE DEF ControlInv, ControlTypes, Procs, Goto, Generating, fixed
<1>1. CASE UNCHANGED vars
  BY <1>1 DEF vars
<1>2. CASE Generation
  BY <1>2 DEF Generation, GenerateSaves, GenerateSelects, GenerateRegisters, GenerateFails,
       EstimateBegins, EstimateRegisters, EstimateEnds, LoopRaises, Plays, RegistersPlayed, At
<1>3. CASE Prediction
  BY <1>3 DEF Prediction, PredictBegins, PredictEnds, Plays, RegistersPlayed
<1>4. CASE Commands
  BY <1>4 DEF Commands, Enables, Resumes, StopAsks, StopCleansUp, StopKills, LoadAsks, LoadFails,
       Loads
<1>5. ASSUME NEW p \in {"loop", "check"}, Checks(p) \/ RollsBack(p) \/ RollBackFails(p)
      PROVE  mode' = mode /\ (pc'["loop"] \in Generating => pc["loop"] \in Generating)
  BY <1>5 DEF Checks, RollsBack, RollBackFails, LoopRaises, AfterCheck
<1>6. CASE LoopTurns \/ Faults \/ QueueTakes \/ QueuePuts \/ QueueFails \/ SimpleSelects
             \/ LoopSleeps \/ LoopPredicts \/ LoopPredicted
  BY <1>6 DEF LoopTurns, Faults, QueueTakes, QueuePuts, QueueFails, SimpleSelects,
       LoopSleeps, LoopPredicts, LoopPredicted, LoopRaises
<1>7. CASE Plays("loop", "predicting", "playing") \/ RegistersPlayed("loop", "playing", "predicting")
  BY <1>7 DEF Plays, RegistersPlayed
<1>8. CASE Stray
  BY <1>8, StrayQuiet
<1> QED
  BY <1>1, <1>2, <1>3, <1>4, <1>5, <1>6, <1>7, <1>8 DEF Next, Check, Loop

(* A relation that holds wherever another does.                            *)
LEMMA InOrderToo ==
  ASSUME NEW q, NEW s, NEW f, NEW h, NEW R, NEW Q, InOrder(R, q, s, f, h),
         \A x, y \in Range(q) \cup Range(s) \cup Range(f) \cup Range(h) :
           <<x, y>> \in R => <<x, y>> \in Q
  PROVE  InOrder(Q, q, s, f, h)
<1>1. /\ \A i \in DOMAIN q : q[i] \in Range(q)
      /\ \A i \in DOMAIN s : s[i] \in Range(s)
      /\ \A i \in DOMAIN f : f[i] \in Range(f)
      /\ \A i \in DOMAIN h : h[i] \in Range(h)
  BY DEF Range
<1>2. Ascending(Q, q) /\ Ascending(Q, s) /\ Ascending(Q, f)
  BY <1>1 DEF InOrder, Ascending
<1>3. /\ Precede(Q, s, h) /\ Precede(Q, s, q) /\ Precede(Q, h, q) /\ Precede(Q, f, q)
  BY <1>1 DEF InOrder, Precede
<1> QED
  BY <1>2, <1>3 DEF InOrder

(* A file that is still in use was in use before, or open.                 *)
LEMMA UsedFiles ==
  ASSUME StoreInv, [Next]_vars, NEW f \in FilesOf(InUse)'
  PROVE  /\ f \in DOMAIN disk /\ f \in DOMAIN disk' /\ disk'[f] = disk[f]
         /\ f \in FilesOf(InUse) \/ (NewQueued /\ f = kept)
<1>1. f \in FilesOf(InUse) \/ (NewQueued /\ f = kept)
  <2>1. CASE Shrinks
    BY <2>1, UsingSteps DEF Shrinks
  <2>2. CASE NewQueued
    <3>1. Using' = Using \cup {[item |-> selected, file |-> kept]}
      BY <2>2 DEF NewQueued, Comes
    <3> QED
      BY <2>2, <3>1, UsingSteps
  <2>3. CASE NewInHand
    <3>1. Using' = Using \cup {[item |-> selected', file |-> NoFile]}
      BY <2>3 DEF NewInHand, Comes
    <3> QED
      BY <3>1, UsingSteps
  <2> QED
    BY <2>1, <2>2, <2>3, UsingSteps
<1>2. f \in Referenced' /\ StoreInv' /\ f # NoFile
  BY StoreInductive, UsingSteps DEF Referenced
<1>3. f \in DOMAIN disk'
  BY <1>2 DEF StoreInv, FilesInv
<1>4. f \in Referenced
  BY <1>1, <1>2 DEF Referenced
<1>5. f \in DOMAIN disk
  BY <1>4 DEF StoreInv, FilesInv
<1> QED
  BY <1>1, <1>3, <1>5, DiskContents

(* What the driver is, or comes back to: it changes only while nobody      *)
(* plays the driver forward.                                               *)
LEMMA BaseSteps ==
  ASSUME StoreInv, [Next]_vars
  PROVE  \/ Base' = Base
         \/ /\ ~Forward /\ ~Forward' /\ Base = driver /\ Base' = driver'
            /\ \/ Selects \/ GenerateRegisters \/ Loads \/ Stray
               \/ \E p \in {"loop", "check"} : Checks(p) \/ RollsBack(p)
<1>1. StoreInv'
  BY StoreInductive
<1>2. Base = (IF Forward THEN disk[kept] ELSE driver)
      /\ Base' = (IF Forward' THEN disk'[kept'] ELSE driver')
  BY DEF Base
<1>3. CASE Writes
  <2>1. ~Forward /\ driver' = driver /\ disk'[kept'] = driver
    BY <1>3, WritesQuiet, FirstFree DEF Writes
  <2> QED
    BY <2>1, <1>2
<1>4. CASE Keeps /\ Forward /\ Forward'
  <2>1. kept' # NoFile /\ kept' \in DOMAIN disk'
    <3>1. Forward' => kept' # NoFile
      BY <1>1 DEF StoreInv, ControlInv, OpenInv, Opened, Forward, Resetting, At
    <3>2. Referenced' \subseteq DOMAIN disk'
      BY <1>1 DEF StoreInv, FilesInv
    <3> QED
      BY <1>4, <3>1, <3>2 DEF Referenced
  <2>2. kept' = kept /\ disk'[kept] = disk[kept]
    BY <1>4, <2>1 DEF Keeps
  <2> QED
    BY <1>2, <1>4, <2>2
<1>5. CASE TakenBack
  BY <1>2, <1>5 DEF TakenBack
<1>6. CASE ~Forward /\ ~Forward'
  <2>1. \/ driver' = driver
        \/ Selects \/ GenerateRegisters \/ Loads \/ Stray
        \/ \E p \in {"loop", "check"} : Checks(p) \/ RollsBack(p)
    BY <1>6, DriverKinds DEF Writes, TakenBack
  <2> QED
    BY <1>2, <1>6, <2>1
<1>7. (Forward <=> Forward') \/ TakenBack \/ Writes
  BY DriverKinds DEF SameSide
<1> QED
  BY <1>3, <1>4, <1>5, <1>6, <1>7, StoreStep

(* What a rollback leaves: the snapshot that is open.                      *)
LEMMA RolledBack ==
  ASSUME StoreInv, [Next]_vars, NEW p \in {"loop", "check"}, RollsBack(p)
  PROVE  /\ FilesOf(InUse)' = {} /\ kept' = kept /\ failing # << >>
         /\ ~Forward => kept = NoFile
<1>1. /\ inHand = None /\ failing # << >> /\ (~Forward => kept = NoFile)
  BY DEF StoreInv, ControlInv, ControlTypes, LockInv, OpenInv, RollsBack, At, Idle, Opened,
       Forward, Resetting
<1>2. /\ queue' = << >> /\ scheduled' = << >> /\ failing' = << >> /\ inHand' = None
      /\ kept' = kept
  BY <1>1 DEF RollsBack
<1>3. Using' = {}
  BY <1>2 DEF Using, Range
<1> QED
  BY <1>1, <1>2, <1>3, UsingSteps

LEMMA OlderLemma ==
  /\ \A d : Older(d, d)
  /\ \A d, e, g : Older(d, e) /\ e.counted \subseteq g.counted /\ e.loaded = g.loaded => Older(d, g)
BY DEF Older

LEMMA BaseLater ==
  ASSUME StoreInv, LoadInv, OrderInv, [Next]_vars
  PROVE  \A f \in Referenced' : Older(disk'[f], Base')
<1>1. \A f \in Referenced : Older(disk[f], Base) /\ f \in DOMAIN disk
  BY DEF OrderInv, StoreInv, FilesInv
<1>2. /\ driver \in Snapshots /\ selected \in Items \cup {None} /\ scheduled \in Seq(Planned)
      /\ desired \in Targets \cup {None}
      /\ \A f \in DOMAIN disk : disk[f] \in Snapshots
      /\ loads \in Nat
  BY Names DEF StoreInv, DataTypes, PlanTypes, StoreTypes
<1>3. CASE Writes
  <2>1. Base' = driver /\ Base = driver
    <3>1. ~Forward /\ driver' = driver /\ disk'[kept'] = driver
      BY <1>3, WritesQuiet, FirstFree DEF Writes
    <3> QED
      BY <3>1 DEF Base
  <2>2. Using' = Using
    BY <1>3 DEF Writes, plans, Using, Range
  <2>3. Referenced' \subseteq Referenced \cup {kept'}
    BY <2>2, UsingSteps DEF Referenced
  <2> QED
    BY <1>1, <1>3, <2>1, <2>3, FirstFree, OlderLemma DEF Writes
<1>4. CASE Keeps
  <2>1. \A f \in Referenced' : f \in Referenced /\ disk'[f] = disk[f]
    BY <1>4 DEF Keeps
  <2>2. CASE Base' = Base
    BY <2>1, <2>2, <1>1
  <2>3. ASSUME Base = driver, Base' = driver', driver'.loaded = driver.loaded,
               driver.counted \subseteq driver'.counted
        PROVE  \A f \in Referenced' : Older(disk'[f], Base')
    BY <2>1, <2>3, <1>1, OlderLemma
  <2>4. CASE Selects /\ Base = driver /\ Base' = driver'
    BY <2>3, <2>4, <1>2, SelectedTyped
  <2>5. CASE GenerateRegisters /\ Base = driver /\ Base' = driver'
    <3>1. CASE selected = None
      BY <2>3, <2>5, <3>1 DEF GenerateRegisters
    <3>2. CASE selected # None
      <4>1. {selected} \in SUBSET Items /\ driver' = Registered(driver, {selected})
        BY <2>5, <3>2, <1>2 DEF GenerateRegisters
      <4> QED
        BY <2>3, <2>5, <4>1, <1>2, RegisteredFields
    <3> QED
      BY <3>1, <3>2
  <2>6. CASE Loads /\ Base = driver /\ Base' = driver'
    <3>1. \A f \in Referenced' : disk'[f].loaded # driver'.loaded
      <4>1. driver'.loaded = loads + 1 /\ \A f \in DOMAIN disk : disk[f].loaded <= loads
        BY <2>6, LoadedFields DEF LoadInv
      <4>2. \A f \in DOMAIN disk : disk[f].loaded \in Int
        BY <1>2 DEF Snapshots
      <4> QED
        BY <4>1, <4>2, <2>1, <1>1, <1>2
    <3> QED
      BY <2>6, <3>1 DEF Older
  <2>7. ASSUME NEW p \in {"loop", "check"}, Checks(p), Base = driver, Base' = driver'
        PROVE  \A f \in Referenced' : Older(disk'[f], Base')
    <3>1. PICK done \in SUBSET DOMAIN scheduled :
                 driver' = Registered(driver, ItemsOf(Only(scheduled, done)))
      BY <2>7 DEF Checks
    <3>2. ItemsOf(Only(scheduled, done)) \in SUBSET Items
      BY <1>2, OnlyTypes, ItemsTyped
    <3> QED
      BY <2>3, <2>7, <3>1, <3>2, <1>2, RegisteredFields
  <2>8. ASSUME NEW p \in {"loop", "check"}, RollsBack(p), ~Forward
        PROVE  Referenced' = {}
    BY <2>8, RolledBack DEF Referenced
  <2>9. CASE Stray /\ Base = driver /\ Base' = driver'
    BY <2>3, <2>9, StrayFields DEF StoreInv
  <2> QED
    BY <2>2, <2>4, <2>5, <2>6, <2>7, <2>8, <2>9, BaseSteps
<1> QED
  BY <1>3, <1>4, StoreStep

LEMMA OrderKept ==
  ASSUME StoreInv, OrderInv, [Next]_vars, mode # "SIMPLE"
  PROVE  /\ \A x \in Using' : x.file # NoFile
         /\ InOrder(OlderFile, queue, scheduled, failing, Held)'
<1>1. /\ \A x \in Using : x.file # NoFile
      /\ InOrder(OlderFile, queue, scheduled, failing, Held)
      /\ kept # NoFile => \A f \in FilesOf(InUse) : Older(disk[f], disk[kept])
  BY DEF OrderInv
<1>2. ~NewInHand
  BY DEF NewInHand, SimpleSelects
<1>3. NewQueued => /\ kept # NoFile /\ At("loop", "registering")
                   /\ [item |-> selected, file |-> kept].file = kept
  BY DEF NewQueued, GenerateRegisters, At, StoreInv, ControlInv, OpenInv, Opened
<1>4. \A x \in Using' : x.file # NoFile
  <2>1. CASE Shrinks
    BY <2>1, <1>1 DEF Shrinks
  <2>2. CASE NewQueued
    BY <2>2, <1>1, <1>3 DEF NewQueued, Comes
  <2> QED
    BY <2>1, <2>2, <1>2, UsingSteps
<1>5. InOrder(OlderFile, queue', scheduled', failing', Held')
  <2>1. CASE Shrinks
    BY <2>1, <1>1 DEF Shrinks
  <2>2. CASE NewQueued
    <3> DEFINE x == [item |-> selected, file |-> kept]
    <3>1. Comes(x) /\ x \in Planned /\ x.file = kept
      BY <2>2, <1>3 DEF NewQueued, Comes
    <3>2. \A y \in Using : y \in Planned /\ Older(disk[y.file], disk[kept])
      BY <2>2, <1>1, <1>3, UsingSteps
    <3> HIDE DEF x
    <3>3. \A y \in Using : <<y, x>> \in OlderFile
      BY <3>1, <3>2 DEF OlderFile
    <3> QED
      BY <2>2, <3>1, <3>3, <1>1, <1>3 DEF Comes
  <2> QED
    BY <2>1, <2>2, <1>2, UsingSteps
<1>6. Range(queue') \cup Range(scheduled') \cup Range(failing') \cup Range(Held') = Using'
  <2>1. PlanTypes'
    BY StoreInductive DEF StoreInv, DataTypes
  <2>2. Range(Held') = IF inHand' = None THEN {} ELSE {inHand'}
    BY <2>1, UseNext
  <2> QED
    BY <2>2 DEF Using, Range
<1>7. \A x, y \in Using' : <<x, y>> \in OlderFile => <<x, y>> \in OlderFile'
  <2> SUFFICES ASSUME NEW x \in Using', NEW y \in Using', <<x, y>> \in OlderFile
               PROVE  <<x, y>> \in OlderFile'
    OBVIOUS
  <2>1. x \in Planned /\ y \in Planned /\ Older(disk[x.file], disk[y.file])
    BY DEF OlderFile
  <2>2. x.file \in FilesOf(InUse)' /\ y.file \in FilesOf(InUse)'
    BY <1>4, UsingSteps
  <2>3. disk'[x.file] = disk[x.file] /\ disk'[y.file] = disk[y.file]
    BY <2>2, UsedFiles
  <2> QED
    BY <2>1, <2>3 DEF OlderFile, Older
<1>8. InOrder(OlderFile', queue', scheduled', failing', Held')
  BY <1>5, <1>6, <1>7, InOrderToo
<1> QED
  BY <1>4, <1>8 DEF InOrder, Ascending, Precede, Held

LEMMA OrderInductive == StoreInv /\ LoadInv /\ OrderInv /\ [Next]_vars => OrderInv'
<1> SUFFICES ASSUME StoreInv, LoadInv, OrderInv, [Next]_vars
             PROVE  OrderInv'
  OBVIOUS
<1>1. /\ mode' = mode
      /\ pc'["loop"] \in Generating => pc["loop"] \in Generating \/ mode = "ADVANCE"
  BY ModeSteps DEF StoreInv
<1>2. ASSUME mode = "SIMPLE" PROVE pc'["loop"] \notin Generating /\ FilesOf(InUse)' = {}
  <2>1. pc["loop"] \notin Generating /\ FilesOf(InUse) = {}
    BY <1>2 DEF OrderInv
  <2>2. ~NewQueued
    BY <2>1 DEF NewQueued, GenerateRegisters, At, Generating
  <2>3. FilesOf(InUse)' \subseteq FilesOf(InUse)
    BY <2>2, UsedFiles
  <2> QED
    BY <2>1, <2>3, <1>1, <1>2
<1>3. \A f \in Referenced' : Older(disk'[f], Base')
  BY BaseLater
<1>4. ASSUME kept' # NoFile, NEW f \in FilesOf(InUse)'
      PROVE  Older(disk'[f], disk'[kept'])
  <2>1. ~NewQueued
    BY <1>4 DEF NewQueued, GenerateRegisters
  <2>2. f \in FilesOf(InUse) /\ disk'[f] = disk[f]
    BY <2>1, <1>4, UsedFiles
  <2>3. CASE Keeps
    <3>1. kept' = kept /\ kept' \in DOMAIN disk'
      BY <2>3, <1>4 DEF Keeps, Referenced
    <3>2. disk'[kept'] = disk[kept]
      BY <2>3, <3>1 DEF Keeps
    <3> QED
      BY <2>2, <3>1, <3>2, <1>4 DEF OrderInv
  <2>4. CASE Writes
    <3>1. ~Forward /\ disk'[kept'] = driver
      BY <2>4, WritesQuiet, FirstFree DEF Writes
    <3>2. Base = driver /\ f \in Referenced
      BY <3>1, <2>2 DEF Base, Referenced
    <3> QED
      BY <3>1, <3>2, <2>2 DEF OrderInv
  <2> QED
    BY <2>3, <2>4, StoreStep
<1>5. mode # "SIMPLE" => /\ \A x \in Using' : x.file # NoFile
                         /\ InOrder(OlderFile, queue, scheduled, failing, Held)'
  BY OrderKept
<1> QED
  BY <1>1, <1>2, <1>3, <1>4, <1>5 DEF OrderInv

LEMMA OrderInit == Init => OrderInv
<1> SUFFICES ASSUME Init PROVE OrderInv
  OBVIOUS
<1>1. StoreInv
  BY StoreInit
<1>2. /\ queue = << >> /\ scheduled = << >> /\ failing = << >> /\ inHand = None /\ Held = << >>
      /\ kept = NoFile /\ pc["loop"] = "off"
  BY DEF Init, Held, Procs
<1>3. Using = {}
  BY <1>2 DEF Using, Range
<1>4. FilesOf(InUse) = {}
  BY <1>1, <1>3, UseNow DEF StoreInv, DataTypes
<1>5. InOrder(OlderFile, queue, scheduled, failing, Held)
  BY <1>2 DEF InOrder, Ascending, Precede
<1> QED
  BY <1>2, <1>3, <1>4, <1>5 DEF OrderInv, Referenced, Generating

(* The driver goes back as far as the first of the targets that failed or  *)
(* are dropped from the queue: it counts nothing that one of them was      *)
(* selected without, if no load came in between (step 6 of the advance     *)
(* mode in the developer guide).                                           *)
THEOREM FailedAreForgotten == Spec => FailedForgotten
<1> DEFINE Forgets ==
      \A p \in {"loop", "check"} :
        RollsBack(p) =>
          \A f \in FilesOf(queue \o failing) :
            disk[f].loaded = driver'.loaded => driver'.counted \subseteq disk[f].counted
<1>1. Init => StoreInv /\ LoadInv /\ OrderInv
  BY StoreInit, LoadInit, OrderInit
<1>2. StoreInv /\ LoadInv /\ OrderInv /\ [Next]_vars => StoreInv' /\ LoadInv' /\ OrderInv'
  BY StoreInductive, LoadInductive, OrderInductive
<1>3. ASSUME StoreInv, OrderInv, [Next]_vars
      PROVE  [Forgets]_vars
  <2> SUFFICES ASSUME NEW p \in {"loop", "check"}, RollsBack(p),
                      NEW f \in FilesOf(queue \o failing)
               PROVE  Older(driver', disk[f])
    BY DEF Older
  <2>1. /\ queue \in Seq(Planned) /\ failing \in Seq(Planned) /\ failing # << >>
    BY <1>3, RolledBack DEF StoreInv, DataTypes, PlanTypes
  <2>2. FilesOf(queue \o failing) = FilesOf(queue) \cup FilesOf(failing)
    BY <2>1, FilesTogether
  <2>3. FilesOf(InUse) = {x.file : x \in Using} \ {NoFile} /\ Using \subseteq Planned
    BY <1>3, UsingSteps
  <2>4. FilesOf(queue) \cup FilesOf(failing) \subseteq FilesOf(InUse)
    BY <1>3, FilesNow DEF StoreInv, DataTypes
  <2>5. mode # "SIMPLE"
    BY <1>3, <2>2, <2>4 DEF OrderInv
  <2>6. /\ \A x \in Using : x.file # NoFile
        /\ Ascending(OlderFile, failing) /\ Precede(OlderFile, failing, queue)
    BY <1>3, <2>5 DEF OrderInv, InOrder
  <2>7. 1 \in DOMAIN failing /\ \A i \in DOMAIN failing : 1 <= i /\ i \in Int
    BY <2>1, EmptySeq, LenProperties
  <2>8. \A i \in DOMAIN failing : failing[i] \in Using
    BY DEF Using, Range
  <2>9. Snapshotted = DOMAIN failing
    BY <2>6, <2>8 DEF Snapshotted
  <2>10. Min(Snapshotted) = 1
    <3>1. Min(Snapshotted) \in DOMAIN failing /\ Min(Snapshotted) <= 1
      BY <1>3, <2>6, <2>7, <2>8, <2>9, RollbackFile
    <3> QED
      BY <3>1, <2>7
  <2>11. driver' = disk[failing[1].file]
    BY <2>7, <2>9, <2>10 DEF RollsBack
  <2>12. CASE f \in FilesOf(failing)
    <3>1. PICK i \in DOMAIN failing : f = failing[i].file
      BY <2>12 DEF FilesOf
    <3>2. CASE i = 1
      BY <2>11, <3>1, <3>2, OlderLemma
    <3>3. CASE i # 1
      <4>1. 1 < i
        BY <2>7, <3>1, <3>3
      <4>2. <<failing[1], failing[i]>> \in OlderFile
        BY <4>1, <2>6, <2>7 DEF Ascending
      <4> QED
        BY <4>2, <2>11, <3>1 DEF OlderFile
    <3> QED
      BY <3>2, <3>3
  <2>13. CASE f \in FilesOf(queue)
    <3>1. PICK i \in DOMAIN queue : f = queue[i].file
      BY <2>13 DEF FilesOf
    <3>2. <<failing[1], queue[i]>> \in OlderFile
      BY <2>6, <2>7 DEF Precede
    <3> QED
      BY <3>1, <3>2, <2>11 DEF OlderFile
  <2> QED
    BY <2>2, <2>12, <2>13
<1>4. Spec => [][Forgets]_vars
  BY <1>1, <1>2, <1>3, PTL DEF Spec
<1>5. FailedForgotten <=> [][Forgets]_vars
  BY DEF FailedForgotten
<1> QED
  BY <1>4, <1>5

(***************************************************************************)
(* A target under way is not selected once more.                           *)
(***************************************************************************)
LEMMA RegisteringSteps ==
  ASSUME StoreInv, [Next]_vars, At("loop", "registering")'
  PROVE  \/ GenerateSelects
         \/ /\ At("loop", "registering") /\ UNCHANGED <<selected, plans>>
            /\ Stray \/ (desired' = desired /\ (driver' = driver \/ Loads))
<1> USE DEF StoreInv, ControlInv, ControlTypes, LockInv, Idle, Procs, Goto, At
<1>1. CASE UNCHANGED vars
  BY <1>1 DEF vars
<1>2. CASE Generation
  BY <1>2 DEF Generation, GenerateSaves, GenerateRegisters, AfterGenerating, GenerateFails,
       EstimateBegins, EstimateRegisters, EstimateEnds, LoopRaises, Plays, RegistersPlayed
<1>3. ~Prediction
  BY DEF Prediction, PredictBegins, PredictEnds, Plays, RegistersPlayed
<1>4. CASE Commands
  <2>1. ~Enables /\ ~StopKills /\ ~StopCleansUp
    BY Names DEF Enables, StopCleansUp, StopKills
  <2>2. ~Resumes \/ UNCHANGED <<selected, desired, plans, driver, pc>>
    BY DEF Resumes
  <2>3. CASE StopAsks \/ LoadAsks \/ LoadFails
    BY <2>3 DEF StopAsks, LoadAsks, LoadFails
  <2>4. CASE Loads
    <3>1. pc'["loop"] = pc["loop"] /\ UNCHANGED <<selected, desired, plans>>
      BY <2>4 DEF Loads
    <3> QED
      BY <2>4, <3>1
  <2> QED
    BY <1>4, <2>1, <2>2, <2>3, <2>4 DEF Commands
<1>5. ASSUME NEW p \in {"loop", "check"}
      PROVE  ~Checks(p) /\ ~RollsBack(p) /\ ~RollBackFails(p)
  BY Names DEF Checks, RollsBack, RollBackFails, LoopRaises, AfterCheck
<1>6. ~(LoopTurns \/ Faults \/ QueueTakes \/ QueuePuts \/ QueueFails \/ SimpleSelects
          \/ LoopSleeps \/ LoopPredicts \/ LoopPredicted)
  BY DEF LoopTurns, Faults, QueueTakes, QueuePuts, QueueFails, SimpleSelects,
       LoopSleeps, LoopPredicts, LoopPredicted, LoopRaises
<1>7. ~(Plays("loop", "predicting", "playing") \/ RegistersPlayed("loop", "playing", "predicting"))
  BY DEF Plays, RegistersPlayed
<1>8. CASE Stray
  BY <1>8, StrayQuiet
<1> QED
  BY <1>1, <1>2, <1>3, <1>4, <1>5, <1>6, <1>7, <1>8 DEF Next, Check, Loop

LEMMA CommittedUsing ==
  ASSUME StoreInv, [Next]_vars
  PROVE  /\ Committed = {x.item.of : x \in {y \in Using : ~y.item.cwfs}}
         /\ Committed' = {x.item.of : x \in {y \in Using' : ~y.item.cwfs}}
<1>1. /\ ItemsOf(InUse) = {x.item : x \in Using}
      /\ ItemsOf(InUse)' = {x.item : x \in Using'}
  BY UsingSteps
<1>2. Committed = {x.item.of : x \in {y \in Using : ~y.item.cwfs}}
  BY <1>1 DEF Committed
<1>3. Committed' = {x.item.of : x \in {y \in Using' : ~y.item.cwfs}}
  BY <1>1 DEF Committed
<1> QED
  BY <1>2, <1>3

(* What comes into use was offered.                                        *)
LEMMA CommittedSteps ==
  ASSUME StoreInv, WaitingInv, [Next]_vars
  PROVE  /\ Apart(ShareTarget, queue', scheduled', failing', Held')
         /\ \A t \in Committed' : t \notin Committed =>
              \/ NewQueued /\ t \in InSelected
              \/ /\ NewInHand /\ t \notin driver'.waiting /\ t # desired'
<1>1. /\ driver \in Snapshots /\ selected \in Items \cup {None}
      /\ desired \in Targets \cup {None}
  BY DEF StoreInv, DataTypes, PlanTypes, StoreTypes
<1>2. /\ Apart(ShareTarget, queue, scheduled, failing, Held)
      /\ driver.waiting \cap Committed = {} /\ desired \notin Committed
  BY DEF WaitingInv
<1>3. ASSUME NEW x, Comes(x), ~x.item.cwfs => x.item.of \notin Committed
      PROVE  Apart(ShareTarget, queue', scheduled', failing', Held')
  <2>1. \A y \in Using : <<x, y>> \notin ShareTarget /\ <<y, x>> \notin ShareTarget
    BY <1>3, CommittedUsing DEF ShareTarget
  <2> QED
    BY <2>1, <1>2, <1>3 DEF Comes
<1>4. CASE Shrinks
  BY <1>2, <1>4, CommittedUsing DEF Shrinks
<1>5. CASE NewQueued
  <2> DEFINE x == [item |-> selected, file |-> kept]
  <2>1. /\ Comes(x) /\ x.item = selected /\ selected # None /\ At("loop", "registering")
        /\ Using' = Using \cup {x}
    BY <1>5 DEF NewQueued, GenerateRegisters, Comes
  <2> HIDE DEF x
  <2>2. ~x.item.cwfs => x.item.of \in InSelected /\ x.item.of \notin Committed
    BY <2>1 DEF InSelected, WaitingInv
  <2>3. \A t \in Committed' : t \notin Committed => t \in InSelected
    BY <2>1, <2>2, CommittedUsing
  <2> QED
    BY <1>3, <1>5, <2>1, <2>2, <2>3
<1>6. CASE NewInHand
  <2> DEFINE x == [item |-> selected', file |-> NoFile]
  <2>1. /\ Comes(x) /\ x.item = selected' /\ selected' # None /\ Selects
        /\ Using' = Using \cup {x}
    BY <1>6 DEF NewInHand, SimpleSelects, Comes
  <2> HIDE DEF x
  <2>2. PICK t \in Targets : /\ (selected' = Observation(t) /\ desired' = None) \/ selected' = Cwfs(t)
                             /\ t \in driver.waiting \cup ({desired} \ {None})
                             /\ t \notin driver'.waiting
    BY <2>1, <1>1, SelectedTyped
  <2>3. ~x.item.cwfs => x.item.of = t /\ desired' = None
    BY <2>1, <2>2, ItemFields
  <2>4. t \notin Committed /\ t # None
    BY <2>2, <1>2, Names
  <2>5. \A u \in Committed' : u \notin Committed => u = t /\ desired' = None
    BY <2>1, <2>3, CommittedUsing
  <2> QED
    BY <1>3, <1>6, <2>1, <2>2, <2>3, <2>4, <2>5
<1> QED
  BY <1>4, <1>5, <1>6, UsingSteps

LEMMA WaitingSteps ==
  ASSUME StoreInv, [Next]_vars
  PROVE  \/ driver'.waiting = driver.waiting /\ desired' = desired
         \/ Selects /\ driver'.waiting \cup ({desired'} \ {None})
                         \subseteq driver.waiting \cup ({desired} \ {None})
         \/ Using' = {} /\ desired' = desired
         \/ driver' = disk[kept] /\ kept # NoFile /\ desired' = desired
         \/ Loads /\ desired' = desired /\ driver'.waiting \subseteq driver.waiting \cup (Targets \ Spent)
         \/ /\ driver'.waiting \subseteq driver.waiting \cup (Targets \ Taken)
            /\ desired' \in {desired, None} \cup (Targets \ Taken)
<1>1. /\ driver \in Snapshots /\ selected \in Items \cup {None} /\ scheduled \in Seq(Planned)
      /\ desired \in Targets \cup {None}
  BY DEF StoreInv, DataTypes, PlanTypes, StoreTypes
<1>2. CASE Selects
  BY <1>1, <1>2, SelectedTyped
<1>3. ASSUME desired' = desired, driver' = Registered(driver, {selected} \ {None})
      PROVE  driver'.waiting = driver.waiting
  <2>1. {selected} \ {None} \in SUBSET Items
    BY <1>1
  <2> QED
    BY <2>1, <1>1, <1>3, RegisteredFields
<1>4. ASSUME NEW p \in {"loop", "check"}, Checks(p)
      PROVE  driver'.waiting = driver.waiting
  <2>1. PICK done \in SUBSET DOMAIN scheduled :
               driver' = Registered(driver, ItemsOf(Only(scheduled, done)))
    BY <1>4 DEF Checks
  <2>2. ItemsOf(Only(scheduled, done)) \in SUBSET Items
    BY <1>1, OnlyTypes, ItemsTyped
  <2> QED
    BY <2>1, <2>2, <1>1, RegisteredFields
<1>5. ASSUME NEW p \in {"loop", "check"}, RollsBack(p)
      PROVE  Using' = {}
  <2>1. /\ inHand = None
    BY <1>5 DEF StoreInv, ControlInv, ControlTypes, LockInv, OpenInv, RollsBack, At, Idle
  <2> QED
    BY <2>1, <1>5 DEF RollsBack, Using, Range
<1>6. ASSUME driver' = disk[kept], Resetting \/ At("predict", "predicting")
      PROVE  kept # NoFile
  BY <1>6 DEF Resetting, At, StoreInv, ControlInv, OpenInv, Opened
<1>7. CASE Loads
  BY <1>7, LoadedFields DEF Loads
<1>8. CASE Stray
  BY <1>8, StrayFields DEF StoreInv
<1> QED
  BY <1>2, <1>3, <1>4, <1>5, <1>6, <1>7, <1>8, DriverSteps, SelectionSteps

LEMMA WaitingInductive == StoreInv /\ CountInv /\ WaitingInv /\ [Next]_vars => WaitingInv'
<1> SUFFICES ASSUME StoreInv, CountInv, WaitingInv, [Next]_vars
             PROVE  WaitingInv'
  OBVIOUS
<1>1. /\ driver \in Snapshots /\ selected \in Items \cup {None}
      /\ desired \in Targets \cup {None} /\ driver.waiting \in SUBSET Targets
  BY SnapshotFields DEF StoreInv, DataTypes, PlanTypes, StoreTypes
<1>2. /\ driver.waiting \cap Committed = {} /\ desired \notin Committed
      /\ kept # NoFile => disk[kept].waiting \cap Committed = {}
      /\ At("loop", "registering") =>
           InSelected \cap (Committed \cup driver.waiting \cup {desired}) = {}
  BY DEF WaitingInv
<1>3. None \notin Committed'
  <2>1. \A x \in Using' : x.item.of \in Targets
    BY UsingSteps, ItemFields
  <2> QED
    BY <2>1, CommittedUsing, Names
<1>4. Apart(ShareTarget, queue', scheduled', failing', Held')
  BY CommittedSteps
<1>5. Committed \cup InSelected \subseteq Spent
  <2>1. \A t \in Committed : \E i \in issued : t = i.of
    BY DEF Committed, CountInv
  <2> QED
    BY <2>1 DEF Spent, InSelected
<1>12. Committed \cup InSelected \subseteq Taken
  BY DEF Committed, InSelected, Taken
<1>6. NewQueued => At("loop", "registering") /\ desired' = desired /\ selected # None
                    /\ driver' = Registered(driver, {selected}) /\ kept' = NoFile
  BY DEF NewQueued, GenerateRegisters
<1>7. NewInHand => Selects /\ kept' = kept /\ kept = NoFile
  BY DEF NewInHand, SimpleSelects, store, StoreInv, ControlInv, ControlTypes, LockInv, OpenInv,
       At, Idle, Opened
<1>8. driver'.waiting \cap Committed' = {}
  <2> SUFFICES ASSUME NEW t \in Committed', t \in driver'.waiting
               PROVE  FALSE
    OBVIOUS
  <2>1. t \in Committed \/ (NewQueued /\ t \in InSelected)
    BY CommittedSteps
  <2>2. CASE NewQueued
    <3>1. driver'.waiting = driver.waiting
      <4>1. {selected} \in SUBSET Items
        BY <2>2, <1>1, <1>6
      <4> QED
        BY <2>2, <4>1, <1>1, <1>6, RegisteredFields
    <3> QED
      BY <2>1, <2>2, <3>1, <1>2, <1>6
  <2>3. CASE t \in Committed
    <3>1. CASE driver'.waiting = driver.waiting
      BY <3>1, <2>3, <1>2
    <3>2. CASE driver'.waiting \cup ({desired'} \ {None})
                 \subseteq driver.waiting \cup ({desired} \ {None})
      BY <3>2, <2>3, <1>2
    <3>3. CASE Using' = {}
      BY <3>3, CommittedUsing
    <3>4. CASE driver' = disk[kept] /\ kept # NoFile
      BY <3>4, <2>3, <1>2
    <3>5. CASE driver'.waiting \subseteq driver.waiting \cup (Targets \ Spent)
      BY <3>5, <2>3, <1>2, <1>5
    <3>6. CASE driver'.waiting \subseteq driver.waiting \cup (Targets \ Taken)
      BY <3>6, <2>3, <1>2, <1>12
    <3> QED
      BY <3>1, <3>2, <3>3, <3>4, <3>5, <3>6, WaitingSteps
  <2> QED
    BY <2>1, <2>2, <2>3
<1>9. desired' \notin Committed'
  <2> SUFFICES ASSUME desired' \in Committed'
               PROVE  FALSE
    OBVIOUS
  <2>1. desired' # None
    BY <1>3
  <2>2. desired' \in Committed \/ (NewQueued /\ desired' \in InSelected)
    BY CommittedSteps
  <2>3. CASE NewQueued
    BY <2>2, <2>3, <1>2, <1>6
  <2>4. CASE desired' \in Committed
    <3>1. desired' = desired
            \/ driver'.waiting \cup ({desired'} \ {None}) \subseteq driver.waiting \cup ({desired} \ {None})
            \/ desired' \in {desired, None} \cup (Targets \ Taken)
      BY WaitingSteps
    <3> QED
      BY <3>1, <2>1, <2>4, <1>2, <1>12
  <2> QED
    BY <2>2, <2>3, <2>4
<1>10. ASSUME kept' # NoFile PROVE disk'[kept'].waiting \cap Committed' = {}
  <2>1. Committed' \subseteq Committed
    <3>1. ~NewQueued /\ ~NewInHand
      BY <1>6, <1>7, <1>10
    <3> QED
      BY <3>1, CommittedSteps
  <2>2. CASE Keeps
    <3>1. kept' = kept /\ kept' \in DOMAIN disk'
      BY <2>2, <1>10 DEF Keeps, Referenced
    <3> QED
      BY <2>1, <2>2, <3>1, <1>2, <1>10 DEF Keeps
  <2>3. CASE Writes
    <3>1. disk'[kept'] = driver
      BY <2>3, FirstFree DEF Writes
    <3> QED
      BY <2>1, <3>1, <1>2
  <2> QED
    BY <2>2, <2>3, StoreStep
<1>11. ASSUME At("loop", "registering")'
       PROVE  InSelected' \cap (Committed' \cup driver'.waiting \cup {desired'}) = {}
  <2>1. CASE GenerateSelects
    <3>1. Selects /\ UNCHANGED plans
      BY <2>1 DEF GenerateSelects
    <3>2. Committed' = Committed
      <4>1. Using' = Using
        BY <3>1 DEF plans, Using, Range
      <4> QED
        BY <4>1, CommittedUsing
    <3>3. CASE selected' = None
      BY <3>3 DEF InSelected
    <3>4. ASSUME NEW t \in Targets,
                 (selected' = Observation(t) /\ desired' = None) \/ selected' = Cwfs(t),
                 t \in driver.waiting \cup ({desired} \ {None}), t \notin driver'.waiting
          PROVE  InSelected' \cap (Committed' \cup driver'.waiting \cup {desired'}) = {}
      <4>1. CASE selected' = Cwfs(t)
        BY <4>1, ItemFields DEF InSelected
      <4>2. CASE selected' = Observation(t) /\ desired' = None
        <5>1. \A u \in InSelected' : u = t
          BY <4>2, ItemFields DEF InSelected
        <5>2. t \notin Committed' /\ t # None
          BY <3>2, <3>4, <1>2, Names
        <5> QED
          BY <5>1, <5>2, <4>2, <3>4
      <4> QED
        BY <3>4, <4>1, <4>2
    <3> QED
      BY <3>1, <3>3, <3>4, <1>1, SelectedTyped
  <2>2. CASE /\ At("loop", "registering") /\ UNCHANGED <<selected, plans>>
             /\ Stray \/ (desired' = desired /\ (driver' = driver \/ Loads))
    <3>1. Committed' = Committed /\ InSelected' = InSelected
      <4>1. Using' = Using
        BY <2>2 DEF plans, Using, Range
      <4>2. InSelected' = InSelected
        BY <2>2 DEF InSelected
      <4> QED
        BY <2>2, <4>1, <4>2, CommittedUsing
    <3>2. CASE desired' = desired /\ (driver' = driver \/ Loads)
      <4>1. driver'.waiting \subseteq driver.waiting \cup (Targets \ Spent)
        BY <3>2, LoadedFields
      <4> QED
        BY <2>2, <3>1, <3>2, <4>1, <1>2, <1>5
    <3>3. CASE Stray
      <4>1. /\ driver'.waiting \subseteq driver.waiting \cup (Targets \ Taken)
            /\ desired' \in {desired, None} \cup (Targets \ Taken)
        BY <3>3, StrayFields DEF StoreInv
      <4>2. None \notin InSelected
        BY <1>1, ItemFields, Names DEF InSelected
      <4> QED
        BY <2>2, <3>1, <4>1, <4>2, <1>2, <1>12
    <3> QED
      BY <2>2, <3>2, <3>3
  <2> QED
    BY <1>11, <2>1, <2>2, RegisteringSteps
<1> QED
  BY <1>4, <1>8, <1>9, <1>10, <1>11 DEF WaitingInv, Apart, Alone, Strangers, ShareTarget, Held

LEMMA WaitingInit == Init => WaitingInv
<1> SUFFICES ASSUME Init PROVE WaitingInv
  OBVIOUS
<1>1. StoreInv
  BY StoreInit
<1>2. /\ queue = << >> /\ scheduled = << >> /\ failing = << >> /\ inHand = None /\ Held = << >>
      /\ kept = NoFile /\ pc["loop"] = "off"
  BY DEF Init, Held, Procs
<1>3. Using = {}
  BY <1>2 DEF Using, Range
<1>4. Committed = {}
  BY <1>1, <1>3, UseNow DEF StoreInv, DataTypes, Committed
<1>5. Apart(ShareTarget, queue, scheduled, failing, Held)
  BY <1>2 DEF Apart, Alone, Strangers
<1> QED
  BY <1>2, <1>4, <1>5 DEF WaitingInv, At

(* A target that is planned, being sent or scheduled is not selected once  *)
(* more: no snapshot that is restored is from before it was selected       *)
(* (check_scheduled_targets drops the queue before it resets the driver).  *)
THEOREM SelectedOnce == Spec => []NotSelectedTwice
<1>1. Init => StoreInv /\ CountInv /\ WaitingInv
  BY StoreInit, CountInit, WaitingInit
<1>2. StoreInv /\ CountInv /\ WaitingInv /\ [Next]_vars => StoreInv' /\ CountInv' /\ WaitingInv'
  BY StoreInductive, CountInductive, WaitingInductive
<1>3. ASSUME StoreInv, WaitingInv
      PROVE  NotSelectedTwice
  <2>1. /\ queue \in Seq(Planned) /\ scheduled \in Seq(Planned) /\ failing \in Seq(Planned)
        /\ Held \in Seq(Planned) /\ InUse = queue \o scheduled \o failing \o Held
        /\ InUse \in Seq(Planned) /\ Apart(ShareTarget, queue, scheduled, failing, Held)
    BY <1>3, UseNow DEF StoreInv, WaitingInv, DataTypes, PlanTypes
  <2>2. Alone(ShareTarget, InUse)
    BY <2>1, TogetherAlone
  <2>3. \A i \in DOMAIN InUse : InUse[i] \in Planned
    BY <2>1, LenProperties, ElementOfSeq
  <2>4. \A i, j \in DOMAIN InUse :
          InUse[i].item = InUse[j].item /\ ~InUse[i].item.cwfs => i = j
    BY <2>2, <2>3 DEF Alone, ShareTarget
  <2> QED
    BY <1>3, <2>4 DEF WaitingInv, Committed, NotSelectedTwice
<1> QED
  BY <1>1, <1>2, <1>3, PTL DEF Spec
================================================================================
