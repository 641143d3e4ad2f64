----------------------- MODULE ObservatoryStatusProofs -----------------------
(***************************************************************************)
(* Proofs about ObservatoryStatus, for any set of components, any set of   *)
(* words an operator may ask for and any bound on the writes in flight.    *)
(***************************************************************************)
EXTENDS ObservatoryStatus, SequenceTheorems, TLAPS

(* The last write in flight carries the flag of the current word, because  *)
(* writes complete in the order in which they were started.                *)
LastWriteCurrent ==
  writes # << >> => (writes[Len(writes)].fault <=> "FAULT" \in status)

(* The inductive invariant.  A word stored on entering STANDBY comes back  *)
(* at the next start, so it has to be consistent too.                      *)
StatusInv ==
  /\ TypeOK
  /\ Consistent(status)
  /\ Consistent(lastStatus)
  /\ LastWriteCurrent
  /\ EventFollowsStatus

Writers == Components \cup Commands \cup {Self, "update"}

-----------------------------------------------------------------------------
(* The words the methods compute are words, and consistent ones.           *)
LEMMA WordsConsistent ==
  ASSUME NEW s \in SUBSET Flags, Consistent(s)
  PROVE  /\ Faulted(s) \in SUBSET Flags /\ Consistent(Faulted(s))
         /\ NotOperational(s) \in SUBSET Flags /\ Consistent(NotOperational(s))
         /\ AtNight(s) \in SUBSET Flags /\ Consistent(AtNight(s))
         /\ AtDay(s) \in SUBSET Flags /\ Consistent(AtDay(s))
         /\ Resumed(s) \in SUBSET Flags
BY DEF Consistent, Faulted, NotOperational, AtNight, AtDay, Resumed, Flags

(* A word the validation accepts is consistent.                            *)
LEMMA ValidConsistent ==
  ASSUME NEW s, Valid(s)
  PROVE  Consistent(s)
BY DEF Valid, Consistent

(* set_observatory_status keeps the invariant, whoever calls it, provided  *)
(* the word it is given is consistent.                                     *)
LEMMA SetStatusKeeps ==
  ASSUME StatusInv,
         NEW s \in SUBSET Flags, Consistent(s),
         NEW who \in Writers,
         NEW were \in SUBSET (Components \cup {Self}),
         NEW blamed \in SUBSET (Components \cup {Self}),
         SetStatus(s, who, were, blamed)
  PROVE  /\ status' \in SUBSET Flags
         /\ faultCleared' \in BOOLEAN
         /\ writes' \in Seq(WriteType)
         /\ wereInFault' \in SUBSET (Components \cup {Self})
         /\ Consistent(status)'
         /\ LastWriteCurrent'
         /\ EventFollowsStatus'
<1> DEFINE w == [fault |-> "FAULT" \in s, by |-> who, blamed |-> blamed]
<1> USE DEF StatusInv, TypeOK, WriteType, Writers
<1>1. status' = s
  BY DEF SetStatus
<1>2. CASE s = status /\ writes' = writes /\ faultCleared' = ("FAULT" \notin s)
           /\ wereInFault' = were \cup blamed
  BY <1>1, <1>2 DEF LastWriteCurrent, EventFollowsStatus, Consistent
<1>3. CASE writes' = Append(writes, w) /\ wereInFault' = were
           /\ faultCleared' = faultCleared
  <2>1. w \in WriteType
    OBVIOUS
  <2>2. /\ writes' \in Seq(WriteType)
        /\ Len(writes') = Len(writes) + 1
        /\ writes'[Len(writes')] = w
        /\ writes' # << >>
    BY <1>3, <2>1
  <2>3. LastWriteCurrent'
    BY <1>1, <2>2 DEF LastWriteCurrent
  <2> QED
    BY <1>1, <1>3, <2>2, <2>3 DEF EventFollowsStatus, Consistent
<1> QED
  BY <1>2, <1>3 DEF SetStatus

(* What the other variables keep.                                          *)
LEMMA PublishedUnchanged ==
  ASSUME StatusInv, UNCHANGED published
  PROVE  /\ status' \in SUBSET Flags
         /\ faultCleared' \in BOOLEAN
         /\ writes' \in Seq(WriteType)
         /\ wereInFault' \in SUBSET (Components \cup {Self})
         /\ Consistent(status)'
         /\ LastWriteCurrent'
         /\ EventFollowsStatus'
BY DEF StatusInv, TypeOK, published, LastWriteCurrent, EventFollowsStatus, Consistent

LEMMA InitStatusInv == Init => StatusInv
<1> SUFFICES ASSUME Init PROVE StatusInv
  OBVIOUS
<1>1. writes \in Seq(WriteType)
  BY DEF Init
<1>2. pc \in [Commands -> Labels]
  BY DEF Init, Labels, Commands
<1>3. TypeOK
  BY <1>1, <1>2 DEF Init, TypeOK, Unknown
<1> QED
  BY <1>3 DEF Init, StatusInv, Consistent, LastWriteCurrent, EventFollowsStatus,
              Unknown

(* Completing a write leaves the writes that were started after it.        *)
LEMMA WriteDoneKeeps ==
  ASSUME StatusInv, WriteDone
  PROVE  StatusInv'
<1> USE DEF StatusInv, TypeOK, WriteDone
<1>1. writes \in Seq(WriteType) /\ writes # << >> /\ Len(writes) \in Nat \ {0}
  OBVIOUS
<1>2. Head(writes) \in WriteType
  BY <1>1
<1>3. /\ Tail(writes) \in Seq(WriteType) /\ Len(Tail(writes)) = Len(writes) - 1
      /\ \A i \in 1 .. Len(Tail(writes)) : Tail(writes)[i] = writes[i + 1]
  BY <1>1, HeadTailProperties
<1>4. Len(writes) = 1 => Head(writes) = writes[Len(writes)] /\ Tail(writes) = << >>
  BY <1>1, <1>3
<1>5. Len(writes) > 1 => /\ Tail(writes) # << >>
                         /\ Tail(writes)[Len(Tail(writes))] = writes[Len(writes)]
  <2> HIDE DEF StatusInv, TypeOK, WriteDone
  <2> SUFFICES ASSUME Len(writes) > 1
               PROVE  /\ Tail(writes) # << >>
                      /\ Tail(writes)[Len(Tail(writes))] = writes[Len(writes)]
    OBVIOUS
  <2>1. Len(Tail(writes)) \in 1 .. Len(Tail(writes))
        /\ Len(Tail(writes)) + 1 = Len(writes)
    BY <1>1, <1>3
  <2>2. Tail(writes)[Len(Tail(writes))] = writes[Len(Tail(writes)) + 1]
    BY <1>3, <2>1
  <2>3. Tail(writes) # << >>
    <3>1. Len(Tail(writes)) # 0
      BY <1>1, <1>3
    <3> QED
      BY <3>1, EmptySeq
  <2> QED
    BY <2>1, <2>2, <2>3
<1>6. LastWriteCurrent'
  BY <1>1, <1>3, <1>4, <1>5 DEF LastWriteCurrent
<1>7. EventFollowsStatus'
  <2>1. SUFFICES ASSUME Tail(writes) = << >>
                 PROVE  faultCleared' <=> "FAULT" \notin status
    BY DEF EventFollowsStatus
  <2>2. Len(Tail(writes)) = 0
    BY <2>1, EmptySeq
  <2>3. Len(writes) = 1 /\ Head(writes) = writes[Len(writes)]
    BY <1>1, <1>3, <1>4, <2>2
  <2>4. Head(writes).fault <=> "FAULT" \in status
    BY <1>1, <2>3 DEF LastWriteCurrent
  <2> QED
    BY <1>2, <2>4 DEF WriteType
<1>8. TypeOK'
  BY <1>1, <1>2, <1>3 DEF WriteType
<1> QED
  BY <1>6, <1>7, <1>8 DEF Consistent

(* A component's report, taken from its callback or from the visit.        *)
LEMMA ReportKeeps ==
  ASSUME StatusInv, NEW c \in Components, NEW state \in {"ok", "FAULT"},
         Report(c, state)
  PROVE  /\ componentState' \in [Components -> {"unknown", "ok", "FAULT"}]
         /\ status' \in SUBSET Flags
         /\ faultCleared' \in BOOLEAN
         /\ writes' \in Seq(WriteType)
         /\ wereInFault' \in SUBSET (Components \cup {Self})
         /\ Consistent(status)'
         /\ LastWriteCurrent'
         /\ EventFollowsStatus'
<1>0. /\ status \in SUBSET Flags /\ Consistent(status)
      /\ wereInFault \in SUBSET (Components \cup {Self})
      /\ componentState \in [Components -> {"unknown", "ok", "FAULT"}]
      /\ c \in Writers /\ {c} \in SUBSET (Components \cup {Self})
      /\ {} \in SUBSET (Components \cup {Self})
  BY DEF StatusInv, TypeOK, Writers
<1>1. componentState' \in [Components -> {"unknown", "ok", "FAULT"}]
  BY <1>0 DEF Report
<1>2. CASE SetStatus(Faulted(status), c, wereInFault, {c})
  BY <1>0, <1>1, <1>2, WordsConsistent, SetStatusKeeps
<1>3. CASE SetStatus(status, c, wereInFault, {})
  BY <1>0, <1>1, <1>3, SetStatusKeeps
<1>4. CASE UNCHANGED published
  BY <1>1, <1>4, PublishedUnchanged
<1> QED
  BY <1>2, <1>3, <1>4 DEF Report

-----------------------------------------------------------------------------
(* Every step keeps the invariant.                                         *)
LEMMA NextStatusInv ==
  ASSUME StatusInv, [Next]_vars
  PROVE  StatusInv'
<1>0. /\ TypeOK /\ Consistent(status) /\ Consistent(lastStatus)
      /\ status \in SUBSET Flags /\ lastStatus \in SUBSET Flags
      /\ wereInFault \in SUBSET (Components \cup {Self})
      /\ {} \in SUBSET (Components \cup {Self})
      /\ {Self} \in SUBSET (Components \cup {Self})
      /\ Unknown \in SUBSET Flags /\ Consistent(Unknown)
  BY DEF StatusInv, TypeOK, Unknown, Consistent
<1>w. {"resume", "stop", "disable", "standby", "start", "telemetry", "update", Self}
        \subseteq Writers
  BY DEF Writers, Commands
<1>k. \A k \in Commands, label \in Labels :
        Goto(k, label) => pc' \in [Commands -> Labels]
  BY <1>0 DEF Goto, TypeOK
<1>l. LoopStarted(pc["telemetry"]) \in Labels
  BY <1>0 DEF LoopStarted, TypeOK, Labels, Commands
<1>q. ASSUME /\ status' \in SUBSET Flags
             /\ faultCleared' \in BOOLEAN
             /\ writes' \in Seq(WriteType)
             /\ wereInFault' \in SUBSET (Components \cup {Self})
             /\ Consistent(status)'
             /\ LastWriteCurrent'
             /\ EventFollowsStatus',
             /\ summary' \in {"STANDBY", "DISABLED", "ENABLED", "FAULT"}
             /\ componentState' \in [Components -> {"unknown", "ok", "FAULT"}]
             /\ lastStatus' \in SUBSET Flags /\ Consistent(lastStatus)'
             /\ monitoring' \in BOOLEAN
             /\ toVisit' \in SUBSET Components
             /\ subscribed' \in SUBSET Components
             /\ isNight' \in BOOLEAN
             /\ runTargetLoop' \in BOOLEAN
             /\ pc' \in [Commands -> Labels]
      PROVE  StatusInv'
  BY <1>q DEF StatusInv, TypeOK
<1>1. CASE WriteDone
  BY <1>1, WriteDoneKeeps
<1>2. ASSUME NEW c \in Components, ComponentReports(c)
      PROVE  StatusInv'
  <2>1. PICK state \in {"ok", "FAULT"} : Report(c, state)
    BY <1>2 DEF ComponentReports
  <2> QED
    BY <1>0, <1>2, <1>q, <2>1, ReportKeeps DEF ComponentReports, TypeOK, Consistent
<1>3. ASSUME NEW c \in Components, MonitorVisits(c)
      PROVE  StatusInv'
  <2>1. /\ toVisit' \in SUBSET Components /\ subscribed' \in SUBSET Components
        /\ UNCHANGED <<summary, lastStatus, monitoring, isNight, runTargetLoop, pc>>
    BY <1>0, <1>3 DEF MonitorVisits, TypeOK
  <2>2. CASE UNCHANGED <<published, componentState>>
    <3>1. UNCHANGED published /\ UNCHANGED componentState
      BY <2>2
    <3> QED
      BY <1>0, <1>q, <2>1, <3>1, PublishedUnchanged DEF TypeOK, Consistent
  <2>3. CASE \E state \in {"ok", "FAULT"} : Report(c, state)
    BY <1>0, <1>q, <2>1, <2>3, ReportKeeps DEF TypeOK, Consistent
  <2> QED
    BY <1>3, <2>2, <2>3 DEF MonitorVisits
<1>4. ASSUME NEW s \in UserStatuses, UpdateObservatoryStatus(s)
      PROVE  StatusInv'
  <2> DEFINE were == IF "FAULT" \in status \ s THEN {} ELSE wereInFault
  <2>1. s \in SUBSET Flags /\ Consistent(s)
    BY <1>4, ConstantsAssumption, ValidConsistent DEF UpdateObservatoryStatus
  <2>2. were \in SUBSET (Components \cup {Self})
    BY <1>0
  <2>3. SetStatus(s, "update", were, {})
    BY <1>4 DEF UpdateObservatoryStatus
  <2> HIDE DEF were
  <2> QED
    BY <1>0, <1>4, <1>q, <1>w, <2>1, <2>2, <2>3, SetStatusKeeps
       DEF UpdateObservatoryStatus, TypeOK, Consistent
<1>5. CASE Loop
  <2>1. CASE ResumeChecks
    BY <1>0, <1>k, <1>q, <2>1, PublishedUnchanged
       DEF ResumeChecks, TypeOK, Commands, Labels, Consistent
  <2>2. CASE ResumeFinishes
    <3>1. /\ pc' \in [Commands -> Labels] /\ runTargetLoop' \in BOOLEAN
          /\ UNCHANGED <<summary, componentState, lastStatus, monitoring, toVisit,
                         subscribed, isNight>>
      BY <1>0, <1>k, <2>2 DEF ResumeFinishes, TypeOK, Commands, Labels
    <3>2. CASE UNCHANGED published
      BY <1>0, <1>q, <3>1, <3>2, PublishedUnchanged DEF TypeOK, Consistent
    <3>3. CASE /\ Valid(Resumed(status))
               /\ SetStatus(Resumed(status), "resume", wereInFault, {})
      <4>1. Resumed(status) \in SUBSET Flags /\ Consistent(Resumed(status))
        BY <1>0, <3>3, WordsConsistent, ValidConsistent
      <4> QED
        BY <1>0, <1>q, <1>w, <3>1, <3>3, <4>1, SetStatusKeeps DEF TypeOK, Consistent
    <3> QED
      BY <2>2, <3>2, <3>3 DEF ResumeFinishes, published
  <2>3. CASE StopClears
    BY <1>0, <1>k, <1>q, <2>3, PublishedUnchanged
       DEF StopClears, TypeOK, Commands, Labels, Consistent
  <2>4. CASE StopFinishes
    BY <1>0, <1>k, <1>q, <1>w, <2>4, PublishedUnchanged, SetStatusKeeps, WordsConsistent
       DEF StopFinishes, UnsetOperational, TypeOK, Commands, Labels, Consistent
  <2> QED
    BY <1>5, <2>1, <2>2, <2>3, <2>4 DEF Loop
<1>6. CASE Lifecycle
  <2>1. CASE DisableUnsets
    BY <1>0, <1>k, <1>q, <1>w, <2>1, PublishedUnchanged, SetStatusKeeps, WordsConsistent
       DEF DisableUnsets, UnsetOperational, TypeOK, Commands, Labels, Consistent
  <2>2. CASE DisableStopsTasks
    BY <1>0, <1>k, <1>q, <2>2, PublishedUnchanged
       DEF DisableStopsTasks, TypeOK, Commands, Labels, Consistent
  <2>3. CASE DisableFinishes
    BY <1>0, <1>k, <1>q, <2>3, PublishedUnchanged
       DEF DisableFinishes, TypeOK, Commands, Labels, Consistent
  <2>4. CASE Fault
    <3>1. Faulted(status) \in SUBSET Flags /\ Consistent(Faulted(status))
      BY <1>0, WordsConsistent
    <3>2. pc' \in [Commands -> Labels]
      BY <1>0, <1>k, <2>4 DEF Fault, TypeOK, Commands, Labels
    <3> QED
      BY <1>0, <1>q, <1>w, <2>4, <3>1, <3>2, SetStatusKeeps DEF Fault, TypeOK, Consistent
  <2>5. CASE Enable
    <3>1. pc' \in [Commands -> Labels]
      BY <1>k, <1>l, <2>5 DEF Enable, Commands
    <3> QED
      BY <1>0, <1>q, <2>5, <3>1, PublishedUnchanged DEF Enable, TypeOK, Consistent
  <2>6. CASE StandbyBegins
    BY <1>0, <1>k, <1>q, <2>6, PublishedUnchanged
       DEF StandbyBegins, TypeOK, Commands, Labels, Consistent
  <2>7. CASE StandbySettles
    <3>1. pc' \in [Commands -> Labels]
      BY <1>0, <2>7 DEF StandbySettles, TypeOK, Commands, Labels
    <3> QED
      BY <1>0, <1>q, <1>w, <2>7, <3>1, SetStatusKeeps
         DEF StandbySettles, TypeOK, Consistent
  <2>8. CASE StartRestores
    BY <1>0, <1>k, <1>q, <1>w, <2>8, SetStatusKeeps
       DEF StartRestores, TypeOK, Commands, Labels, Consistent
  <2>9. CASE StartMonitors
    BY <1>0, <1>k, <1>q, <2>9, PublishedUnchanged
       DEF StartMonitors, TypeOK, Commands, Labels, Consistent
  <2>10. CASE StartCompletes \/ StartFails
    <3>1. pc' \in [Commands -> Labels]
      BY <1>0, <1>k, <1>l, <2>10
         DEF StartCompletes, StartFails, TypeOK, Commands, Labels, LoopStarted
    <3> QED
      BY <1>0, <1>q, <2>10, <3>1, PublishedUnchanged
         DEF StartCompletes, StartFails, TypeOK, Consistent
  <2>11. CASE StartUnmonitored
    BY <1>0, <1>k, <1>q, <1>w, <2>11, SetStatusKeeps
       DEF StartUnmonitored, TypeOK, Commands, Labels, Consistent
  <2> QED
    BY <1>6, <2>1, <2>2, <2>3, <2>4, <2>5, <2>6, <2>7, <2>8, <2>9, <2>10, <2>11
       DEF Lifecycle
<1>7. CASE Telemetry
  <2>1. CASE TelemetryReads
    BY <1>0, <1>k, <1>q, <2>1, PublishedUnchanged
       DEF TelemetryReads, TypeOK, Commands, Labels, Consistent
  <2>2. CASE TelemetryHandles
    BY <1>0, <1>k, <1>q, <1>w, <2>2, PublishedUnchanged, SetStatusKeeps, WordsConsistent
       DEF TelemetryHandles, TypeOK, Commands, Labels, Consistent
  <2>3. CASE TelemetrySkips \/ TelemetryFails
    BY <1>0, <1>k, <1>q, <2>3, PublishedUnchanged
       DEF TelemetrySkips, TelemetryFails, TypeOK, Commands, Labels, Consistent
  <2> QED
    BY <1>7, <2>1, <2>2, <2>3 DEF Telemetry
<1>8. CASE SunMoves
  BY <1>0, <1>q, <1>8, PublishedUnchanged DEF SunMoves, TypeOK, Consistent
<1>9. CASE UNCHANGED vars
  BY <1>0, <1>q, <1>9, PublishedUnchanged DEF vars, TypeOK, Consistent
<1> QED
  BY <1>1, <1>2, <1>3, <1>4, <1>5, <1>6, <1>7, <1>8, <1>9 DEF Next, Monitor, Operator

(* Whatever the interleaving of components, operator, commands and the     *)
(* telemetry loop, the variables keep their types.                         *)
THEOREM StatusTypeCorrect == Spec => []TypeOK
<1>1. StatusInv => TypeOK
  BY DEF StatusInv
<1> QED
  BY <1>1, InitStatusInv, NextStatusInv, PTL DEF Spec

(* No writer ever publishes, and no start ever restores, OPERATIONAL       *)
(* together with DAYTIME, FAULT or DOWNTIME.                               *)
THEOREM StatusConsistent == Spec => []NoOperationalConflict
<1>1. StatusInv => NoOperationalConflict
  BY DEF StatusInv, NoOperationalConflict
<1> QED
  BY <1>1, InitStatusInv, NextStatusInv, PTL DEF Spec

(* However many writes overlap, the event the target loop waits on agrees  *)
(* with the FAULT flag once all of them have completed.                    *)
THEOREM EventCorrect == Spec => []EventFollowsStatus
<1>1. StatusInv => EventFollowsStatus
  BY DEF StatusInv
<1> QED
  BY <1>1, InitStatusInv, NextStatusInv, PTL DEF Spec
-----------------------------------------------------------------------------
(* A component is blamed when it is in the list, or a write that adds it   *)
(* to the list is in flight for it.                                        *)
Blamed(c) ==
  \/ c \in wereInFault
  \/ \E i \in 1..Len(writes) : writes[i].by = c /\ c \in writes[i].blamed

FaultsBlamed ==
  \A c \in Components : componentState[c] = "FAULT" => Blamed(c)

(* No caller of set_observatory_status loses the blame, unless it resets   *)
(* the list.                                                               *)
LEMMA SetStatusBlames ==
  ASSUME TypeOK, NEW s, NEW who \in Writers, NEW were,
         NEW blamed \in SUBSET (Components \cup {Self}),
         SetStatus(s, who, were, blamed)
  PROVE  /\ \A c \in Components : Blamed(c) /\ wereInFault \subseteq were => Blamed(c)'
         /\ who \in blamed => Blamed(who)'
<1> DEFINE w == [fault |-> "FAULT" \in s, by |-> who, blamed |-> blamed]
<1>1. writes \in Seq(WriteType) /\ w \in WriteType
  BY DEF TypeOK, WriteType, Writers
<1>2. CASE writes' = writes /\ wereInFault' = were \cup blamed
  BY <1>2 DEF Blamed
<1>3. CASE writes' = Append(writes, w) /\ wereInFault' = were
  <2>1. /\ Len(writes) \in Nat
        /\ Len(writes') = Len(writes) + 1
        /\ \A i \in 1..Len(writes) : writes'[i] = writes[i]
        /\ writes'[Len(writes')] = w
    BY <1>1, <1>3, AppendProperties, LenProperties
  <2>2. ASSUME NEW c \in Components, Blamed(c), wereInFault \subseteq were
        PROVE  Blamed(c)'
    <3>1. CASE c \in wereInFault
      BY <1>3, <2>2, <3>1 DEF Blamed
    <3>2. CASE \E i \in 1..Len(writes) : writes[i].by = c /\ c \in writes[i].blamed
      <4>1. PICK i \in 1..Len(writes) : writes[i].by = c /\ c \in writes[i].blamed
        BY <3>2
      <4>2. i \in 1..Len(writes') /\ writes'[i] = writes[i]
        BY <2>1, <4>1
      <4> QED
        BY <4>1, <4>2 DEF Blamed
    <3> QED
      BY <2>2, <3>1, <3>2 DEF Blamed
  <2>3. ASSUME who \in blamed
        PROVE  Blamed(who)'
    <3>1. Len(writes') \in 1..Len(writes') /\ writes'[Len(writes')].by = who
          /\ who \in writes'[Len(writes')].blamed
      BY <2>1, <2>3
    <3> QED
      BY <3>1 DEF Blamed
  <2> QED
    BY <2>2, <2>3
<1> QED
  BY <1>2, <1>3 DEF SetStatus

(* A write that completes adds its component to the list.                  *)
LEMMA WriteDoneBlames ==
  ASSUME TypeOK, WriteDone, NEW c \in Components, Blamed(c)
  PROVE  Blamed(c)'
<1>1. /\ writes \in Seq(WriteType) /\ writes # << >> /\ Len(writes) \in Nat \ {0}
      /\ Head(writes) = writes[1]
      /\ writes' = Tail(writes)
      /\ wereInFault' = wereInFault \cup writes[1].blamed
  BY EmptySeq DEF TypeOK, WriteDone
<1>2. /\ Len(writes') = Len(writes) - 1
      /\ \A i \in 1..Len(writes') : writes'[i] = writes[i + 1]
  BY <1>1, HeadTailProperties
<1>3. CASE c \in wereInFault
  BY <1>1, <1>3 DEF Blamed
<1>4. ASSUME NEW i \in 1..Len(writes), writes[i].by = c, c \in writes[i].blamed
      PROVE  Blamed(c)'
  <2>1. CASE i = 1
    BY <1>1, <1>4, <2>1 DEF Blamed
  <2>2. CASE i # 1
    <3>1. i - 1 \in 1..Len(writes') /\ writes'[i - 1] = writes[i]
      BY <1>1, <1>2, <2>2
    <3> QED
      BY <1>4, <3>1 DEF Blamed
  <2> QED
    BY <2>1, <2>2
<1> QED
  BY <1>3, <1>4 DEF Blamed

-----------------------------------------------------------------------------
(* Who calls set_observatory_status, and with what: all but the operator's *)
(* update and the components' reports leave the list alone, and take the   *)
(* FAULT flag down only for a word that is valid, or in STANDBY.           *)
Clears(s) == "FAULT" \in status /\ "FAULT" \notin s

Calls(s, who, blamed) ==
  /\ SetStatus(s, who, wereInFault, blamed)
  /\ Clears(s) => Valid(s) \/ summary = "STANDBY" \/ pc["standby"] = "stopping"

SomeoneCalls ==
  /\ UNCHANGED componentState
  /\ \E s : \E who \in Writers, blamed \in SUBSET (Components \cup {Self}) :
       Calls(s, who, blamed)

Quiet == UNCHANGED <<published, componentState>>

LEMMA Callers ==
  ASSUME TypeOK, Next
  PROVE  \/ WriteDone
         \/ \E c \in Components, state \in {"ok", "FAULT"} : Report(c, state)
         \/ \E s \in UserStatuses : UpdateObservatoryStatus(s)
         \/ Quiet
         \/ SomeoneCalls
<1>1. /\ {"resume", "stop", "disable", "standby", "start", "telemetry", Self}
           \subseteq Writers
      /\ {} \in SUBSET (Components \cup {Self}) /\ {Self} \in SUBSET (Components \cup {Self})
  BY DEF Writers, Commands
<1>2. ASSUME NEW s, NEW who \in Writers, NEW blamed \in SUBSET (Components \cup {Self}),
             Calls(s, who, blamed), UNCHANGED componentState
      PROVE  SomeoneCalls
  BY <1>2 DEF SomeoneCalls
<1>3. ASSUME NEW who \in {"stop", "disable"}, UnsetOperational(who),
             UNCHANGED componentState
      PROVE  Quiet \/ SomeoneCalls
  <2>1. CASE SetStatus(NotOperational(status), who, wereInFault, {})
    <3>1. ~Clears(NotOperational(status))
      BY DEF Clears, NotOperational
    <3> QED
      BY <1>1, <1>2, <1>3, <2>1, <3>1 DEF Calls
  <2> QED
    BY <1>3, <2>1 DEF UnsetOperational, Quiet
<1>4. CASE Monitor
  <2>1. PICK c \in Components : ComponentReports(c) \/ MonitorVisits(c)
    BY <1>4 DEF Monitor
  <2> QED
    BY <2>1 DEF ComponentReports, MonitorVisits, Quiet
<1>5. CASE Loop
  <2>1. CASE ResumeFinishes
    <3>1. CASE /\ Valid(Resumed(status))
               /\ SetStatus(Resumed(status), "resume", wereInFault, {})
      BY <1>1, <1>2, <2>1, <3>1 DEF Calls, ResumeFinishes
    <3> QED
      BY <2>1, <3>1 DEF ResumeFinishes, Quiet, published
  <2>2. CASE StopFinishes
    BY <1>3, <2>2 DEF StopFinishes
  <2> QED
    BY <1>5, <2>1, <2>2 DEF Loop, ResumeChecks, StopClears, Quiet
<1>6. CASE Lifecycle
  <2>1. CASE DisableUnsets
    BY <1>3, <2>1 DEF DisableUnsets
  <2>2. CASE Fault
    <3>1. ~Clears(Faulted(status))
      BY DEF Clears, Faulted
    <3> QED
      BY <1>1, <1>2, <2>2, <3>1 DEF Calls, Fault
  <2>3. CASE StandbySettles
    BY <1>1, <1>2, <2>3 DEF Calls, StandbySettles
  <2>4. CASE StartRestores
    BY <1>1, <1>2, <2>4 DEF Calls, StartRestores
  <2>5. CASE StartUnmonitored
    BY <1>1, <1>2, <2>5 DEF Calls, StartUnmonitored
  <2> QED
    BY <1>6, <2>1, <2>2, <2>3, <2>4, <2>5
       DEF Lifecycle, DisableStopsTasks, DisableFinishes, Enable, StandbyBegins,
           StartMonitors, StartCompletes, StartFails, Quiet
<1>7. CASE Telemetry
  <2> DEFINE s == IF pc["telemetry"] = "night" THEN AtNight(status) ELSE AtDay(status)
  <2>1. CASE TelemetryHandles
    <3>1. ~Clears(s)
      BY DEF Clears, AtNight, AtDay
    <3> HIDE DEF s
    <3>2. CASE SetStatus(s, "telemetry", wereInFault, {})
      BY <1>1, <1>2, <2>1, <3>1, <3>2 DEF Calls, TelemetryHandles
    <3> QED
      BY <2>1, <3>2 DEF TelemetryHandles, s, Quiet
  <2> QED
    BY <1>7, <2>1 DEF Telemetry, TelemetryReads, TelemetrySkips, TelemetryFails, Quiet
<1>8. CASE SunMoves
  BY <1>8 DEF SunMoves, Quiet
<1> QED
  BY <1>4, <1>5, <1>6, <1>7, <1>8 DEF Next, Operator

(* Every step keeps the blame.                                             *)
LEMMA NextFaultsBlamed ==
  ASSUME TypeOK, FaultsBlamed, [Next]_vars
  PROVE  FaultsBlamed'
<1> SUFFICES ASSUME NEW c \in Components, componentState'[c] = "FAULT"
             PROVE  Blamed(c)'
  BY DEF FaultsBlamed
<1>0. Components \subseteq Writers /\ "update" \in Writers
      /\ {} \in SUBSET (Components \cup {Self})
  BY DEF Writers
<1>1. CASE WriteDone
  BY <1>1, WriteDoneBlames DEF FaultsBlamed, WriteDone
<1>2. ASSUME NEW d \in Components, NEW state \in {"ok", "FAULT"}, Report(d, state)
      PROVE  Blamed(c)'
  <2>1. componentState'[c] = IF c = d THEN state ELSE componentState[c]
    BY <1>2 DEF Report, TypeOK
  <2>2. CASE c = d
    <3>1. SetStatus(Faulted(status), c, wereInFault, {c})
      BY <1>2, <2>1, <2>2 DEF Report
    <3> QED
      BY <1>0, <3>1, SetStatusBlames
  <2>3. CASE c # d
    <3>1. Blamed(c)
      BY <2>1, <2>3 DEF FaultsBlamed
    <3>2. CASE UNCHANGED published
      BY <3>1, <3>2 DEF Blamed, published
    <3> QED
      BY <1>0, <1>2, <3>1, <3>2, SetStatusBlames DEF Report
  <2> QED
    BY <2>2, <2>3
<1>3. ASSUME NEW s \in UserStatuses, UpdateObservatoryStatus(s)
      PROVE  Blamed(c)'
  <2>1. componentState[c] = "FAULT" /\ Blamed(c)
    BY <1>3 DEF UpdateObservatoryStatus, FaultsBlamed
  <2>2. "FAULT" \in s
    BY <1>3, <2>1 DEF UpdateObservatoryStatus, Valid, SomeComponentInFault
  <2>3. SetStatus(s, "update", wereInFault, {})
    BY <1>3, <2>2 DEF UpdateObservatoryStatus
  <2> QED
    BY <1>0, <2>1, <2>3, SetStatusBlames
<1>4. CASE Quiet
  BY <1>4 DEF FaultsBlamed, Blamed, Quiet, published
<1>5. CASE SomeoneCalls
  BY <1>5, SetStatusBlames DEF FaultsBlamed, SomeoneCalls, Calls
<1>6. CASE Next
  BY <1>1, <1>2, <1>3, <1>4, <1>5, <1>6, Callers
<1>7. CASE UNCHANGED vars
  BY <1>4, <1>7 DEF vars, Quiet
<1> QED
  BY <1>6, <1>7

(* The list the status note is made from names every component in FAULT    *)
(* whose report is not still being written, whatever resets it meanwhile.  *)
THEOREM FaultsListed == Spec => []InFaultIsListed
<1>1. Init => FaultsBlamed
  BY DEF Init, FaultsBlamed
<1>2. FaultsBlamed /\ TypeOK => InFaultIsListed
  <2> SUFFICES ASSUME FaultsBlamed, TypeOK, NEW c \in Components,
                      componentState[c] = "FAULT", ~Writing(c)
               PROVE  c \in wereInFault
    BY DEF InFaultIsListed
  <2>1. DOMAIN writes = 1..Len(writes)
    BY DEF TypeOK
  <2> QED
    BY <2>1 DEF FaultsBlamed, Blamed, Writing
<1>3. StatusInv => TypeOK
  BY DEF StatusInv
<1> QED
  BY <1>1, <1>2, <1>3, InitStatusInv, NextStatusInv, NextFaultsBlamed, PTL DEF Spec

-----------------------------------------------------------------------------
(* In which summary states a standby, start, disable and fault may be      *)
(* under way.                                                              *)
SelfWrites == {i \in 1..Len(writes) : writes[i].by = Self}

SessionInv ==
  /\ pc["standby"] \in {"idle", "stopping"}
  /\ pc["standby"] = "stopping" => summary = "STANDBY"
  /\ pc["start"] # "idle" => summary = "STANDBY" /\ pc["standby"] = "idle"
  /\ pc["disable"] # "idle" => summary \in {"ENABLED", "FAULT"}
  /\ SelfWrites # {} => summary = "ENABLED"
  /\ \A i, j \in SelfWrites : i = j

(* A write for somebody else leaves those of the CSC alone.                *)
LEMMA SelfWritesKept ==
  ASSUME TypeOK, NEW s, NEW who \in Writers, NEW were,
         NEW blamed \in SUBSET (Components \cup {Self}),
         SetStatus(s, who, were, blamed)
  PROVE  /\ who # Self => SelfWrites' = SelfWrites
         /\ who = Self /\ SelfWrites = {} => \A i, j \in SelfWrites' : i = j
         /\ writes' = writes => SelfWrites' = SelfWrites
<1> DEFINE w == [fault |-> "FAULT" \in s, by |-> who, blamed |-> blamed]
<1>1. writes \in Seq(WriteType) /\ w \in WriteType
  BY DEF TypeOK, WriteType, Writers
<1>2. CASE writes' = writes
  BY <1>2 DEF SelfWrites
<1>3. CASE writes' = Append(writes, w)
  <2>1. /\ Len(writes) \in Nat
        /\ Len(writes') = Len(writes) + 1
        /\ \A i \in 1..Len(writes) : writes'[i] = writes[i]
        /\ writes'[Len(writes) + 1] = w
        /\ writes' # writes
    BY <1>1, <1>3, AppendProperties, LenProperties
  <2>2. 1..Len(writes') = 1..Len(writes) \cup {Len(writes) + 1}
    BY <2>1
  <2>3. SelfWrites' = SelfWrites \cup (IF who = Self THEN {Len(writes) + 1} ELSE {})
    BY <2>1, <2>2 DEF SelfWrites
  <2> QED
    BY <2>1, <2>3
<1> QED
  BY <1>2, <1>3 DEF SetStatus

LEMMA SessionQuiet ==
  ASSUME UNCHANGED published
  PROVE  SelfWrites' = SelfWrites
BY DEF published, SelfWrites

LEMMA InitSession == Init => SessionInv
BY DEF Init, SessionInv, SelfWrites, Commands

(* Every step keeps to the states in which a command may be under way.     *)
LEMMA NextSession ==
  ASSUME TypeOK, SessionInv, [Next]_vars
  PROVE  SessionInv'
<1>1. /\ {"resume", "stop", "disable", "standby", "start", "telemetry", "update"}
           \subseteq Writers \ {Self}
      /\ Components \subseteq Writers \ {Self}
      /\ Self \in Writers
      /\ {} \in SUBSET (Components \cup {Self}) /\ {Self} \in SUBSET (Components \cup {Self})
  BY ConstantsAssumption DEF Writers, Commands
<1>2. ASSUME NEW s, NEW who \in Writers \ {Self}, NEW were,
             NEW blamed \in SUBSET (Components \cup {Self}),
             SetStatus(s, who, were, blamed)
      PROVE  SelfWrites' = SelfWrites
  BY <1>2, SelfWritesKept
<1>3. pc \in [Commands -> Labels] /\ Commands = {"resume", "stop", "disable", "standby",
                                                 "start", "telemetry"}
  BY DEF TypeOK, Commands
<1>4. Writing(Self) <=> SelfWrites # {}
  BY DEF Writing, SelfWrites, TypeOK
<1>5. ASSUME SelfWrites' = SelfWrites, UNCHANGED <<summary, pc>>
      PROVE  SessionInv'
  BY <1>5 DEF SessionInv
<1>6. ASSUME NEW c \in Components, NEW state, Report(c, state)
      PROVE  SelfWrites' = SelfWrites
  BY <1>1, <1>2, <1>6, SessionQuiet DEF Report
<1>7. ASSUME NEW who \in {"stop", "disable"}, UnsetOperational(who)
      PROVE  SelfWrites' = SelfWrites
  BY <1>1, <1>2, <1>7, SessionQuiet DEF UnsetOperational
<1>8. CASE WriteDone
  <2>1. /\ writes \in Seq(WriteType) /\ writes # << >> /\ Len(writes) \in Nat \ {0}
        /\ Head(writes) = writes[1] /\ writes' = Tail(writes)
        /\ UNCHANGED pc
    BY <1>8, EmptySeq DEF TypeOK, WriteDone
  <2>2. /\ Len(writes') = Len(writes) - 1
        /\ \A i \in 1..Len(writes') : writes'[i] = writes[i + 1]
    BY <2>1, HeadTailProperties
  <2>3. \A i \in SelfWrites' : i + 1 \in SelfWrites /\ i \in Nat \ {0}
    BY <2>1, <2>2 DEF SelfWrites
  <2>4. SelfWrites \subseteq Nat
    BY <2>1 DEF SelfWrites
  <2>5. CASE writes[1].by = Self
    <3>1. 1 \in SelfWrites
      BY <2>1, <2>5 DEF SelfWrites
    <3>2. SelfWrites' = {}
      BY <2>3, <3>1 DEF SessionInv
    <3>3. summary' = "FAULT" /\ summary = "ENABLED"
      BY <1>8, <2>1, <2>5, <3>1 DEF WriteDone, SessionInv
    <3> QED
      BY <2>1, <3>2, <3>3 DEF SessionInv
  <2>6. CASE writes[1].by # Self
    <3>1. UNCHANGED summary
      BY <1>8, <2>1, <2>6 DEF WriteDone
    <3>2. \A i, j \in SelfWrites' : i = j
      BY <2>3, <2>4 DEF SessionInv
    <3>3. SelfWrites' # {} => SelfWrites # {}
      BY <2>3
    <3> QED
      BY <2>1, <3>1, <3>2, <3>3 DEF SessionInv
  <2> QED
    BY <2>5, <2>6
<1>9. CASE Monitor
  <2>1. PICK c \in Components : ComponentReports(c) \/ MonitorVisits(c)
    BY <1>9 DEF Monitor
  <2>2. SelfWrites' = SelfWrites
    BY <1>6, <2>1, SessionQuiet DEF ComponentReports, MonitorVisits
  <2> QED
    BY <1>5, <2>1, <2>2 DEF ComponentReports, MonitorVisits
<1>10. CASE Operator
  <2>1. PICK s \in UserStatuses : UpdateObservatoryStatus(s)
    BY <1>10 DEF Operator
  <2> QED
    BY <1>1, <1>2, <1>5, <2>1 DEF UpdateObservatoryStatus
<1>11. CASE Loop
  <2>1. UNCHANGED summary /\ UNCHANGED <<pc["disable"], pc["standby"], pc["start"]>>
    BY <1>3, <1>11 DEF Loop, ResumeChecks, ResumeFinishes, StopClears, StopFinishes, Goto
  <2>2. SelfWrites' = SelfWrites
    BY <1>1, <1>2, <1>7, <1>11, SessionQuiet
       DEF Loop, ResumeChecks, ResumeFinishes, StopClears, StopFinishes, published
  <2> QED
    BY <2>1, <2>2 DEF SessionInv
<1>12. CASE Lifecycle
  <2>1. CASE DisableUnsets
    BY <1>3, <1>7, <2>1 DEF DisableUnsets, Goto, SessionInv
  <2>2. CASE DisableStopsTasks \/ DisableFinishes
    BY <1>3, <1>4, <2>2, SessionQuiet DEF DisableStopsTasks, DisableFinishes, Goto, SessionInv
  <2>3. CASE Fault
    <3>1. SelfWrites = {} /\ \A i, j \in SelfWrites' : i = j
      BY <1>1, <1>4, <2>3, SelfWritesKept DEF Fault
    <3>2. writes' = writes => SelfWrites' = {}
      BY <3>1 DEF SelfWrites
    <3>3. UNCHANGED <<pc["disable"], pc["standby"], pc["start"]>>
      BY <1>3, <2>3 DEF Fault, Goto
    <3> QED
      BY <2>3, <3>1, <3>2, <3>3 DEF Fault, SessionInv
  <2>4. CASE Enable \/ StandbyBegins
    BY <1>3, <2>4, SessionQuiet DEF Enable, StandbyBegins, Goto, SessionInv
  <2>5. CASE StandbySettles
    BY <1>1, <1>2, <1>3, <2>5 DEF StandbySettles, SessionInv
  <2>6. CASE StartRestores \/ StartUnmonitored
    BY <1>1, <1>2, <1>3, <2>6 DEF StartRestores, StartUnmonitored, Goto, SessionInv
  <2>7. CASE StartMonitors \/ StartCompletes \/ StartFails
    BY <1>3, <2>7, SessionQuiet DEF StartMonitors, StartCompletes, StartFails, Goto, SessionInv
  <2> QED
    BY <1>12, <2>1, <2>2, <2>3, <2>4, <2>5, <2>6, <2>7 DEF Lifecycle
<1>13. CASE Telemetry
  <2>1. UNCHANGED summary /\ UNCHANGED <<pc["disable"], pc["standby"], pc["start"]>>
    BY <1>3, <1>13
       DEF Telemetry, TelemetryReads, TelemetryHandles, TelemetrySkips, TelemetryFails, Goto
  <2>2. SelfWrites' = SelfWrites
    BY <1>1, <1>2, <1>13, SessionQuiet
       DEF Telemetry, TelemetryReads, TelemetryHandles, TelemetrySkips, TelemetryFails
  <2> QED
    BY <2>1, <2>2 DEF SessionInv
<1>14. CASE SunMoves \/ UNCHANGED vars
  BY <1>5, <1>14, SessionQuiet DEF SunMoves, vars
<1> QED
  BY <1>8, <1>9, <1>10, <1>11, <1>12, <1>13, <1>14 DEF Next

(* Outside STANDBY no command, callback or loop takes the FAULT flag down  *)
(* while a monitored component is in FAULT.                                *)
THEOREM FlagSticks == Spec => FaultFlagSticks
<1> DEFINE Sticks == "FAULT" \in status /\ "FAULT" \notin status' /\ SomeComponentInFault'
                       => summary = "STANDBY"
<1>1. ASSUME NEW s, Valid(s), UNCHANGED componentState, status' = s
      PROVE  Sticks
  BY <1>1 DEF Valid, SomeComponentInFault
<1>2. ASSUME TypeOK, SessionInv, [Next]_vars
      PROVE  [Sticks]_vars
  <2>1. CASE WriteDone \/ Quiet
    BY <2>1 DEF WriteDone, Quiet, published
  <2>2. ASSUME NEW c \in Components, NEW state \in {"ok", "FAULT"}, Report(c, state)
        PROVE  Sticks
    BY <2>2 DEF Report, published, SetStatus, Faulted
  <2>3. ASSUME NEW s \in UserStatuses, UpdateObservatoryStatus(s)
        PROVE  Sticks
    BY <1>1, <2>3 DEF UpdateObservatoryStatus, SetStatus
  <2>4. CASE SomeoneCalls
    <3>1. PICK s : status' = s /\ (Clears(s) => Valid(s) \/ summary = "STANDBY")
      BY <1>2, <2>4 DEF SomeoneCalls, Calls, SetStatus, SessionInv
    <3> QED
      BY <1>1, <2>4, <3>1 DEF SomeoneCalls, Clears
  <2> HIDE DEF Sticks
  <2>5. CASE Next
    BY <1>2, <2>1, <2>2, <2>3, <2>4, <2>5, Callers
  <2> QED
    BY <1>2, <2>5
<1>3. StatusInv => TypeOK
  BY DEF StatusInv
<1> QED
  BY <1>2, <1>3, InitStatusInv, NextStatusInv, InitSession, NextSession, PTL
     DEF Spec, FaultFlagSticks
=============================================================================
