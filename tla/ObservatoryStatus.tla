-------------------------- MODULE ObservatoryStatus --------------------------
(***************************************************************************)
(* The observatory status of the Scheduler CSC: a word of flags that the   *)
(* summary states of the monitored components, the operator, the resume,   *)
(* stop and disable commands, day and night, and the CSC's own fault all   *)
(* write (scheduler_csc.py, python/lsst/ts/scheduler).                     *)
(*                                                                         *)
(* Every write goes through set_observatory_status, which stores the word  *)
(* at once, awaits its publication, and only then moves the event          *)
(* observatory_status_fault_cleared the target loop waits on.  The writes  *)
(* in flight are a queue here: the middleware completes them in the order  *)
(* in which they were started.                                             *)
(***************************************************************************)
EXTENDS Naturals, Sequences

CONSTANTS Components,    \* names of the monitored components
          Self,          \* the name of this CSC
          UserStatuses,  \* the words an operator may ask for
          MaxWrites      \* bound on the writes in flight

Flags == {"DAYTIME", "OPERATIONAL", "WEATHER", "DOWNTIME", "FAULT", "IDLE"}
Unknown == {}

Commands == {"resume", "stop", "disable", "standby", "start", "telemetry"}
Labels == {"idle", "checked", "stopping", "unset", "restored", "configuring",
           "off", "night", "day", "faulting", "ended"}

ASSUME ConstantsAssumption ==
  /\ Self \notin Components
  /\ (Components \cup {Self}) \cap (Commands \cup {"update"}) = {}
  /\ UserStatuses \subseteq SUBSET Flags
  /\ MaxWrites \in Nat \ {0}

VARIABLES summary,        \* summary state of the CSC
          status,         \* evt_observatoryStatus.data.status, as a set of flags
          faultCleared,   \* observatory_status_fault_cleared.is_set()
          writes,         \* set_observatory_status calls awaiting publication
          componentState, \* _components_summary_state
          wereInFault,    \* _components_were_in_fault
          lastStatus,     \* _last_observatory_status (Unknown: none stored)
          monitoring,     \* enable_observatory_status_monitor
          toVisit,        \* components monitor_observatory_status has yet to visit
          subscribed,     \* components whose summaryState callback is set
          isNight,        \* driver.is_night
          runTargetLoop,  \* run_target_loop.is_set()
          pc              \* how far each command, and the telemetry loop, has got

published == <<status, faultCleared, writes, wereInFault>>
vars == <<summary, published, componentState, lastStatus, monitoring, toVisit,
          subscribed, isNight, runTargetLoop, pc>>

Init ==
  /\ summary = "STANDBY"
  /\ status = Unknown
  /\ faultCleared = TRUE
  /\ writes = << >>
  /\ componentState = [c \in Components |-> "unknown"]
  /\ wereInFault = {}
  /\ lastStatus = Unknown
  /\ monitoring = FALSE
  /\ toVisit = {}
  /\ subscribed = {}
  /\ isNight = FALSE
  /\ runTargetLoop = FALSE
  /\ pc = [k \in Commands |-> IF k = "telemetry" THEN "off" ELSE "idle"]

-----------------------------------------------------------------------------
(* The words the methods compute.                                          *)

SomeComponentInFault == \E c \in Components : componentState[c] = "FAULT"

Faulted(s) == (s \ {"OPERATIONAL", "IDLE"}) \cup {"FAULT"}

(* Mistaken: the empty word is not turned into IDLE but into a label.      *)
NotOperationalMislabelled(s) ==
  IF s = {"OPERATIONAL"} THEN {"UNKNOWN"} ELSE s \ {"OPERATIONAL"}

NotOperational(s) ==
  IF s = {"OPERATIONAL"} THEN {"IDLE"} ELSE s \ {"OPERATIONAL"}

AtNight(s) == IF s \subseteq {"DAYTIME"} THEN {"IDLE"} ELSE s \ {"DAYTIME"}

(* Mistaken: the flags of the night are left, or the flag of the day is.   *)
AtDayKeepsOperational(s) == s \cup {"DAYTIME"}
AtDayNotFlagged(s) == s \ {"OPERATIONAL", "IDLE"}

AtDay(s) ==
  IF "DAYTIME" \in s THEN s ELSE (s \ {"OPERATIONAL", "IDLE"}) \cup {"DAYTIME"}

(* Mistaken: the components in FAULT are not looked at.                    *)
ValidWithoutComponents(s) ==
  /\ "OPERATIONAL" \in s => s \cap {"DAYTIME", "FAULT", "DOWNTIME"} = {}
  /\ isNight \/ "DAYTIME" \in s

Valid(s) ==
  /\ SomeComponentInFault => "FAULT" \in s
  /\ "OPERATIONAL" \in s => s \cap {"DAYTIME", "FAULT", "DOWNTIME"} = {}
  /\ isNight \/ "DAYTIME" \in s

Resumed(s) == (s \ {"IDLE", "FAULT"}) \cup {"OPERATIONAL"}

-----------------------------------------------------------------------------
(* set_observatory_status(s), called by `who'.  A word that differs is     *)
(* written, and the caller goes on (the event, then wereInFault, which     *)
(* grows by `blamed') when the write completes.  If the word is the same   *)
(* the note decides whether anything is written.                           *)
SetStatus(s, who, were, blamed) ==
  /\ status' = s
  /\ \/ /\ s = status
        /\ faultCleared' = ("FAULT" \notin s)
        /\ wereInFault' = were \cup blamed
        /\ writes' = writes
     \/ /\ Len(writes) < MaxWrites
        /\ writes' = Append(writes, [fault |-> "FAULT" \in s, by |-> who,
                                     blamed |-> blamed])
        /\ wereInFault' = were
        /\ faultCleared' = faultCleared

Writing(who) == \E i \in DOMAIN writes : writes[i].by = who

Goto(k, label) == pc' = [pc EXCEPT ![k] = label]

(* handle_summary_state starts the telemetry loop on entering DISABLED or  *)
(* ENABLED if there is no task of it; one that has ended is still a task.  *)
LoopStarted(label) == IF label = "off" THEN "idle" ELSE label

(* Mistaken: the event is never cleared; the event is never set.           *)
WriteDoneNeverClears ==
  /\ writes # << >>
  /\ faultCleared' = (faultCleared \/ ~Head(writes).fault)
  /\ wereInFault' = wereInFault \cup Head(writes).blamed
  /\ writes' = Tail(writes)
  /\ summary' = IF Head(writes).by = Self THEN "FAULT" ELSE summary
  /\ UNCHANGED <<status, componentState, lastStatus, monitoring, toVisit,
                 subscribed, isNight, runTargetLoop, pc>>

WriteDoneNeverSets ==
  /\ writes # << >>
  /\ faultCleared' = (faultCleared /\ ~Head(writes).fault)
  /\ wereInFault' = wereInFault \cup Head(writes).blamed
  /\ writes' = Tail(writes)
  /\ summary' = IF Head(writes).by = Self THEN "FAULT" ELSE summary
  /\ UNCHANGED <<status, componentState, lastStatus, monitoring, toVisit,
                 subscribed, isNight, runTargetLoop, pc>>

WriteDone ==
  /\ writes # << >>
  /\ faultCleared' = ~Head(writes).fault
  /\ wereInFault' = wereInFault \cup Head(writes).blamed
  /\ writes' = Tail(writes)
  /\ summary' = IF Head(writes).by = Self THEN "FAULT" ELSE summary
  /\ UNCHANGED <<status, componentState, lastStatus, monitoring, toVisit,
                 subscribed, isNight, runTargetLoop, pc>>

-----------------------------------------------------------------------------
(* _monitor_component_state, with the two methods it calls.                *)
Report(c, state) ==
  /\ componentState' = [componentState EXCEPT ![c] = state]
  /\ IF state = "FAULT"
       THEN SetStatus(Faulted(status), c, wereInFault, {c})
       ELSE IF "FAULT" \in status
              THEN SetStatus(status, c, wereInFault, {})
              ELSE UNCHANGED published

(* The summaryState callback; one topic's callbacks run one at a time.     *)
ComponentReports(c) ==
  /\ c \in subscribed
  /\ ~Writing(c)
  /\ \E state \in {"ok", "FAULT"} : Report(c, state)
  /\ UNCHANGED <<summary, lastStatus, monitoring, toVisit, subscribed, isNight,
                 runTargetLoop, pc>>

(* monitor_observatory_status visits each component: if it has no callback *)
(* yet, take the state it publishes (none within the timeout, perhaps).    *)
MonitorVisits(c) ==
  /\ c \in toVisit
  /\ toVisit' = toVisit \ {c}
  /\ subscribed' = subscribed \cup {c}
  /\ \/ UNCHANGED <<published, componentState>>
     \/ /\ c \notin subscribed
        /\ ~Writing(c)
        /\ \E state \in {"ok", "FAULT"} : Report(c, state)
  /\ UNCHANGED <<summary, lastStatus, monitoring, isNight, runTargetLoop, pc>>

(* Mistaken: every update forgets the components that were in fault.       *)
UpdateForgets(s) ==
  /\ summary = "ENABLED"
  /\ ~Writing("update")
  /\ Valid(s)
  /\ SetStatus(s, "update", {}, {})
  /\ UNCHANGED <<summary, componentState, lastStatus, monitoring, toVisit,
                 subscribed, isNight, runTargetLoop, pc>>

UpdateObservatoryStatus(s) ==
  /\ summary = "ENABLED"
  /\ ~Writing("update")
  /\ Valid(s)
  /\ SetStatus(s, "update",
               IF "FAULT" \in status \ s THEN {} ELSE wereInFault, {})
  /\ UNCHANGED <<summary, componentState, lastStatus, monitoring, toVisit,
                 subscribed, isNight, runTargetLoop, pc>>

-----------------------------------------------------------------------------
ResumeChecks ==
  /\ pc["resume"] = "idle"
  /\ ~Writing("resume")
  /\ summary = "ENABLED"
  /\ ~("FAULT" \in status /\ SomeComponentInFault)
  /\ ~runTargetLoop
  /\ Goto("resume", "checked")
  /\ UNCHANGED <<summary, published, componentState, lastStatus, monitoring,
                 toVisit, subscribed, isNight, runTargetLoop>>

(* After the acknowledgement: the detailed state is not IDLE and the       *)
(* command fails, or the loop is released and the word brought up to date. *)
ResumeFinishes ==
  /\ pc["resume"] = "checked"
  /\ Goto("resume", "idle")
  /\ \/ UNCHANGED <<published, runTargetLoop>>
     \/ /\ runTargetLoop' = TRUE
        /\ IF status \cap {"OPERATIONAL", "DAYTIME"} = {} /\ Valid(Resumed(status))
             THEN SetStatus(Resumed(status), "resume", wereInFault, {})
             ELSE UNCHANGED published
  /\ UNCHANGED <<summary, componentState, lastStatus, monitoring, toVisit,
                 subscribed, isNight>>

StopClears ==
  /\ pc["stop"] = "idle"
  /\ ~Writing("stop")
  /\ summary = "ENABLED"
  /\ runTargetLoop
  /\ runTargetLoop' = FALSE
  /\ Goto("stop", "stopping")
  /\ UNCHANGED <<summary, published, componentState, lastStatus, monitoring,
                 toVisit, subscribed, isNight>>

UnsetOperational(who) ==
  IF "OPERATIONAL" \in status
    THEN SetStatus(NotOperational(status), who, wereInFault, {})
    ELSE UNCHANGED published

StopFinishes ==
  /\ pc["stop"] = "stopping"
  /\ Goto("stop", "idle")
  /\ UnsetOperational("stop")
  /\ UNCHANGED <<summary, componentState, lastStatus, monitoring, toVisit,
                 subscribed, isNight, runTargetLoop>>

DisableUnsets ==
  /\ pc["disable"] = "idle"
  /\ summary = "ENABLED"
  /\ Goto("disable", "unset")
  /\ UnsetOperational("disable")
  /\ UNCHANGED <<summary, componentState, lastStatus, monitoring, toVisit,
                 subscribed, isNight, runTargetLoop>>

DisableStopsTasks ==
  /\ pc["disable"] = "unset"
  /\ ~Writing("disable")
  /\ runTargetLoop' = FALSE
  /\ Goto("disable", "stopping")
  /\ UNCHANGED <<summary, published, componentState, lastStatus, monitoring,
                 toVisit, subscribed, isNight>>

(* The background tasks are awaited, one that is going to FAULT included,  *)
(* and then dropped; a new telemetry loop is started.                      *)
DisableFinishes ==
  /\ pc["disable"] = "stopping"
  /\ ~Writing(Self)
  /\ ~Writing("telemetry")
  /\ summary' = "DISABLED"
  /\ pc' = [pc EXCEPT !["disable"] = "idle", !["telemetry"] = "idle"]
  /\ UNCHANGED <<published, componentState, lastStatus, monitoring, toVisit,
                 subscribed, isNight, runTargetLoop>>

(* fault(), called by the target loop, or by the telemetry loop, which     *)
(* then returns.                                                           *)
Fault ==
  /\ summary = "ENABLED"
  /\ ~Writing(Self)
  /\ SetStatus(Faulted(status), Self, wereInFault, {Self})
  /\ summary' = IF writes' = writes THEN "FAULT" ELSE summary
  /\ \/ pc' = pc
     \/ pc["telemetry"] = "faulting" /\ Goto("telemetry", "ended")
  /\ UNCHANGED <<componentState, lastStatus, monitoring, toVisit, subscribed,
                 isNight, runTargetLoop>>

Enable ==
  /\ summary = "DISABLED"
  /\ summary' = "ENABLED"
  /\ runTargetLoop' = FALSE
  /\ Goto("telemetry", LoopStarted(pc["telemetry"]))
  /\ UNCHANGED <<published, componentState, lastStatus, monitoring, toVisit,
                 subscribed, isNight>>

-----------------------------------------------------------------------------
(* handle_summary_state on entering STANDBY: monitoring is off and the     *)
(* loop stopped before the background tasks are awaited, the rest after.   *)
StandbyBegins ==
  /\ summary \in {"DISABLED", "FAULT"}
  /\ pc["disable"] = "idle"
  /\ summary' = "STANDBY"
  /\ monitoring' = FALSE
  /\ runTargetLoop' = FALSE
  /\ Goto("standby", "stopping")
  /\ UNCHANGED <<published, componentState, lastStatus, toVisit, subscribed,
                 isNight>>

StandbySettles ==
  /\ pc["standby"] = "stopping"
  /\ ~Writing("telemetry")
  /\ subscribed' = {}
  /\ lastStatus' = IF status = Unknown THEN lastStatus ELSE status
  /\ SetStatus(Unknown, "standby", wereInFault, {})
  /\ pc' = [pc EXCEPT !["standby"] = "idle", !["telemetry"] = "off"]
  /\ UNCHANGED <<summary, componentState, monitoring, toVisit, isNight,
                 runTargetLoop>>

(* configure, up to the restored (or UNKNOWN) status.  The operator sends  *)
(* start once the standby command has been acknowledged.                   *)
StartRestores ==
  /\ summary = "STANDBY"
  /\ pc["start"] = "idle"
  /\ pc["standby"] = "idle"
  /\ ~Writing("standby")
  /\ SetStatus(lastStatus, "start", wereInFault, {})
  /\ Goto("start", "restored")
  /\ UNCHANGED <<summary, componentState, lastStatus, monitoring, toVisit,
                 subscribed, isNight, runTargetLoop>>

(* Then a new task to monitor the components, in place of the old one.     *)
StartMonitors ==
  /\ pc["start"] = "restored"
  /\ ~Writing("start")
  /\ monitoring' = TRUE
  /\ toVisit' = Components
  /\ Goto("start", "configuring")
  /\ UNCHANGED <<summary, published, componentState, lastStatus, subscribed,
                 isNight, runTargetLoop>>

StartCompletes ==
  /\ pc["start"] = "configuring"
  /\ summary' = "DISABLED"
  /\ pc' = [pc EXCEPT !["start"] = "idle", !["telemetry"] = LoopStarted(@)]
  /\ UNCHANGED <<published, componentState, lastStatus, monitoring, toVisit,
                 subscribed, isNight, runTargetLoop>>

(* The models or the blocks cannot be configured: the command is rejected. *)
StartFails ==
  /\ pc["start"] = "configuring"
  /\ Goto("start", "idle")
  /\ UNCHANGED <<summary, published, componentState, lastStatus, monitoring,
                 toVisit, subscribed, isNight, runTargetLoop>>

(* configure with observatory_status.enable false.                         *)
StartUnmonitored ==
  /\ summary = "STANDBY"
  /\ pc["start"] = "idle"
  /\ pc["standby"] = "idle"
  /\ ~Writing("standby")
  /\ monitoring' = FALSE
  /\ SetStatus(Unknown, "start", wereInFault, {})
  /\ Goto("start", "configuring")
  /\ UNCHANGED <<summary, componentState, lastStatus, toVisit, subscribed,
                 isNight, runTargetLoop>>

-----------------------------------------------------------------------------
(* _publish_general_info reads isNight, awaits the generalInfo event, and  *)
(* then handles the night or the day it read.                              *)
TelemetryReads ==
  /\ pc["telemetry"] = "idle"
  /\ ~Writing("telemetry")
  /\ Goto("telemetry", IF isNight THEN "night" ELSE "day")
  /\ UNCHANGED <<summary, published, componentState, lastStatus, monitoring,
                 toVisit, subscribed, isNight, runTargetLoop>>

TelemetryHandles ==
  /\ pc["telemetry"] \in {"night", "day"}
  /\ LET s == IF pc["telemetry"] = "night" THEN AtNight(status) ELSE AtDay(status)
     IN  IF monitoring /\ s # status
           THEN SetStatus(s, "telemetry", wereInFault, {})
           ELSE UNCHANGED published
  /\ Goto("telemetry", "idle")
  /\ UNCHANGED <<summary, componentState, lastStatus, monitoring, toVisit,
                 subscribed, isNight, runTargetLoop>>

(* The general info takes too long or raises, and the cycle goes without.  *)
TelemetrySkips ==
  /\ pc["telemetry"] \in {"night", "day"}
  /\ Goto("telemetry", "idle")
  /\ UNCHANGED <<summary, published, componentState, lastStatus, monitoring,
                 toVisit, subscribed, isNight, runTargetLoop>>

(* The observatory state cannot be updated: get_queue raises, and the loop *)
(* ends with it, or the CSC, if it is running, is to be sent to FAULT.     *)
TelemetryFails ==
  /\ pc["telemetry"] = "idle"
  /\ ~Writing("telemetry")
  /\ \/ Goto("telemetry", "ended")
     \/ /\ summary = "ENABLED"
        /\ runTargetLoop
        /\ faultCleared
        /\ Goto("telemetry", "faulting")
  /\ UNCHANGED <<summary, published, componentState, lastStatus, monitoring,
                 toVisit, subscribed, isNight, runTargetLoop>>

(* The driver updates its conditions.                                      *)
SunMoves ==
  /\ isNight' = ~isNight
  /\ UNCHANGED <<summary, published, componentState, lastStatus, monitoring,
                 toVisit, subscribed, runTargetLoop, pc>>

-----------------------------------------------------------------------------
Monitor == \E c \in Components : ComponentReports(c) \/ MonitorVisits(c)

Operator == \E s \in UserStatuses : UpdateObservatoryStatus(s)

Loop == ResumeChecks \/ ResumeFinishes \/ StopClears \/ StopFinishes

Lifecycle ==
  \/ DisableUnsets \/ DisableStopsTasks \/ DisableFinishes
  \/ Fault \/ Enable \/ StandbyBegins \/ StandbySettles
  \/ StartRestores \/ StartMonitors \/ StartCompletes \/ StartFails
  \/ StartUnmonitored

Telemetry == TelemetryReads \/ TelemetryHandles \/ TelemetrySkips \/ TelemetryFails

Next == WriteDone \/ Monitor \/ Operator \/ Loop \/ Lifecycle \/ Telemetry \/ SunMoves

(* A write that was started completes.  Nothing is assumed of the          *)
(* telemetry loop, which may end, or miss its general info in every cycle. *)
Fairness == WF_vars(WriteDone)

Spec == Init /\ [][Next]_vars /\ Fairness

-----------------------------------------------------------------------------
WriteType == [fault : BOOLEAN, by : Components \cup Commands \cup {Self, "update"},
              blamed : SUBSET (Components \cup {Self})]

(* Every variable has its type; the words hold known flags only.           *)
TypeOK ==
  /\ summary \in {"STANDBY", "DISABLED", "ENABLED", "FAULT"}
  /\ status \in SUBSET Flags
  /\ faultCleared \in BOOLEAN
  /\ writes \in Seq(WriteType)
  /\ componentState \in [Components -> {"unknown", "ok", "FAULT"}]
  /\ wereInFault \in SUBSET (Components \cup {Self})
  /\ lastStatus \in SUBSET Flags
  /\ monitoring \in BOOLEAN
  /\ toVisit \in SUBSET Components
  /\ subscribed \in SUBSET Components
  /\ isNight \in BOOLEAN
  /\ runTargetLoop \in BOOLEAN
  /\ pc \in [Commands -> Labels]

(* The combinations validate_observatory_status rejects from an operator   *)
(* are never published by any other writer either, nor restored from an    *)
(* earlier session: OPERATIONAL excludes DAYTIME, FAULT and DOWNTIME.      *)
Consistent(s) ==
  "OPERATIONAL" \in s => s \cap {"DAYTIME", "FAULT", "DOWNTIME"} = {}

NoOperationalConflict == Consistent(status)

(* observatory_status_fault_cleared is moved only after the write of the   *)
(* word has been awaited; however many calls of set_observatory_status     *)
(* overlap, it agrees with the FAULT flag once none is in flight, so the   *)
(* target loop is paused exactly when the flag is up.                      *)
EventFollowsStatus ==
  writes = << >> => (faultCleared <=> "FAULT" \notin status)

(* A component in FAULT is in the list the status note is made from as     *)
(* soon as its callback has returned, whatever resets that list meanwhile. *)
InFaultIsListed ==
  \A c \in Components :
    componentState[c] = "FAULT" /\ ~Writing(c) => c \in wereInFault

(* Outside STANDBY no command, callback or loop takes the FAULT flag down  *)
(* while a monitored component is in FAULT.                                *)
FaultFlagSticks ==
  [][ "FAULT" \in status /\ "FAULT" \notin status' /\ SomeComponentInFault'
        => summary = "STANDBY" ]_vars

(* The target loop waits on the event, not on the flag: once the flag is   *)
(* down the event comes up, unless the flag is raised again first.         *)
ClearedFlagIsSignalled ==
  "FAULT" \notin status ~> faultCleared \/ "FAULT" \in status

(* If it stays day, the status stays monitored and the telemetry loop goes *)
(* on completing cycles, DAYTIME comes to stay, though a cycle that began  *)
(* at night may still take it down.                                        *)
DayIsFlagged ==
  /\ <>[](monitoring /\ ~isNight /\ summary # "STANDBY")
  /\ []<><<TelemetryHandles>>_vars
  => <>[]("DAYTIME" \in status)

-----------------------------------------------------------------------------
(* What the repository says of the status and the code does not do.        *)

(* "Unset the OPERATIONAL flag automatically if the Scheduler CSC is       *)
(* disabled or stopped."                                                   *)
DisabledNotOperational == summary = "DISABLED" => "OPERATIONAL" \notin status

(* "if input status clears the fault flags but there are systems still in  *)
(* fault and, as such, flag cannot be cleared": while the status is        *)
(* monitored, the flag is up whenever a component is in FAULT.             *)
FaultFlagHeld ==
  summary \in {"DISABLED", "ENABLED"} /\ monitoring /\ SomeComponentInFault
    => "FAULT" \in status
=============================================================================
