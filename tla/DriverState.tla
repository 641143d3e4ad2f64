------------------------------ MODULE DriverState ------------------------------
(***************************************************************************)
(* What the Scheduler CSC does to the state of its driver: targets are     *)
(* selected and registered ahead of their observation, snapshots of the    *)
(* driver are written to files, a failed target takes the driver back to   *)
(* the snapshot it was selected from, predictions play the driver forward  *)
(* and take it back, and load replaces it (scheduler_csc.py, model.py and  *)
(* the drivers).                                                           *)
(*                                                                         *)
(* A step is what happens between two awaits; selecting a target and       *)
(* loading a snapshot are calls to an executor thread.  target_loop_lock   *)
(* is a plain mutex here and the detailed state is the session that took   *)
(* the CSC out of IDLE: TargetLoop has both in full, with the fairness.    *)
(* The targets of addBlock carry no snapshot and are left out.             *)
(***************************************************************************)
EXTENDS Naturals, Sequences, FiniteSets, SequencesExt

CONSTANTS Targets,     \* what the algorithm may be asked to observe
          Late,        \* the targets that only a loaded list brings
          CwfsTargets, \* those so far away that wavefront sensing may come first
          NTargets,    \* parameters.n_targets
          Algorithms,  \* a subset of {"feature", "sequential"}
          Modes,       \* a subset of {"ADVANCE", "SIMPLE"}
          None,        \* no target
          MaxLoads,    \* bound on the load commands
          MaxFiles     \* bound on the snapshot files in use at once

ASSUME DriverStateAssumption ==
  /\ Late \subseteq Targets /\ CwfsTargets \subseteq Targets
  /\ Algorithms \subseteq {"feature", "sequential"}
  /\ Modes \subseteq {"ADVANCE", "SIMPLE"}
  /\ {NTargets, MaxLoads, MaxFiles} \subseteq Nat
  /\ MaxFiles > 2 * Cardinality(Targets)
  /\ None \notin Targets \cup {"loop", "check"}

NoFile == 0
Files == 1..MaxFiles

(* A target, or the wavefront sensing that goes before it.                 *)
Items == [of : Targets, cwfs : BOOLEAN]
Observation(t) == [of |-> t, cwfs |-> FALSE]
Cwfs(t) == [of |-> t, cwfs |-> TRUE]

(* A DriverTarget: what to observe, and the scheduler state filename.      *)
Planned == [item : Items, file : Files \cup {NoFile}]

ASSUME NoneAssumption == None \notin Items \cup Planned

VARIABLES algorithm,   \* class of the driver
          mode,        \* parameters.mode
          driver,      \* what a snapshot holds: see Snapshots
          desired,     \* _desired_obs of the feature scheduler
          enabled,     \* summary state is ENABLED
          runSet,      \* run_target_loop.is_set()
          session,     \* who took the detailed state out of IDLE
          tlock,       \* holder of target_loop_lock
          pc,          \* where each coroutine is
          queue,       \* targets_queue
          scheduled,   \* model.scheduled_targets
          inHand,      \* the target being put on the ScriptQueue
          failing,     \* scheduled_targets_info.failed
          disk,        \* the snapshot files
          kept,        \* file of the current_scheduler_state that is open
          selected,    \* what select_next_target has returned
          turn,        \* n of generate_target_queue, while it runs
          needQueue,   \* targets_queue_condition is done, with None
          needPredict, \* _should_compute_predicted_schedule
          stray,       \* a selection that outlives its loop: what it asked for
          loads,       \* load commands so far
          issued,      \* ghost: the items ever put on targets_queue
          secured      \* ghost: the last load made with nothing under way

fixed == <<algorithm, mode>>
csc == <<enabled, runSet, session>>
plans == <<queue, scheduled, inHand, failing>>
store == <<disk, kept>>
flags == <<needQueue, needPredict>>
ghosts == <<loads, issued, secured>>
vars == <<fixed, stray, driver, desired, csc, tlock, pc, plans, store, selected, turn, flags,
          ghosts>>

Procs == {"loop", "check", "stop", "predict", "load"}
Labels == {"off", "asked", "top", "generating", "selecting", "registering", "handling",
           "estimating", "guessing", "estimated", "checking", "rolling", "deciding",
           "queueing", "predicting", "playing", "failed"}

(* The pickled scheduler, or list: the targets it may still select, the    *)
(* items it counts as observed, and the last load it goes back to.         *)
Snapshots == [waiting : SUBSET Targets, counted : SUBSET Items, loaded : 0..MaxLoads]

Init ==
  /\ algorithm \in Algorithms /\ mode \in Modes
  /\ driver = [waiting |-> Targets \ Late, counted |-> {}, loaded |-> 0]
  /\ desired = None
  /\ enabled = FALSE /\ runSet = FALSE /\ session = "idle"
  /\ tlock = None
  /\ pc = [p \in Procs |-> "off"]
  /\ queue = << >> /\ scheduled = << >> /\ inHand = None /\ failing = << >>
  /\ disk = << >> /\ kept = NoFile
  /\ selected = None
  /\ turn = 0
  /\ needQueue = TRUE /\ needPredict = FALSE
  /\ stray = None
  /\ loads = 0 /\ issued = {} /\ secured = 0

At(p, l) == pc[p] = l
Goto(p, l) == pc' = [pc EXCEPT ![p] = l]

(***************************************************************************)
(* Snapshot files.                                                         *)
(***************************************************************************)
ItemsOf(s) == {s[i].item : i \in DOMAIN s}
FilesOf(s) == {s[i].file : i \in DOMAIN s} \ {NoFile}
InUse == queue \o scheduled \o failing \o (IF inHand = None THEN << >> ELSE <<inHand>>)
Referenced == FilesOf(InUse) \cup ({kept} \ {NoFile})

(* The files that exist after a step, when what refers to them is known.   *)
(* One that nothing refers to any more stays where it is and is left out.  *)
Stores(files) == disk' = Restrict(files, DOMAIN files \cap Referenced')

(* Mutant: the snapshots of the whole queue go with them.                  *)
WithoutQueue(targets) == Restrict(disk, DOMAIN disk \ FilesOf(targets \o queue))

(* remove_scheduler_state, for each of the targets.                        *)
Without(targets) == Restrict(disk, DOMAIN disk \ FilesOf(targets))

(* save_scheduler_state, on entry to current_scheduler_state.              *)
(* Files are never short (MaxFiles).                                       *)
Saves ==
  LET f == CHOOSE f \in Files \ DOMAIN disk : \A g \in Files \ DOMAIN disk : f <= g IN
    /\ Files \ DOMAIN disk # {}
    /\ kept' = f
    /\ disk' = [g \in DOMAIN disk \cup {f} |-> IF g = f THEN driver ELSE disk[g]]

(* The exit of current_scheduler_state with reset_state: what the snapshot *)
(* does not hold is not restored.                                          *)
Restores ==
  /\ driver' = disk[kept]
  /\ kept' = NoFile
  /\ Stores(disk)

(***************************************************************************)
(* The driver.                                                             *)
(***************************************************************************)
Offered == IF desired # None THEN {desired} ELSE driver.waiting

(* No target, or one the telescope cannot slew to: flush_queue makes the   *)
(* queue of the algorithm anew.                                            *)
SelectsNone ==
  /\ selected' = None
  /\ desired' = None
  /\ driver' = [driver EXCEPT !.waiting = @ \cup ({desired} \ {None})]

SelectsTarget(t) ==
  /\ selected' = Observation(t)
  /\ desired' = None
  /\ driver' = [driver EXCEPT !.waiting = @ \ {t}]

(* Far from where the observatory model points: wavefront sensing goes     *)
(* first, if it is possible there, and the target is kept for the next     *)
(* selection.  After it the observatory model points there.                *)
SelectsCwfs(t) ==
  /\ algorithm = "feature"
  /\ t \in CwfsTargets
  /\ Cwfs(t) \notin driver.counted \cup ItemsOf(InUse)
  /\ selected' \in {Cwfs(t), None}
  /\ desired' = t
  /\ driver' = [driver EXCEPT !.waiting = @ \ {t}]

Selects == SelectsNone \/ \E t \in Offered : SelectsTarget(t) \/ SelectsCwfs(t)

(* register_observed_target: the sequential driver takes no notice.        *)
Registered(d, items) ==
  IF algorithm = "feature" THEN [d EXCEPT !.counted = @ \cup items] ELSE d

(***************************************************************************)
(* load.  The guard is checked before the acknowledgement and before the   *)
(* file is fetched.  A snapshot replaces the scheduler, a list is appended.*)
(***************************************************************************)
LoadAsks ==
  /\ At("load", "off") /\ loads < MaxLoads
  /\ enabled /\ ~runSet
  /\ Goto("load", "asked")
  /\ UNCHANGED <<fixed, stray, driver, desired, csc, tlock, plans, store, selected, turn,
                 flags, ghosts>>

LoadFails ==
  /\ At("load", "asked")
  /\ Goto("load", "off")
  /\ UNCHANGED <<fixed, stray, driver, desired, csc, tlock, plans, store, selected, turn,
                 flags, ghosts>>

NothingUnderWay ==
  ~runSet /\ session = "idle" /\ tlock = None /\ At("stop", "off") /\ kept = NoFile

(* What was selected before: if a loaded snapshot or list asks for it once *)
(* more that is another observation of the same field, another target.     *)
Spent == {i.of : i \in issued \cup ({selected} \ {None})} \cup ({desired} \ {None})

Loads ==
  /\ At("load", "asked")
  /\ loads' = loads + 1
  /\ driver' = IF algorithm = "feature"
                 THEN [waiting |-> Targets \ Spent, counted |-> {}, loaded |-> loads']
                 ELSE [driver EXCEPT !.waiting = @ \cup (Late \ Spent),
                                     !.loaded = loads']
  /\ secured' = IF NothingUnderWay THEN loads' ELSE secured
  /\ Goto("load", "off")
  /\ UNCHANGED <<fixed, stray, desired, csc, tlock, plans, store, selected, turn, flags,
                 issued>>

(***************************************************************************)
(* Playing the driver forward: generate_targets_in_time_window, for the    *)
(* command, for the loop's predicted schedule and for the estimate of the  *)
(* next target.  At its end, however it ends, the driver is taken back.    *)
(***************************************************************************)
Plays(p, from, to) ==
  /\ At(p, from)
  /\ Selects
  /\ Goto(p, to)
  /\ UNCHANGED <<fixed, stray, csc, tlock, plans, store, turn, flags, ghosts>>

RegistersPlayed(p, from, to) ==
  /\ At(p, from)
  /\ driver' = Registered(driver, {selected} \ {None})
  /\ selected' = None
  /\ Goto(p, to)
  /\ UNCHANGED <<fixed, stray, desired, csc, tlock, plans, store, turn, flags, ghosts>>

PredictBegins ==
  /\ At("predict", "off")
  /\ enabled /\ ~runSet /\ session = "idle"
  /\ session' = "predicting"
  /\ Saves
  /\ Goto("predict", "predicting")
  /\ needPredict' = FALSE
  /\ UNCHANGED <<fixed, stray, driver, desired, enabled, runSet, tlock, plans, selected,
                 turn, needQueue, ghosts>>

PredictEnds ==
  /\ At("predict", "predicting")
  /\ session' = "idle"
  /\ Goto("predict", "off")
  /\ UNCHANGED <<fixed, stray, desired, enabled, runSet, tlock, plans, selected, turn,
                 flags, ghosts>>
  /\ Restores

(***************************************************************************)
(* resume, stop, and the loop as they start and end it.                    *)
(***************************************************************************)
(* Enabling the CSC starts a loop; there is none left of the last time.    *)
Enables ==
  /\ ~enabled
  /\ \A p \in {"loop", "stop", "predict"} : At(p, "off")
  /\ enabled' = TRUE
  /\ runSet' = FALSE
  /\ Goto("loop", "top")
  /\ queue' = << >> /\ scheduled' = << >>
  /\ needQueue' = TRUE /\ needPredict' = FALSE
  /\ UNCHANGED <<fixed, stray, driver, desired, session, tlock, inHand, failing, kept,
                 selected, turn, ghosts>>
  /\ Stores(disk)

Resumes ==
  /\ enabled /\ ~runSet /\ session = "idle" /\ tlock = None
  /\ runSet' = TRUE
  /\ session' = "running"
  /\ UNCHANGED <<fixed, stray, driver, desired, enabled, tlock, pc, plans, store,
                 selected, turn, flags, ghosts>>

StopAsks ==
  /\ At("stop", "off") /\ enabled /\ runSet
  /\ runSet' = FALSE
  /\ Goto("stop", "asked")
  /\ UNCHANGED <<fixed, stray, driver, desired, enabled, session, tlock, plans, store,
                 selected, turn, flags, ghosts>>

(* Mutant: the scheduled targets are followed beyond the stop.             *)
StopKeepsScheduled ==
  /\ At("stop", "asked") /\ tlock = None
  /\ queue' = << >> /\ scheduled' = scheduled
  /\ session' = "idle"
  /\ Goto("stop", "off")
  /\ UNCHANGED <<fixed, stray, driver, desired, enabled, runSet, tlock, inHand, failing,
                 kept, selected, turn, flags, ghosts>>
  /\ Stores(disk)

(* Targets are dropped as they are: the driver goes on counting them.      *)
StopCleansUp ==
  /\ At("stop", "asked") /\ tlock = None
  /\ queue' = << >> /\ scheduled' = << >>
  /\ session' = "idle"
  /\ Goto("stop", "off")
  /\ UNCHANGED <<fixed, stray, driver, desired, enabled, runSet, tlock, inHand, failing,
                 kept, selected, turn, flags, ghosts>>
  /\ Stores(disk)

(* stop outlasts loop_die_timeout: the loop is cancelled wherever it is,   *)
(* which leaves its current_scheduler_state, and a new one started.        *)
Resetting == pc["loop"] \in {"predicting", "playing", "estimating", "guessing", "estimated"}

(* Where the loop may be waiting for the executor to select a target.      *)
Selecting == \/ pc["loop"] \in {"selecting", "predicting", "estimating"}
             \/ At("loop", "deciding") /\ mode = "SIMPLE"

(* A selection the executor has begun goes on without the loop: it may     *)
(* have asked the algorithm before the driver is taken back.  One at a     *)
(* time is followed (bounded).                                             *)
LeavesBehind == IF Selecting THEN {"asking"} \cup (IF Resetting THEN Offered ELSE {}) ELSE {}

StopKills ==
  /\ At("stop", "asked") /\ ~At("loop", "off")
  /\ driver' = IF Resetting THEN disk[kept] ELSE driver
  /\ kept' = NoFile
  /\ tlock' = IF tlock = "loop" THEN None ELSE tlock
  /\ queue' = << >> /\ scheduled' = << >> /\ inHand' = None
  /\ failing' = IF tlock = "loop" THEN << >> ELSE failing
  /\ selected' = None /\ turn' = 0
  /\ session' = "idle"
  /\ needQueue' = TRUE /\ needPredict' = FALSE
  /\ pc' = [pc EXCEPT !["stop"] = "off", !["loop"] = "top"]
  /\ stray' \in {stray} \cup LeavesBehind
  /\ UNCHANGED <<fixed, desired, enabled, runSet, ghosts>>
  /\ Stores(disk)

(* The selection left behind: what it asks the algorithm for is no longer  *)
(* on offer,                                                               *)
StrayAsks ==
  /\ stray = "asking"
  /\ \/ desired = None /\ stray' = None /\ UNCHANGED driver
     \/ \E t \in Offered : /\ stray' = t
                           /\ driver' = [driver EXCEPT !.waiting = @ \ {t}]
  /\ UNCHANGED <<fixed, desired, csc, tlock, pc, plans, store, selected, turn, flags,
                 ghosts>>

Taken == {i.of : i \in ItemsOf(InUse) \cup ({selected} \ {None})}

(* and what it returns is lost, unless the target is kept for after the    *)
(* wavefront sensing.  A field that is in use by then is another target    *)
(* when it is selected once more, as with a load.                          *)
StrayEnds ==
  /\ stray \in Targets
  /\ stray' = None
  /\ \/ desired' = None /\ driver' \in {driver, [driver EXCEPT !.waiting = @ \cup ({stray} \ Taken)]}
     \/ /\ algorithm = "feature" /\ stray \in CwfsTargets
        /\ desired' \in {stray} \ Taken /\ UNCHANGED driver
  /\ UNCHANGED <<fixed, csc, tlock, pc, plans, store, selected, turn, flags, ghosts>>

(* The loop goes to FAULT: what is queued stays until the next loop starts.*)
Faults ==
  /\ At("loop", "failed")
  /\ enabled' = FALSE
  /\ session' = "idle"
  /\ scheduled' = << >>
  /\ pc' = [pc EXCEPT !["loop"] = "off", !["stop"] = "off"]
  /\ UNCHANGED <<fixed, stray, driver, desired, runSet, tlock, queue, inHand, failing,
                 kept, selected, turn, flags, ghosts>>
  /\ Stores(disk)

(***************************************************************************)
(* A turn of the loop, and generate_target_queue.                          *)
(***************************************************************************)
LoopTurns ==
  /\ At("loop", "top") /\ runSet /\ tlock = None
  /\ tlock' = "loop"
  /\ Goto("loop", IF mode = "ADVANCE" /\ needQueue THEN "generating" ELSE "checking")
  /\ UNCHANGED <<fixed, stray, driver, desired, csc, plans, store, selected, turn, flags,
                 ghosts>>

(* What the loop raises leaves target_loop_lock.                           *)
LoopRaises ==
  /\ tlock' = None
  /\ Goto("loop", "failed")

(* Telemetry, conditions or the driver raise.                              *)
GenerateFails ==
  /\ pc["loop"] \in {"generating", "selecting"}
  /\ LoopRaises
  /\ kept' = NoFile /\ turn' = 0
  /\ UNCHANGED <<fixed, stray, driver, desired, csc, plans, selected, flags, ghosts>>
  /\ Stores(disk)

GenerateSaves ==
  /\ At("loop", "generating")
  /\ Saves
  /\ Goto("loop", "selecting")
  /\ UNCHANGED <<fixed, stray, driver, desired, csc, tlock, plans, selected, turn, flags,
                 ghosts>>

GenerateSelects ==
  /\ At("loop", "selecting")
  /\ Selects
  /\ Goto("loop", "registering")
  /\ UNCHANGED <<fixed, stray, csc, tlock, plans, store, turn, flags, ghosts>>

(* After each selection: enough targets, none at all, or another.          *)
AfterGenerating ==
  IF Len(queue') > NTargets + 1 THEN "checking"
  ELSE IF queue' = << >> /\ scheduled = << >> THEN "handling"
  ELSE IF turn < NTargets THEN "generating"
  ELSE "checking"

(* Mutant: the absence of a target is put on the queue.                    *)
RegistersNothing ==
  /\ At("loop", "registering")
  /\ driver' = Registered(driver, {selected} \ {None})
  /\ queue' = Append(queue, [item |-> selected, file |-> kept])
  /\ issued' = issued \cup {selected}
  /\ needPredict' = (needPredict \/ queue' # << >>)
  /\ needQueue' = (queue' = << >>)
  /\ selected' = None
  /\ kept' = NoFile
  /\ Goto("loop", AfterGenerating)
  /\ turn' = IF AfterGenerating = "generating" THEN turn + 1 ELSE 0
  /\ UNCHANGED <<fixed, stray, desired, csc, tlock, scheduled, inHand, failing, loads,
                 secured>>
  /\ Stores(disk)

GenerateRegisters ==
  /\ At("loop", "registering")
  /\ IF selected = None
       THEN UNCHANGED <<driver, queue, issued>>
       ELSE /\ driver' = Registered(driver, {selected})
            /\ queue' = Append(queue, [item |-> selected, file |-> kept])
            /\ issued' = issued \cup {selected}
  /\ needPredict' = (needPredict \/ queue' # << >>)
  /\ needQueue' = (queue' = << >>)
  /\ selected' = None
  /\ kept' = NoFile
  /\ Goto("loop", AfterGenerating)
  /\ turn' = IF AfterGenerating = "generating" THEN turn + 1 ELSE 0
  /\ UNCHANGED <<fixed, stray, desired, csc, tlock, scheduled, inHand, failing, loads,
                 secured>>
  /\ Stores(disk)

(* handle_no_targets_on_queue: the time to the next target is estimated,   *)
(* unless it was and its timer runs.                                       *)
EstimateBegins ==
  /\ At("loop", "handling")
  /\ Saves
  /\ pc' \in {[pc EXCEPT !["loop"] = l] : l \in {"estimating", "estimated"}}
  /\ UNCHANGED <<fixed, stray, driver, desired, csc, tlock, plans, selected, turn, flags,
                 ghosts>>

(* The window goes on until there is a target, or ends: UnableToFindTarget.*)
EstimateRegisters ==
  RegistersPlayed("loop", "guessing", IF selected = None THEN "estimating" ELSE "estimated")

EstimateEnds ==
  /\ pc["loop"] \in {"estimating", "estimated"}
  /\ IF At("loop", "estimated") THEN Goto("loop", "checking") /\ UNCHANGED tlock
                                ELSE LoopRaises
  /\ UNCHANGED <<fixed, stray, desired, csc, plans, selected, turn, flags, ghosts>>
  /\ Restores

(***************************************************************************)
(* check_scheduled_targets, from the loop or from the task that a script   *)
(* event starts, under target_loop_lock.                                   *)
(***************************************************************************)
AfterCheck(p) == IF p = "loop" THEN "deciding" ELSE "off"

(* The elements of s at the indices, in their order.                       *)
Only(s, indices) ==
    [j \in 1..Cardinality(indices) |->
       s[CHOOSE i \in indices : Cardinality({k \in indices : k <= i}) = j]]

(* Those whose scripts are done are registered once more, and for good.    *)
Checks(p) ==
  /\ \/ p = "loop" /\ At(p, "checking")
     \/ p = "check" /\ At(p, "off") /\ tlock = None /\ scheduled # << >>
  /\ \E done \in SUBSET DOMAIN scheduled : \E failed \in SUBSET (DOMAIN scheduled \ done) :
       LET observed == Only(scheduled, done) IN
         /\ driver' = Registered(driver, ItemsOf(observed))
         /\ failing' = Only(scheduled, failed)
         /\ scheduled' = Only(scheduled, DOMAIN scheduled \ (done \cup failed))
         /\ UNCHANGED <<fixed, stray, desired, csc, queue, inHand, kept, selected, turn,
                        flags, ghosts>>
         /\ Stores(Without(observed))
  /\ Goto(p, IF failing' = << >> THEN AfterCheck(p) ELSE "rolling")
  /\ tlock' = IF p = "check" /\ failing' # << >> THEN p ELSE tlock

ReleasesAfterCheck(p) == tlock' = IF p = "check" THEN None ELSE tlock

(* Which of the failed targets have a snapshot.                            *)
Snapshotted == {i \in DOMAIN failing : failing[i].file # NoFile}

(* Mutants: back to where the last of the failed targets came from; what   *)
(* is queued is kept.                                                      *)
RollsBackLast(p) ==
  /\ At(p, "rolling")
  /\ driver' = IF Snapshotted = {} THEN driver ELSE disk[failing[Max(Snapshotted)].file]
  /\ queue' = << >> /\ scheduled' = << >> /\ failing' = << >>
  /\ ReleasesAfterCheck(p)
  /\ Goto(p, AfterCheck(p))
  /\ UNCHANGED <<fixed, stray, desired, csc, inHand, kept, selected, turn, flags, ghosts>>
  /\ Stores(Without(queue \o failing))

RollsBackQueued(p) ==
  /\ At(p, "rolling")
  /\ driver' = IF Snapshotted = {} THEN driver ELSE disk[failing[Min(Snapshotted)].file]
  /\ queue' = queue /\ scheduled' = << >> /\ failing' = << >>
  /\ ReleasesAfterCheck(p)
  /\ Goto(p, AfterCheck(p))
  /\ UNCHANGED <<fixed, stray, desired, csc, inHand, kept, selected, turn, flags, ghosts>>
  /\ Stores(Without(failing))

(* What is queued or scheduled is dropped, and the driver goes back to the *)
(* snapshot of the first failed target that has one.                       *)
RollsBack(p) ==
  /\ At(p, "rolling")
  /\ driver' = IF Snapshotted = {} THEN driver ELSE disk[failing[Min(Snapshotted)].file]
  /\ queue' = << >> /\ scheduled' = << >> /\ failing' = << >>
  /\ ReleasesAfterCheck(p)
  /\ Goto(p, AfterCheck(p))
  /\ UNCHANGED <<fixed, stray, desired, csc, inHand, kept, selected, turn, flags, ghosts>>
  /\ Stores(Without(queue \o failing))

(* The ScriptQueue refuses to stop the scripts of the failed targets: the  *)
(* driver is not taken back.                                               *)
RollBackFails(p) ==
  /\ At(p, "rolling")
  /\ queue' = << >> /\ failing' = << >>
  /\ IF p = "loop" THEN LoopRaises ELSE tlock' = None /\ Goto(p, "off")
  /\ UNCHANGED <<fixed, stray, driver, desired, csc, scheduled, inHand, kept, selected,
                 turn, flags, ghosts>>
  /\ Stores(Without(queue))

(***************************************************************************)
(* The rest of the loop's body.                                            *)
(***************************************************************************)
QueueTakes ==
  /\ At("loop", "deciding") /\ mode = "ADVANCE"
  /\ Len(scheduled) < NTargets + 1 /\ queue # << >>
  /\ inHand' = Head(queue)
  /\ queue' = Tail(queue)
  /\ Goto("loop", "queueing")
  /\ UNCHANGED <<fixed, stray, driver, desired, csc, tlock, scheduled, failing, store,
                 selected, turn, flags, ghosts>>

LoopPredicts ==
  /\ At("loop", "deciding") /\ mode = "ADVANCE"
  /\ needPredict
  /\ needPredict' = FALSE
  /\ Saves
  /\ Goto("loop", "predicting")
  /\ UNCHANGED <<fixed, stray, driver, desired, csc, tlock, plans, selected, turn,
                 needQueue, ghosts>>

(* Mutant: what raises leaves the driver where it was played to.           *)
PredictedUnrestored ==
  /\ At("loop", "predicting")
  /\ \/ Goto("loop", "top") /\ tlock' = None /\ driver' = disk[kept]
     \/ LoopRaises /\ driver' = driver
  /\ kept' = NoFile
  /\ UNCHANGED <<fixed, stray, desired, csc, plans, selected, turn, flags, ghosts>>
  /\ Stores(disk)

LoopPredicted ==
  /\ At("loop", "predicting")
  /\ \/ Goto("loop", "top") /\ tlock' = None
     \/ LoopRaises
  /\ UNCHANGED <<fixed, stray, desired, csc, plans, selected, turn, flags, ghosts>>
  /\ Restores

LoopSleeps ==
  /\ At("loop", "deciding")
  /\ ~needPredict
  /\ needQueue' = (IF mode = "ADVANCE" THEN queue = << >> ELSE needQueue)
  /\ tlock' = None
  /\ Goto("loop", "top")
  /\ UNCHANGED <<fixed, stray, driver, desired, csc, plans, store, selected, turn,
                 needPredict, ghosts>>

(* simple_target_production_loop, when the ScriptQueue is empty: one       *)
(* target, that is registered once it is observed.  It has no snapshot.    *)
(* The end of targets sent before may not have been heard of (bounded).    *)
SimpleSelects ==
  /\ At("loop", "deciding") /\ mode = "SIMPLE"
  /\ Len(scheduled) <= NTargets
  /\ Selects
  /\ IF selected' = None
       THEN LoopRaises /\ UNCHANGED <<inHand, issued>>
       ELSE /\ inHand' = [item |-> selected', file |-> NoFile]
            /\ issued' = issued \cup {selected'}
            /\ Goto("loop", "queueing") /\ UNCHANGED tlock
  /\ UNCHANGED <<fixed, stray, csc, queue, scheduled, failing, store, turn, flags, loads,
                 secured>>

(* The target is on the ScriptQueue; or one of its scripts failed while    *)
(* the others were sent, and it is dropped as it is.                       *)
QueuePuts ==
  /\ At("loop", "queueing")
  /\ scheduled' \in {Append(scheduled, inHand)}
                      \cup (IF mode = "ADVANCE" THEN {scheduled} ELSE {})
  /\ inHand' = None /\ selected' = None
  /\ tlock' = None
  /\ Goto("loop", "top")
  /\ UNCHANGED <<fixed, stray, driver, desired, csc, queue, failing, kept, turn, flags,
                 ghosts>>
  /\ Stores(disk)

QueueFails ==
  /\ At("loop", "queueing")
  /\ LoopRaises
  /\ inHand' = None /\ selected' = None
  /\ UNCHANGED <<fixed, stray, driver, desired, csc, queue, scheduled, failing, kept,
                 turn, flags, ghosts>>
  /\ Stores(disk)

Prediction == \/ PredictBegins \/ PredictEnds
              \/ Plays("predict", "predicting", "playing")
              \/ RegistersPlayed("predict", "playing", "predicting")

Generation == \/ GenerateSaves \/ GenerateSelects \/ GenerateRegisters \/ GenerateFails
              \/ EstimateBegins \/ EstimateRegisters \/ EstimateEnds
              \/ Plays("loop", "estimating", "guessing")

Loop == \/ LoopTurns \/ Generation \/ Faults
        \/ Checks("loop") \/ RollsBack("loop") \/ RollBackFails("loop")
        \/ QueueTakes \/ QueuePuts \/ QueueFails \/ SimpleSelects \/ LoopSleeps
        \/ LoopPredicts \/ LoopPredicted
        \/ Plays("loop", "predicting", "playing")
        \/ RegistersPlayed("loop", "playing", "predicting")

Check == Checks("check") \/ RollsBack("check") \/ RollBackFails("check")

Commands == \/ Enables \/ Resumes \/ StopAsks \/ StopCleansUp \/ StopKills
            \/ LoadAsks \/ LoadFails \/ Loads

Stray == StrayAsks \/ StrayEnds

Next == Loop \/ Check \/ Prediction \/ Commands \/ Stray

Spec == Init /\ [][Next]_vars

(***************************************************************************)
(* Properties.                                                             *)
(***************************************************************************)
(* The values each variable takes; the open snapshot and what is in use    *)
(* find their files among those on disk.                                   *)
TypeOK ==
  /\ driver \in Snapshots
  /\ desired \in Targets \cup {None}
  /\ {enabled, runSet, needQueue, needPredict} \subseteq BOOLEAN
  /\ session \in {"idle", "running", "predicting"}
  /\ tlock \in {"loop", "check", None}
  /\ pc \in [Procs -> Labels]
  /\ {queue, scheduled, failing} \subseteq Seq(Planned)
  /\ inHand \in Planned \cup {None}
  /\ DOMAIN disk \subseteq Files /\ \A f \in DOMAIN disk : disk[f] \in Snapshots
  /\ kept \in Files \cup {NoFile}
  /\ selected \in Items \cup {None}
  /\ stray \in Targets \cup {"asking", None}

(* The file a target names is on disk for as long as the target may fail   *)
(* (remove_scheduler_state, keep_state): rolling back finds its snapshot,  *)
(* and no two targets share one.                                           *)
SnapshotExists ==
  /\ Referenced \subseteq DOMAIN disk
  /\ \A i, j \in DOMAIN InUse :
       InUse[i].file = InUse[j].file /\ InUse[i].file # NoFile => i = j

Playing == kept # NoFile

(* Predicting and estimating leave nothing behind: out of them the driver  *)
(* counts only targets that were put on the queue, whatever raised, was    *)
(* loaded or was stopped in between (current_scheduler_state).             *)
OnlyIssuedCounted == ~Playing => driver.counted \subseteq issued

(* A target that is planned, being sent or scheduled is not selected once  *)
(* more: no snapshot that is restored is from before it was selected       *)
(* (check_scheduled_targets drops the queue before it resets the driver).  *)
NotSelectedTwice ==
  /\ driver.waiting \cap {i.of : i \in {j \in ItemsOf(InUse) : ~j.cwfs}} = {}
  /\ \A i, j \in DOMAIN InUse :
       InUse[i].item = InUse[j].item /\ ~InUse[i].item.cwfs => i = j

(* A load made while nothing was under way (secured) is still in force: no *)
(* rollback or prediction goes back to before it (do_load).  A load that a *)
(* resume or a prediction overtakes while its file is fetched may be       *)
(* undone, here and in the code: nothing is said of it.                    *)
LoadStays == driver.loaded >= secured

(* The driver goes back as far as the first of the targets that failed or  *)
(* are dropped from the queue: it counts nothing that one of them was      *)
(* selected without, if no load came in between (step 6 of the advance     *)
(* mode in the developer guide).                                           *)
FailedForgotten ==
  [][ \A p \in {"loop", "check"} :
        RollsBack(p) =>
          \A f \in FilesOf(queue \o failing) :
            disk[f].loaded = driver'.loaded => driver'.counted \subseteq disk[f].counted ]_vars
================================================================================
