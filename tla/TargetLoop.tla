------------------------------ MODULE TargetLoop ------------------------------
(***************************************************************************)
(* The target production loop of the Scheduler CSC in ADVANCE mode, and    *)
(* every coroutine that shares its locks: the resume, stop,                *)
(* computePredictedSchedule and addBlock commands, the tasks that execute  *)
(* one block, the check of the scheduled targets, the telemetry loop and   *)
(* the summary state transitions (scheduler_csc.py).                       *)
(*                                                                         *)
(* A step is what a coroutine does between two awaits.  asyncio locks are  *)
(* fair: target_loop_lock and _detailed_state_lock are queues of           *)
(* coroutines, the first of which holds the lock.  A coroutine that finds  *)
(* a lock free may be interleaved once more here than in asyncio.          *)
(***************************************************************************)
EXTENDS Naturals, Sequences, FiniteSets, SequencesExt

CONSTANTS Blocks,         \* the blocks addBlock is asked for, each once
          Targets,        \* the targets the driver may produce
          NTargets,       \* parameters.n_targets
          Commands,       \* what is asked of the CSC: a subset of AllCommands
          Mishaps         \* what may go wrong: a subset of AllMishaps

AllCommands == {"resume", "stop", "predict", "addBlock", "disable", "faultFlag"}

(* The driver, the telemetry or the ScriptQueue raises while targets are   *)
(* produced; the ScriptQueue refuses to stop scripts; a stop outlasts      *)
(* loop_die_timeout.                                                       *)
AllMishaps == {"workRaises", "removalRaises", "loopOutlasts"}

ASSUME TargetLoopAssumption ==
  /\ Commands \subseteq AllCommands
  /\ NTargets \in Nat
  /\ Mishaps \subseteq AllMishaps
  /\ IsFiniteSet(Targets)
  /\ Blocks \cap {"resume", "stop", "predict", "compute", "loop", "check",
                  "telemetry", "lifecycle"} = {}   \* names of coroutines

None == "none"
Items == Blocks \cup Targets
Workers == {"compute", "loop", "check", "telemetry"} \cup Blocks  \* in _tasks
Procs == Workers \cup {"resume", "stop", "predict", "lifecycle"}

Operations == {"WAITING", "GENERATING", "PREDICTING", "QUEUEING"}
DetailedStates == {"IDLE", "RUNNING"} \cup Operations

(* How far a coroutine has got; "off" is not started, or done.             *)
Labels == {"off", "asked", "acking", "wantLoop", "cleaning", "polling",
           "killing", "recleaning", "toRunning", "running", "toIdle",
           "idling", "top", "toWait", "gate", "paused",
           "toGenerate", "checking", "deciding", "toQueue", "toPredict",
           "sleeping", "failed", "faulting", "wantState", "settling"}
          \cup Operations

VARIABLES csc,         \* summary state
          runLoop,     \* run_loop
          registered,  \* _tasks["target_production_task"] is not None
          runSet,      \* run_target_loop.is_set()
          faultBit,    \* the FAULT flag; observatory_status_fault_cleared its negation
          detailed,    \* evt_detailedState.data.substate
          dlock,       \* _detailed_state_lock
          tlock,       \* target_loop_lock
          queue,       \* targets_queue
          scheduled,   \* model.scheduled_targets
          inHand,      \* the target queue_targets has popped
          posted,      \* items with scripts on the ScriptQueue (external)
          timer,       \* next_target_timer
          needQueue,   \* targets_queue_condition is done, with None
          needPredict, \* _should_compute_predicted_schedule
          counting,    \* model._number_of_targets_predicted is not None
          pc           \* label of each coroutine

life == <<csc, runLoop, registered>>
switches == <<runSet, faultBit>>
work == <<queue, scheduled, inHand, posted>>
aims == <<timer, needQueue, needPredict, counting>>
vars == <<life, switches, detailed, dlock, tlock, work, aims, pc>>

Init ==
  /\ csc = "DISABLED"
  /\ runLoop = TRUE
  /\ registered = FALSE
  /\ runSet = FALSE
  /\ faultBit = FALSE
  /\ detailed = "IDLE"
  /\ dlock = << >> /\ tlock = << >>
  /\ queue = << >> /\ scheduled = {} /\ inHand = None /\ posted = {}
  /\ timer = "done"
  /\ needQueue = TRUE
  /\ needPredict = FALSE
  /\ counting = FALSE
  /\ pc = [p \in Procs |-> IF p = "telemetry" THEN "asked" ELSE "off"]

(***************************************************************************)
(* Locks and program counters.                                             *)
(***************************************************************************)
Holds(lock, p) == lock # << >> /\ Head(lock) = p
Leave(lock, p) ==
  IF p \in Range(lock) THEN RemoveAt(lock, CHOOSE i \in DOMAIN lock : lock[i] = p)
                       ELSE lock

At(p, l) == pc[p] = l
Goto(p, l) == pc' = [pc EXCEPT ![p] = l]
Alive(p) == pc[p] # "off"

(* stop_next_target_timer_task *)
Cancelled == IF timer = "armed" THEN "cancelled" ELSE timer

(* remove_from_queue stops the scripts of the targets it is given, except  *)
(* the script that is running.                                             *)
Removals(items) == {posted \ (items \ {running}) : running \in items \cup {None}}

(* _start_target_production_task: the event loop runs the new task at its  *)
(* next turn, up to the first await; the labels of the others are given.   *)
LoopStarts(others) ==
  /\ runLoop' = TRUE
  /\ scheduled' = {}
  /\ queue' = << >>
  /\ needQueue' = TRUE
  /\ needPredict' = FALSE
  /\ pc' = [others EXCEPT !["loop"] = "top"]

(***************************************************************************)
(* The transitions IDLE -> RUNNING and RUNNING -> IDLE, which the commands *)
(* and the block tasks make under _detailed_state_lock.                    *)
(***************************************************************************)
ToRunning(p) ==
  /\ At(p, "toRunning") /\ Holds(dlock, p)
  /\ detailed = "IDLE"
  /\ detailed' = "RUNNING"
  /\ Goto(p, "running")
  /\ UNCHANGED <<life, switches, dlock, tlock, work, aims>>

(* assert_idle fails.  resume gives up; idle_to_running still runs its     *)
(* finally clause, and so asks for the way back to IDLE.                   *)
NotIdle(p) ==
  /\ At(p, "toRunning") /\ Holds(dlock, p)
  /\ detailed # "IDLE"
  /\ IF p = "resume"
       THEN /\ dlock' = Tail(dlock)
            /\ tlock' = Tail(tlock)
            /\ Goto(p, "off")
       ELSE /\ dlock' = Append(Tail(dlock), p)
            /\ Goto(p, "toIdle")
            /\ UNCHANGED tlock
  /\ UNCHANGED <<life, switches, detailed, work, aims>>

ToIdle(p) ==
  /\ At(p, "toIdle") /\ Holds(dlock, p)
  /\ detailed = "RUNNING"
  /\ detailed' = "IDLE"
  /\ Goto(p, "idling")
  /\ UNCHANGED <<life, switches, dlock, tlock, work, aims>>

(* assert_running fails, and with it the coroutine.                        *)
NotRunning(p) ==
  /\ At(p, "toIdle") /\ Holds(dlock, p)
  /\ detailed # "RUNNING"
  /\ dlock' = Tail(dlock)
  /\ tlock' = Leave(tlock, p)
  /\ Goto(p, "off")
  /\ UNCHANGED <<life, switches, detailed, work, aims>>

(* computePredictedSchedule and a block task are back to IDLE.             *)
BackToIdle(p) ==
  /\ p # "stop"
  /\ At(p, "idling")
  /\ dlock' = Tail(dlock)
  /\ Goto(p, "off")
  /\ UNCHANGED <<life, switches, detailed, tlock, work, aims>>

(* Mutants: the operation starts whatever the detailed state is, or        *)
(* without the lock.                                                       *)
EnterUnchecked(p, op) ==
  /\ Holds(dlock, p)
  /\ detailed' = op
  /\ Goto(p, op)
  /\ UNCHANGED dlock

EnterUnlocked(p, op) ==
  /\ detailed = "RUNNING"
  /\ detailed' = op
  /\ Goto(p, op)
  /\ UNCHANGED dlock

(* The detailed_state context manager, entered and left.                   *)
Enter(p, op) ==
  /\ Holds(dlock, p)
  /\ detailed = "RUNNING"
  /\ detailed' = op
  /\ Goto(p, op)
  /\ UNCHANGED dlock

Exit(p, op, next) ==
  /\ At(p, op)
  /\ detailed' = "RUNNING"
  /\ dlock' = Tail(dlock)
  /\ Goto(p, next)

Refused(p, next) ==
  /\ Holds(dlock, p)
  /\ detailed # "RUNNING"
  /\ dlock' = Tail(dlock)
  /\ Goto(p, next)
  /\ UNCHANGED detailed

(***************************************************************************)
(* do_resume.                                                              *)
(***************************************************************************)
ResumeAsks ==
  /\ "resume" \in Commands
  /\ At("resume", "off") /\ csc = "ENABLED"
  /\ tlock' = Append(tlock, "resume")
  /\ Goto("resume", "wantLoop")
  /\ UNCHANGED <<life, switches, detailed, dlock, work, aims>>

(* Refused while the loop runs, and in fault if a component still is.      *)
ResumeRefused ==
  /\ At("resume", "wantLoop") /\ Holds(tlock, "resume")
  /\ runSet \/ faultBit
  /\ tlock' = Tail(tlock)
  /\ Goto("resume", "off")
  /\ UNCHANGED <<life, switches, detailed, dlock, work, aims>>

ResumeChecks ==
  /\ At("resume", "wantLoop") /\ Holds(tlock, "resume")
  /\ ~runSet
  /\ Goto("resume", "acking")
  /\ UNCHANGED <<life, switches, detailed, dlock, tlock, work, aims>>

(* Mutant: the task is taken to be running.                                *)
ResumeTrustsTask ==
  /\ At("resume", "acking")
  /\ Goto("resume", "toRunning")
  /\ dlock' = Append(dlock, "resume")
  /\ UNCHANGED <<life, switches, detailed, tlock, work, aims>>

(* After the acknowledgement: a target production task that is done is     *)
(* started again, one that was never started or was stopped is not.        *)
ResumeRestarts ==
  /\ At("resume", "acking")
  /\ LET others == [pc EXCEPT !["resume"] = "toRunning"] IN
       IF registered /\ ~Alive("loop")
         THEN runSet' = FALSE /\ LoopStarts(others)
         ELSE /\ pc' = others
              /\ UNCHANGED <<runLoop, runSet, scheduled, queue, needQueue, needPredict>>
  /\ dlock' = Append(dlock, "resume")
  /\ UNCHANGED <<csc, registered, faultBit, detailed, tlock, inHand, posted, timer, counting>>

(* The status written next is OPERATIONAL without FAULT, if that is valid. *)
ResumeSets ==
  /\ At("resume", "running")
  /\ dlock' = Tail(dlock)
  /\ runSet' = TRUE
  /\ faultBit' \in {faultBit, FALSE}
  /\ tlock' = Tail(tlock)
  /\ Goto("resume", "off")
  /\ UNCHANGED <<life, detailed, work, aims>>

(***************************************************************************)
(* do_stop.  What it does under target_loop_lock may outlast               *)
(* loop_die_timeout; it is then abandoned, the loop killed, and the same   *)
(* steps taken without the lock before the loop is started again.          *)
(***************************************************************************)
StopAsks ==
  /\ "stop" \in Commands
  /\ At("stop", "off") /\ csc = "ENABLED" /\ runSet
  /\ Goto("stop", "acking")
  /\ UNCHANGED <<life, switches, detailed, dlock, tlock, work, aims>>

StopClears ==
  /\ At("stop", "acking")
  /\ runSet' = FALSE
  /\ tlock' = Append(tlock, "stop")
  /\ Goto("stop", "wantLoop")
  /\ UNCHANGED <<life, faultBit, detailed, dlock, work, aims>>

(* _cleanup_queue_targets forgets the scheduled targets before it asks the *)
(* ScriptQueue to stop their scripts, which may fail.                      *)
StopForgets(held, killed) ==
  /\ \/ At("stop", "wantLoop") /\ Holds(tlock, "stop") /\ Goto("stop", held)
     \/ At("stop", "killing") /\ ~Alive("loop") /\ Goto("stop", killed)
  /\ registered' = (registered /\ ~At("stop", "killing"))
  /\ scheduled' = {}
  /\ UNCHANGED <<csc, runLoop, switches, detailed, dlock, queue, inHand, aims>>

StopCleansUp ==
  /\ StopForgets("cleaning", "recleaning")
  /\ posted' \in Removals(scheduled)
  /\ UNCHANGED tlock

StopFails ==
  /\ "removalRaises" \in Mishaps
  /\ StopForgets("off", "off")
  /\ tlock' = Leave(tlock, "stop")
  /\ UNCHANGED posted

StopCancelsTimer ==
  /\ pc["stop"] \in {"cleaning", "recleaning"}
  /\ timer' = Cancelled
  /\ dlock' = Append(dlock, "stop")
  /\ Goto("stop", "toIdle")
  /\ UNCHANGED <<life, switches, detailed, tlock, work, needQueue, needPredict, counting>>

(* Mutant: the abandoned coroutine keeps its place before the lock.        *)
StopTimesOutWaiting ==
  /\ "loopOutlasts" \in Mishaps
  /\ \/ At("stop", "wantLoop")
     \/ pc["stop"] \in {"cleaning", "toIdle", "idling"} /\ Holds(tlock, "stop")
  /\ tlock' = Leave(tlock, "stop")
  /\ Goto("stop", "killing")
  /\ UNCHANGED <<life, switches, detailed, dlock, work, aims>>

(* The timer of wait_for: the coroutine it waits for is cancelled.         *)
StopTimesOut ==
  /\ "loopOutlasts" \in Mishaps
  /\ \/ At("stop", "wantLoop")
     \/ pc["stop"] \in {"cleaning", "toIdle", "idling"} /\ Holds(tlock, "stop")
  /\ tlock' = Leave(tlock, "stop")
  /\ dlock' = Leave(dlock, "stop")
  /\ Goto("stop", "killing")
  /\ UNCHANGED <<life, switches, detailed, work, aims>>

(* Idle.  Without target_loop_lock this is the end of the abandoned stop,  *)
(* which starts a new loop.                                                *)
StopFinishes ==
  /\ At("stop", "idling")
  /\ dlock' = Tail(dlock)
  /\ queue' = << >>
  /\ LET others == [pc EXCEPT !["stop"] = "off"] IN
       IF Holds(tlock, "stop")
         THEN /\ tlock' = Tail(tlock)
              /\ pc' = others
              /\ UNCHANGED <<registered, runLoop, runSet, scheduled, needQueue, needPredict>>
         ELSE /\ registered' = TRUE
              /\ runSet' = FALSE
              /\ LoopStarts(others)
              /\ UNCHANGED tlock
  /\ UNCHANGED <<csc, faultBit, detailed, inHand, posted, timer, counting>>

(***************************************************************************)
(* do_computePredictedSchedule and the task it starts and waits for.       *)
(***************************************************************************)
PredictAsks ==
  /\ "predict" \in Commands
  /\ At("predict", "off") /\ csc = "ENABLED" /\ ~runSet
  /\ Goto("predict", "asked")
  /\ UNCHANGED <<life, switches, detailed, dlock, tlock, work, aims>>

PredictBegins ==
  /\ At("predict", "asked")
  /\ dlock' = Append(dlock, "predict")
  /\ Goto("predict", "toRunning")
  /\ UNCHANGED <<life, switches, detailed, tlock, work, aims>>

PredictStarts ==
  /\ At("predict", "running")
  /\ dlock' = Append(Tail(dlock), "compute")
  /\ pc' = [pc EXCEPT !["predict"] = "polling", !["compute"] = "toPredict"]
  /\ UNCHANGED <<life, switches, detailed, tlock, work, aims>>

(* The number of predicted targets is polled until there is one.           *)
PredictPolls ==
  /\ At("predict", "polling")
  /\ counting
  /\ Goto("predict", "cleaning")
  /\ UNCHANGED <<life, switches, detailed, dlock, tlock, work, aims>>

PredictEnds ==
  /\ At("predict", "cleaning") /\ ~Alive("compute")
  /\ dlock' = Append(dlock, "predict")
  /\ Goto("predict", "toIdle")
  /\ UNCHANGED <<life, switches, detailed, tlock, work, aims>>

(***************************************************************************)
(* compute_predicted_schedule, from the command's task or from the loop.   *)
(***************************************************************************)
ComputeBegins ==
  /\ At("compute", "toPredict")
  /\ \/ Enter("compute", "PREDICTING") /\ counting' = TRUE
     \/ Refused("compute", "off") /\ UNCHANGED counting
  /\ needPredict' = (needPredict /\ detailed # "RUNNING")
  /\ UNCHANGED <<life, switches, tlock, work, timer, needQueue>>

ComputeEnds ==
  /\ Exit("compute", "PREDICTING", "off")
  /\ counting' \in IF "workRaises" \in Mishaps THEN BOOLEAN ELSE {FALSE}
  /\ UNCHANGED <<life, switches, tlock, work, timer, needQueue, needPredict>>

(***************************************************************************)
(* do_addBlock, and execute_block, the task it starts if the loop does not *)
(* run.  The targets queue is popped from the front, whatever is there.    *)
(***************************************************************************)
AddAsks(b) ==
  /\ "addBlock" \in Commands
  /\ At(b, "off") /\ csc = "ENABLED"
  /\ b \notin Range(queue) \cup scheduled \cup posted \cup {inHand}
  /\ \A c \in Blocks : ~At(c, "wantLoop")
  /\ tlock' = Append(tlock, b)
  /\ Goto(b, "wantLoop")
  /\ UNCHANGED <<life, switches, detailed, dlock, work, aims>>

AddAppends(b) ==
  /\ At(b, "wantLoop") /\ Holds(tlock, b)
  /\ runSet
  /\ queue' = Append(queue, b)
  /\ tlock' = Tail(tlock)
  /\ Goto(b, "off")
  /\ UNCHANGED <<life, switches, detailed, dlock, scheduled, inHand, posted, aims>>

AddInserts(b) ==
  /\ At(b, "wantLoop") /\ Holds(tlock, b)
  /\ ~runSet
  /\ queue' = <<b>> \o queue
  /\ tlock' = Tail(tlock)
  /\ dlock' = Append(dlock, b)
  /\ Goto(b, "toRunning")
  /\ UNCHANGED <<life, switches, detailed, scheduled, inHand, posted, aims>>

ExecuteBegins(b) ==
  /\ At(b, "running")
  /\ dlock' = Append(Tail(dlock), b)
  /\ Goto(b, "toQueue")
  /\ UNCHANGED <<life, switches, detailed, tlock, work, aims>>

(***************************************************************************)
(* queue_targets, from the loop or from a block task.                      *)
(***************************************************************************)
(* What becomes of a coroutine that raises: the loop goes to its except    *)
(* clauses, a block task to the finally clause of idle_to_running.         *)
AfterError(p) == IF p = "loop" THEN "failed" ELSE "toIdle"
AfterWork(p) == IF p = "loop" THEN "top" ELSE "toIdle"

(* The loop leaves target_loop_lock, a block task asks for the other lock. *)
Releases(p) ==
  /\ tlock' = Leave(tlock, p)
  /\ dlock' = IF p = "loop" THEN Tail(dlock) ELSE Append(Tail(dlock), p)

QueueTakes(p) ==
  /\ At(p, "toQueue")
  /\ queue # << >>
  /\ Enter(p, "QUEUEING")
  /\ inHand' = Head(queue)
  /\ queue' = Tail(queue)
  /\ posted' = posted \cup {inHand'}
  /\ UNCHANGED <<life, switches, tlock, scheduled, aims>>

(* assert_running fails, or there is nothing left to pop.                  *)
QueueRefused(p) ==
  /\ At(p, "toQueue") /\ Holds(dlock, p)
  /\ detailed # "RUNNING" \/ queue = << >>
  /\ Releases(p)
  /\ Goto(p, AfterError(p))
  /\ UNCHANGED <<life, switches, detailed, work, aims>>

(* Mutant: the target is added to the scheduled ones once it is forgotten. *)
QueuePutsForgotten(p) ==
  /\ At(p, "QUEUEING") /\ detailed' = "RUNNING"
  /\ Releases(p)
  /\ Goto(p, AfterWork(p))
  /\ inHand' = None
  /\ scheduled' = scheduled \cup {inHand'}
  /\ UNCHANGED <<life, switches, queue, posted, aims>>

(* All scripts are on the ScriptQueue: the target is scheduled.  One whose *)
(* indices are not consecutive is removed, and scheduled all the same.     *)
(* One of whose scripts failed meanwhile is removed and forgotten.         *)
QueuePuts(p) ==
  /\ At(p, "QUEUEING") /\ detailed' = "RUNNING"
  /\ Releases(p)
  /\ Goto(p, AfterWork(p))
  /\ scheduled' \in {scheduled, scheduled \cup {inHand}}
  /\ posted' \in Removals({inHand})
  /\ inHand' = None
  /\ UNCHANGED <<life, switches, queue, aims>>

(* The ScriptQueue refuses a script: what it has already accepted stays.   *)
QueueFails(p) ==
  /\ "workRaises" \in Mishaps
  /\ At(p, "QUEUEING") /\ detailed' = "RUNNING"
  /\ Releases(p)
  /\ Goto(p, AfterError(p))
  /\ inHand' = None
  /\ UNCHANGED <<life, switches, queue, scheduled, posted, aims>>

(***************************************************************************)
(* check_scheduled_targets, from the loop or from the task that every      *)
(* script event starts (check_script_info).                                *)
(***************************************************************************)
Finished == scheduled \ posted

Observes ==
  /\ \E seen \in SUBSET Finished : scheduled' = scheduled \ seen
  /\ UNCHANGED <<queue, inHand, posted, timer>>

(* A script failed: what is queued or scheduled is dropped and removed.    *)
Discards ==
  /\ scheduled # {}
  /\ queue' = << >>
  /\ scheduled' = {}
  /\ posted' \in Removals(scheduled)
  /\ timer' = Cancelled
  /\ UNCHANGED inHand

(* ... unless the removal of the failed targets raises, or the one of the  *)
(* rest, when these are forgotten already.                                 *)
DiscardFails ==
  /\ "removalRaises" \in Mishaps
  /\ scheduled # {}
  /\ queue' = << >>
  /\ \/ \E seen \in SUBSET Finished : scheduled' = scheduled \ seen
     \/ scheduled' = {}
  /\ UNCHANGED <<inHand, posted, timer>>

ScriptEvent ==
  /\ At("check", "off") /\ scheduled # {}
  /\ tlock' = Append(tlock, "check")
  /\ Goto("check", "wantLoop")
  /\ UNCHANGED <<life, switches, detailed, dlock, work, aims>>

CheckTargets ==
  /\ At("check", "wantLoop") /\ Holds(tlock, "check")
  /\ Observes \/ Discards \/ DiscardFails
  /\ tlock' = Tail(tlock)
  /\ Goto("check", "off")
  /\ UNCHANGED <<life, switches, detailed, dlock, needQueue, needPredict, counting>>

(* The ScriptQueue is done with the scripts of an item.                    *)
ScriptsEnd(i) ==
  /\ i \in posted \ {inHand}
  /\ posted' = posted \ {i}
  /\ UNCHANGED <<life, switches, detailed, dlock, tlock, queue, scheduled, inHand, aims, pc>>

(***************************************************************************)
(* advance_target_production_loop.                                         *)
(***************************************************************************)
LoopTop ==
  /\ At("loop", "top")
  /\ IF csc = "ENABLED" /\ runLoop
       THEN IF timer = "armed"
              THEN dlock' = Append(dlock, "loop") /\ Goto("loop", "toWait")
              ELSE Goto("loop", "gate") /\ UNCHANGED dlock
       ELSE Goto("loop", "off") /\ UNCHANGED dlock
  /\ UNCHANGED <<life, switches, detailed, tlock, work, aims>>

(* Outside of the try statement: what is raised here ends the task.        *)
LoopWaits ==
  /\ At("loop", "toWait")
  /\ Enter("loop", "WAITING") \/ Refused("loop", "off")
  /\ UNCHANGED <<life, switches, tlock, work, aims>>

TimerEnds ==
  /\ timer = "armed"
  /\ timer' = "done"
  /\ UNCHANGED <<life, switches, detailed, dlock, tlock, work, needQueue, needPredict,
                 counting, pc>>

(* Somebody else may have cancelled the timer, and the loop with it.       *)
LoopWaited ==
  /\ timer # "armed"
  /\ Exit("loop", "WAITING", IF timer = "cancelled" THEN "off" ELSE "gate")
  /\ UNCHANGED <<life, switches, tlock, work, aims>>

(* telemetry_in_sync, run_target_loop, and the pause while in fault.       *)
LoopPasses ==
  /\ At("loop", "gate") /\ runSet
  /\ IF faultBit
       THEN Goto("loop", "paused") /\ UNCHANGED tlock
       ELSE tlock' = Append(tlock, "loop") /\ Goto("loop", "wantLoop")
  /\ UNCHANGED <<life, switches, detailed, dlock, work, aims>>

LoopUnpauses ==
  /\ At("loop", "paused") /\ ~faultBit
  /\ tlock' = Append(tlock, "loop")
  /\ Goto("loop", "wantLoop")
  /\ UNCHANGED <<life, switches, detailed, dlock, work, aims>>

LoopLocks ==
  /\ At("loop", "wantLoop") /\ Holds(tlock, "loop")
  /\ IF needQueue
       THEN dlock' = Append(dlock, "loop") /\ Goto("loop", "toGenerate")
       ELSE Goto("loop", "checking") /\ UNCHANGED dlock
  /\ UNCHANGED <<life, switches, detailed, tlock, work, aims>>

LoopGenerates ==
  /\ At("loop", "toGenerate")
  /\ \/ Enter("loop", "GENERATING") /\ UNCHANGED tlock
     \/ Refused("loop", "failed") /\ tlock' = Tail(tlock)
  /\ UNCHANGED <<life, switches, work, aims>>

Unused == Targets \ (Range(queue) \cup scheduled \cup posted)

(* New targets, or none.  With nothing scheduled either, telescope         *)
(* tracking is stopped and the wait for the next target estimated.         *)
LoopGenerated ==
  /\ Exit("loop", "GENERATING", "checking")
  /\ \/ \E new \in SUBSET Unused :
          /\ queue' = queue \o SetToSeq(new)
          /\ queue' # << >>
          /\ needPredict' = TRUE
          /\ timer' = Cancelled
     \/ /\ queue = << >>
        /\ timer' \in IF scheduled = {} THEN {timer, "armed"} ELSE {timer}
        /\ UNCHANGED <<queue, needPredict>>
  /\ needQueue' = (queue' = << >>)
  /\ UNCHANGED <<life, switches, tlock, scheduled, inHand, posted, counting>>

(* Telemetry, driver or ScriptQueue errors, or no target within            *)
(* max_time_no_target.                                                     *)
LoopGenerateFails ==
  /\ "workRaises" \in Mishaps
  /\ Exit("loop", "GENERATING", "failed")
  /\ tlock' = Tail(tlock)
  /\ UNCHANGED <<life, switches, work, aims>>

LoopChecks ==
  /\ At("loop", "checking")
  /\ Observes \/ Discards
  /\ Goto("loop", "deciding")
  /\ UNCHANGED <<life, switches, detailed, dlock, tlock, needQueue, needPredict, counting>>

LoopCheckFails ==
  /\ At("loop", "checking")
  /\ DiscardFails
  /\ tlock' = Tail(tlock)
  /\ Goto("loop", "failed")
  /\ UNCHANGED <<life, switches, detailed, dlock, needQueue, needPredict, counting>>

(* What the body does next, if the ScriptQueue is running or not.          *)
LoopDecides ==
  /\ At("loop", "deciding")
  /\ \E queueRunning \in BOOLEAN :
       IF queueRunning /\ Cardinality(scheduled) < NTargets + 1 /\ queue # << >>
         THEN /\ dlock' = Append(dlock, "loop") /\ Goto("loop", "toQueue")
              /\ UNCHANGED needQueue
       ELSE IF needPredict
         THEN /\ dlock' = Append(dlock, "loop") /\ Goto("loop", "toPredict")
              /\ UNCHANGED needQueue
         ELSE (* check_targets_queue_condition, while the loop sleeps *)
              /\ needQueue' = (queue = << >>)
              /\ Goto("loop", "sleeping") /\ UNCHANGED dlock
  /\ UNCHANGED <<life, switches, detailed, tlock, work, timer, needPredict, counting>>

LoopPredicts ==
  /\ At("loop", "toPredict")
  /\ \/ Enter("loop", "PREDICTING") /\ needPredict' = FALSE /\ UNCHANGED tlock
     \/ Refused("loop", "failed") /\ tlock' = Tail(tlock) /\ UNCHANGED needPredict
  /\ UNCHANGED <<life, switches, work, timer, needQueue, counting>>

LoopPredicted ==
  /\ Exit("loop", "PREDICTING", "top")
  /\ tlock' = Tail(tlock)
  /\ UNCHANGED <<life, switches, work, aims>>

LoopPredictFails ==
  /\ "workRaises" \in Mishaps
  /\ Exit("loop", "PREDICTING", "failed")
  /\ tlock' = Tail(tlock)
  /\ UNCHANGED <<life, switches, work, aims>>

(* Mutant: the lock is held from one turn of the loop to the next.         *)
LoopSleepsInLock ==
  /\ At("loop", "sleeping")
  /\ Goto("loop", "checking")
  /\ UNCHANGED <<life, switches, detailed, dlock, tlock, work, aims>>

LoopSleeps ==
  /\ At("loop", "sleeping")
  /\ tlock' = Tail(tlock)
  /\ Goto("loop", "top")
  /\ UNCHANGED <<life, switches, detailed, dlock, work, aims>>

(***************************************************************************)
(* fault, from the loop's except clauses or from the telemetry loop.       *)
(***************************************************************************)
CleansUpRegardless ==
  /\ scheduled' = {}
  /\ posted' \in Removals(scheduled) \cup
       (IF "removalRaises" \in Mishaps THEN {posted} ELSE {})

LoopFails ==
  /\ At("loop", "failed")
  /\ IF runLoop /\ csc # "FAULT"
       THEN CleansUpRegardless /\ Goto("loop", "faulting")
       ELSE Goto("loop", "off") /\ UNCHANGED <<scheduled, posted>>
  /\ UNCHANGED <<life, switches, detailed, dlock, tlock, queue, inHand, aims>>

TelemetryFails ==
  /\ "workRaises" \in Mishaps
  /\ At("telemetry", "asked")
  /\ csc = "ENABLED" /\ runSet /\ ~faultBit
  /\ CleansUpRegardless
  /\ Goto("telemetry", "faulting")
  /\ UNCHANGED <<life, switches, detailed, dlock, tlock, queue, inHand, aims>>

(* Every change of the summary state is reported with IDLE, whatever the   *)
(* coroutines are at (handle_summary_state).                               *)
Faults(p) ==
  /\ At(p, "faulting")
  /\ csc' = "FAULT"
  /\ faultBit' = TRUE
  /\ detailed' = "IDLE"
  /\ Goto(p, "off")
  /\ UNCHANGED <<runLoop, registered, runSet, dlock, tlock, work, aims>>

(* _publish_general_info takes the lock when it finds the CSC idle, and    *)
(* gives up, holding it or not, after loop_die_timeout.                    *)
InfoAsks ==
  /\ At("telemetry", "asked") /\ detailed = "IDLE"
  /\ dlock' = Append(dlock, "telemetry")
  /\ Goto("telemetry", "wantState")
  /\ UNCHANGED <<life, switches, detailed, tlock, work, aims>>

InfoPublishes ==
  /\ At("telemetry", "wantState")
  /\ dlock' = Leave(dlock, "telemetry")
  /\ Goto("telemetry", "asked")
  /\ UNCHANGED <<life, switches, detailed, tlock, work, aims>>

(***************************************************************************)
(* Summary state transitions.  Leaving ENABLED, and reaching STANDBY from  *)
(* FAULT, stop the background tasks: each gets loop_die_timeout to end,    *)
(* and is then cancelled.  Commands in flight are not.                     *)
(***************************************************************************)
(* No command is in flight and no block executes, unless it hangs.  Who    *)
(* enables the CSC is taken to have waited for the answers to the commands *)
(* sent before.                                                            *)
Quiet ==
  \A p \in {"resume", "stop", "predict"} \cup Blocks :
    At(p, "off") \/ (At(p, "polling") /\ ~Alive("compute"))

(* Mutant: run_target_loop is not cleared.                                 *)
EnableKeepsRunning ==
  /\ At("lifecycle", "off") /\ csc = "DISABLED"
  /\ Quiet
  /\ csc' = "ENABLED"
  /\ registered' = TRUE
  /\ detailed' = "IDLE"
  /\ LoopStarts(pc)
  /\ UNCHANGED <<switches, dlock, tlock, inHand, posted, timer, counting>>

EnableBegins ==
  /\ At("lifecycle", "off") /\ csc = "DISABLED"
  /\ Quiet
  /\ csc' = "ENABLED"
  /\ runSet' = FALSE
  /\ registered' = TRUE
  /\ detailed' = "IDLE"
  /\ LoopStarts(pc)
  /\ UNCHANGED <<faultBit, dlock, tlock, inHand, posted, timer, counting>>

StopTasks ==
  /\ At("lifecycle", "off")
  /\ csc = "FAULT" \/ (csc = "ENABLED" /\ "disable" \in Commands)
  /\ runSet' = FALSE
  /\ runLoop' = FALSE
  /\ Goto("lifecycle", "settling")
  /\ UNCHANGED <<csc, registered, faultBit, detailed, dlock, tlock, work, aims>>

(* A cancelled block task still runs its finally clause.                   *)
Resting(p) == IF p \in Blocks /\ pc[p] \notin {"toIdle", "idling"} THEN "toIdle" ELSE "off"

Killed(p) ==
  /\ detailed' = IF pc[p] \in Operations THEN "RUNNING" ELSE detailed
  /\ dlock' = Leave(dlock, p) \o (IF Resting(p) = "toIdle" THEN <<p>> ELSE << >>)
  /\ tlock' = Leave(tlock, p)
  /\ inHand' = IF At(p, "QUEUEING") THEN None ELSE inHand
  /\ Goto(p, Resting(p))

(* The telemetry loop and the target loop end at their next turn.          *)
TelemetryEnds ==
  /\ At("telemetry", "asked") /\ ~runLoop
  /\ Goto("telemetry", "off")
  /\ UNCHANGED <<life, switches, detailed, dlock, tlock, work, aims>>

LifecycleKills(p) ==
  /\ At("lifecycle", "settling")
  /\ Alive(p)
  /\ p \in Blocks => ~At(p, "wantLoop") /\ pc[p] \notin {"toIdle", "idling"}
  /\ Killed(p)
  /\ registered' = (registered /\ p # "loop")
  /\ UNCHANGED <<csc, runLoop, switches, queue, scheduled, posted, aims>>

StopKills ==
  /\ At("stop", "killing")
  /\ Alive("loop")
  /\ Killed("loop")
  /\ registered' = FALSE
  /\ UNCHANGED <<csc, runLoop, switches, queue, scheduled, posted, aims>>

(* FAULT goes to DISABLED by way of STANDBY, where the status is wiped and *)
(* then restored.                                                          *)
Settles ==
  /\ At("lifecycle", "settling")
  /\ \A p \in Workers : Alive(p) => p \in Blocks /\ At(p, "wantLoop")
  /\ csc' = "DISABLED"
  /\ runLoop' = TRUE
  /\ registered' = FALSE
  /\ faultBit' \in IF csc = "FAULT" THEN BOOLEAN ELSE {faultBit}
  /\ detailed' = "IDLE"
  /\ timer' = Cancelled
  /\ pc' = [pc EXCEPT !["lifecycle"] = "off", !["telemetry"] = "asked"]
  /\ UNCHANGED <<runSet, dlock, tlock, work, needQueue, needPredict, counting>>

(* The flag as the monitored components and the operator move it.          *)
FaultFlagMoves ==
  /\ "faultFlag" \in Commands
  /\ csc # "FAULT"
  /\ faultBit' = ~faultBit
  /\ UNCHANGED <<life, runSet, detailed, dlock, tlock, work, aims, pc>>

(***************************************************************************)
(* The coroutines.                                                         *)
(***************************************************************************)
Resume == \/ ResumeRefused \/ ResumeChecks \/ ResumeRestarts \/ ResumeSets
          \/ ToRunning("resume") \/ NotIdle("resume")

Stop == \/ StopClears \/ StopCleansUp \/ StopCancelsTimer \/ StopFinishes \/ StopKills
        \/ ToIdle("stop") \/ NotRunning("stop")

Predict == \/ PredictBegins \/ PredictStarts \/ PredictPolls \/ PredictEnds
           \/ ToRunning("predict") \/ NotIdle("predict")
           \/ ToIdle("predict") \/ NotRunning("predict") \/ BackToIdle("predict")

Compute == ComputeBegins \/ ComputeEnds

Execute(b) == \/ ExecuteBegins(b)
              \/ QueueTakes(b) \/ QueueRefused(b) \/ QueuePuts(b) \/ QueueFails(b)
              \/ ToRunning(b) \/ NotIdle(b) \/ ToIdle(b) \/ NotRunning(b) \/ BackToIdle(b)

Block(b) == AddAppends(b) \/ AddInserts(b) \/ Execute(b)

LoopSteps == \/ LoopTop \/ LoopWaits \/ LoopWaited \/ LoopPasses \/ LoopUnpauses
        \/ LoopLocks \/ LoopGenerates \/ LoopGenerated \/ LoopGenerateFails
        \/ LoopChecks \/ LoopCheckFails \/ LoopDecides
        \/ QueueTakes("loop") \/ QueueRefused("loop") \/ QueuePuts("loop") \/ QueueFails("loop")
        \/ LoopPredicts \/ LoopPredicted \/ LoopPredictFails \/ LoopSleeps
        \/ LoopFails \/ Faults("loop")

Telemetry == InfoAsks \/ InfoPublishes \/ TelemetryEnds \/ Faults("telemetry")

Lifecycle == (\E p \in Workers : LifecycleKills(p)) \/ Settles

Asks == \/ ResumeAsks \/ StopAsks \/ PredictAsks \/ EnableBegins \/ StopTasks
        \/ \E b \in Blocks : AddAsks(b)

Environment == \/ TelemetryFails \/ FaultFlagMoves \/ StopFails \/ StopTimesOut
               \/ ScriptEvent \/ \E i \in Items : ScriptsEnd(i)

Next == \/ Resume \/ Stop \/ Predict \/ Compute \/ CheckTargets \/ LoopSteps
        \/ Telemetry \/ Lifecycle \/ TimerEnds \/ Asks \/ Environment
        \/ \E b \in Blocks : Block(b)

(* Every coroutine that can run is run: the event loop is fair, each call  *)
(* to the ScriptQueue or the driver returns or raises, timers end.         *)
Fairness == /\ WF_vars(Resume) /\ WF_vars(Stop) /\ WF_vars(Predict) /\ WF_vars(Compute)
            /\ WF_vars(CheckTargets) /\ WF_vars(LoopSteps) /\ WF_vars(Telemetry)
            /\ WF_vars(Lifecycle) /\ WF_vars(TimerEnds)
            /\ \A b \in Blocks : WF_vars(Block(b))

Spec == Init /\ [][Next]_vars /\ Fairness

(***************************************************************************)
(* Properties.                                                             *)
(***************************************************************************)
(* The values each variable takes: in particular, what a coroutine may be  *)
(* at, and that only targets are queued, scheduled or in hand.             *)
TypeOK ==
  /\ csc \in {"DISABLED", "ENABLED", "FAULT"}
  /\ {runLoop, registered, runSet, faultBit, needQueue, needPredict, counting} \subseteq BOOLEAN
  /\ detailed \in DetailedStates
  /\ dlock \in Seq(Procs) /\ tlock \in Seq(Procs)
  /\ queue \in Seq(Items)
  /\ scheduled \subseteq Items /\ posted \subseteq Items
  /\ inHand \in Items \cup {None}
  /\ timer \in {"done", "armed", "cancelled"}
  /\ pc \in [Procs -> Labels]

(* No coroutine asks for a lock it holds or already waits for, as the      *)
(* notes of set_detailed_state warn a nested operation would               *)
(* (utils/csc_utils.py): there is one target production loop, whatever     *)
(* resume, stop and enable started.                                        *)
LocksAskedOnce == IsInjective(dlock) /\ IsInjective(tlock)

(* While the CSC is enabled the published detailed state names the         *)
(* operation in progress, and there is at most one (detailed_state).       *)
OperationReported ==
  \A p \in Procs : pc[p] \in Operations =>
    Holds(dlock, p) /\ (csc = "ENABLED" => detailed = pc[p])

Settled == \A p \in {"resume", "stop", "predict", "lifecycle"} \cup Blocks : At(p, "off")

Failing == pc["loop"] \in {"failed", "faulting"} \/ At("telemetry", "faulting")

(* Once the commands are answered, IDLE says that the loop is stopped, and *)
(* only that (DetailedState, utils/csc_utils.py).                          *)
IdleMeansStopped ==
  csc = "ENABLED" /\ Settled /\ ~Failing => (detailed = "IDLE" <=> ~runSet)

(* Once resumed there is a loop that takes the targets: stop may have      *)
(* killed it with its timer, but resume has started another.  After        *)
(* loop_die_timeout stop itself starts another, unless it fails before.    *)
ResumedLoopRuns ==
  csc = "ENABLED" /\ Settled /\ ~Failing /\ runSet => Alive("loop")

(* The loop as whoever sends resume and stop sees it.                      *)
Phase == IF At("lifecycle", "settling") THEN "stopping"
         ELSE IF csc = "DISABLED" THEN "stopped"
         ELSE IF runSet THEN "running"
         ELSE IF At("stop", "off") THEN "stopped" ELSE "stopping"
Abstract == INSTANCE Production WITH
  phase <- Phase, sending <- At("loop", "QUEUEING"), sent <- posted

(* resume and stop keep their promise (Production): the loop sends a       *)
(* target only between a resume and the end of the next stop, and nothing  *)
(* is being sent when a stop ends.  With a prediction, an added block or a *)
(* stopScripts that fails in between they do not.                          *)
KeepsPromise == Abstract!Spec

(* Every stop and every resume is answered: no order in which the          *)
(* coroutines take the two locks leaves one waiting for ever.              *)
StopEnds == At("stop", "acking") ~> At("stop", "off")
ResumeEnds == At("resume", "wantLoop") ~> At("resume", "off")

(* A block is at last sent, or refused, and its task ends.                 *)
BlocksEnd == \A b \in Blocks : At(b, "wantLoop") ~> At(b, "off")

(* computePredictedSchedule returns.                                       *)
PredictReturns == At("predict", "asked") ~> At("predict", "off")

(* An observation that a stop leaves on the ScriptQueue stays scheduled,   *)
(* so that its end is registered in the driver (developer guide).          *)
StopKeepsTrack ==
  [][ pc'["stop"] # pc["stop"] => posted' \cap scheduled \subseteq scheduled' ]_vars
===============================================================================
