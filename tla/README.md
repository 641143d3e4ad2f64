# A TLA+ model of the Scheduler CSC

The Scheduler CSC (`src/python/lsst/ts/scheduler`) chooses what the telescope
observes next and sends it, as SAL scripts, to the ScriptQueue. It is one asyncio
program: commands, callbacks, a telemetry loop and the target production loop run
as coroutines on one event loop. A coroutine is interrupted only where it awaits,
so a step of the modules here is what a coroutine does between two awaits, and
every interleaving of the coroutines at their awaits is a behaviour of the model.
The numerical work (which target is best) is left out; what is modelled is who may
act when, what each failure leaves behind, and what the other coroutines then see.

## The system's parts

| Part | State it keeps | Operations | Hard because |
| --- | --- | --- | --- |
| Target production loop, ADVANCE (`scheduler_csc.py` 1900-2070) and all who share its locks | `run_target_loop`, `run_loop`, `_tasks`, `detailedState`, `target_loop_lock`, `_detailed_state_lock`, `targets_queue`, `next_target_timer` | resume, stop, computePredictedSchedule, addBlock, execute_block, enable, disable, fault, telemetry loop | two locks taken in different orders, tasks cancelled and restarted, a stop that times out, errors at every await |
| Observatory status (990-1015, 3030-3448) | the status word, `observatory_status_fault_cleared`, component states, `_components_were_in_fault`, `_last_observatory_status` | updateObservatoryStatus, component callbacks, monitor, resume, stop, disable, fault, day and night | eight writers, an await in the middle of each write, state kept over STANDBY |
| Script tracking (`model.py` 563-836; 1202-1434, 1704-1785) | `script_info`, `_block_scripts_final_state`, `_queue_capacity`, `scheduled_targets` | put_on_queue, remove_from_queue, callback_script_info, check_scheduled_targets, register_observation, _cleanup_queue_targets | events that overtake the coroutine that waits for them, bounded tables, partial failures |
| Driver state (712-739, 2096-2388, 2959-2987; `model.py` 853-1040; the drivers) | the driver, its snapshot files, the target kept for wavefront sensing | generate_target_queue, compute_predicted_schedule, estimate_next_target, check_scheduled_targets, load | temporary registrations undone by a restore, while real ones happen; files named by targets that come and go |
| Target production loop, SIMPLE (1787-1898) | as ADVANCE | the same, one target at a time, without snapshots | as ADVANCE |
| Startup and configuration (359-506, 1440-1642; `model.py` 152-537, 1157-1308; `config_schema.py`) | parameters, clients, blocks, driver | start in HOT, WARM or COLD mode, enable, disable, standby | what a failed or repeated start leaves |
| Telemetry (1017-1200, 2671-2690; `model.py` 1441-1485; `driver.py` 251-312) | the state of the observatory, `telemetry_in_sync`, `raw_telemetry`, the driver's nights | handle_observatory_state, update_telemetry, update_conditions | three callers, timeouts, threads that outlive them |
| ToO and cloud map clients | a cache each, the generator of tooids | get_too_alerts, retrieve_lfa_data | updates that fail half way |
| Observing blocks (806-988) | blocks, valid blocks, block status | addBlock, validateBlock, getBlockStatus | which blocks count as valid |
| Driver implementations, EFD queries, utilities, mocks | survey state | queries | computation or I/O |

The parts meet in `scheduler_csc.py`. A script event calls the tracking, which
starts the check task, which takes `target_loop_lock`; the loop does the same check
inside its body; a check that finds a failed script clears the targets queue and
cancels the loop's timer. The FAULT flag of the observatory status pauses the loop;
the loop's failure raises the flag. Stop, disable and fault withdraw what is
scheduled.

What makes each part correct:

* loop: the published detailed state tells the truth, a stop leaves nothing being
  sent, a resume leaves a loop that sends, and every command is answered;
* status: the word is never contradictory, FAULT stays while a component is in
  fault, and the event the loop waits on agrees with the flag;
* tracking: only what ended well is registered as observed, what is given up leaves
  the ScriptQueue, an end is noticed, and the bounded tables lose nothing in use;
* driver state: the driver counts as observed what was planned for good and no
  more, selects nothing twice, and finds every snapshot it may be sent back to;
* start and telemetry: an enabled CSC has what one start set up, the driver follows
  the nights and knows each alert by one id.

## The modules

| Module | What it is |
| --- | --- |
| `ObservatoryStatus` | the status word and everything that writes it |
| `ObservatoryStatusProofs`, `TargetLoopProofs`, `ScriptTrackingProofs`, `DriverStateProofs`, `StartupProofs` | the safety properties of each, proved for every value of the constants |
| `Production` | abstract: what resume and stop promise to whoever sends them |
| `TargetLoop` | the ADVANCE loop, the commands, the block tasks and both locks; implements `Production` |
| `ScriptTracking` | a target from the moment it is sent to its registration or withdrawal |
| `DriverState` | the driver under both loops: selections, snapshots, rollbacks, predictions, loads |
| `Telemetry` | the steps of the updates of the telemetry, and the nights the driver counts |
| `Startup` | extends `Telemetry`: the start command and the transitions, and who updates when |
| `MCObservatoryStatus`, `MCTargetLoop`, `MCScriptTracking`, `MCDriverState`, `MCStartup` | values of the constants for TLC |

`PROJECT.json` names, for every definition that models code, the lines it models.
In each module the definitions marked as mutants (or mistaken) are wrong on
purpose: each is a variant of the definition below it that some property must
refute, and none is used by the specification.

### ObservatoryStatus

The word is a set of flags. `SetStatus` is `set_observatory_status`: the word is
stored at once, the write is appended to `writes`, and `WriteDone` later moves the
event and, for a fault, `wereInFault`. Every caller is an action, or two where it
awaits something else in between: `ResumeChecks` and `ResumeFinishes`, `DisableUnsets`
and `DisableFinishes`, `TelemetryReads` (isNight is read) and `TelemetryHandles`
(isNight is used). `ComponentReports` is the callback of a component,
`MonitorVisits` the loop that subscribes to them.
The telemetry loop may skip the rest of a cycle (`TelemetrySkips`: the general info
times out or raises), end because get_queue raises, or go to FAULT and then return
(`TelemetryFails`, `Fault`); a loop that has ended is still a task, and only a disable
or a standby makes room for another (`LoopStarted`, `DisableFinishes`).
`StandbyBegins` to `StartFails` are the summary state transitions that keep,
wipe and restore the word. `Valid` is `validate_observatory_status`, `AtDay`,
`AtNight` and `NotOperational` what the handlers make of a word.

### TargetLoop

The two locks are the queues `tlock` and `dlock` of the coroutines that asked for
them; asyncio locks are fair, so the first one holds it. `pc` says where each
coroutine awaits. `Enter`, `Exit` and `Refused` are the `detailed_state` context
manager, used for GENERATING, PREDICTING, QUEUEING and WAITING; `ToRunning`,
`NotIdle`, `ToIdle` and `NotRunning` are the two transitions with their assertions.
`posted` is what has scripts on the ScriptQueue, `scheduled` what the model follows.
`StopTimesOut` is `asyncio.wait_for` giving up; `Killed` is a cancelled task, with
the finally clauses it still runs. `Faults` and `Settles` report IDLE whatever
anybody is doing, as `handle_summary_state` does.

`Production` has three variables: the phase (stopped, running, stopping), whether
the loop is sending, and what was sent. `KeepsPromise` is `Abstract!Spec` under the
mapping at the end of the module: a target is sent only between a resume and the
end of the next stop, and nothing is being sent when the stop ends.

### ScriptTracking

`onQueue` is the ScriptQueue, the position of a script its SAL index; `events` are
the evt_script samples on their way, in order. `info` is the dictionary
`script_info` in insertion order; `futures` and `blocks` are
`_block_scripts_final_state`, whose keys are ordered as in `sent`. `place` says which
list holds a target. `Deliver` is `check_script_info` with `callback_script_info`:
entry, future, both evictions, and the task that checks. A check under the lock is
`Checks`, `Registers`, `Registered`, and for what failed `Removes`, `Marks`, `Cleans`,
`Removes`, `Marks`; a stop begins at `Cleans`. `Stops` is the request to the ScriptQueue,
`Marked` what becomes of the futures once it is answered, and `Withdraws` what
`_cleanup_queue_targets` forgets before it asks. `Reached` are the targets a loop over a
list gets to before the KeyError of a block that was forgotten.

Everything that can cut this short is an action (constant `Mishaps`): `RemovalFails`
and `QueueFails` (the queue event or cmd_stopScripts raises or times out, before or
after the ScriptQueue has acted; cmd_add is refused), `Raises` (that, or a KeyError,
under the lock), `LoopFaults` (the loop has left the lock, and calls `fault`),
`TelemetryFaults` (the telemetry loop calls it), and `StopTimesOut` (`asyncio.wait_for`
cancels the stop, whether it waits for the lock or is at one of the awaits of the
cleanup, and the loop is killed). `fault` and the stop that was timed out clean up
without the lock: `Discards`, `DiscardsStopped`, `DiscardsMarked`, `DiscardsFail`, with
checks and block tasks in between. Targets that were taken out of every list by a step
that then failed are `lost`: their scripts go on with nobody to follow them.

`QueueTakes` to `QueueMarks` is `put_on_queue` for one target: the place in
`_queue_capacity`, the check of the earlier scripts, the command, its answer, the
consecutive indices, and the removal if something is wrong. A place in
`_queue_capacity` is a future that is pending. The ScriptQueue takes a target's
scripts from the loop (with the lock) or from the task of a block (without).

### DriverState

`driver` is what a snapshot holds: the targets the algorithm may still select
(`waiting`), the items it counts as observed (`counted`), and the load it goes back to.
`desired` is `_desired_obs`, which no snapshot holds. A target on `targets_queue`, in
hand, scheduled or failed is a record of its item and the file of its snapshot;
`disk` has the files something names, and `kept` is the file of the
`current_scheduler_state` that is open. `Saves` and `Restores` are the entry and the
exit of that context manager. `Selects` is `select_next_target` of either driver:
nothing, a target, or wavefront sensing with the target kept. `GenerateSaves`,
`GenerateSelects` and `GenerateRegisters` are one turn of `generate_target_queue`;
`EstimateBegins` to `EstimateEnds` the estimate of the next target, `Plays` and
`RegistersPlayed` the same for the two predictions. `Checks` registers for good what
is done, `RollsBack` is the loop over the failed targets with the cleanup of the
queue, by the loop or by the check task. `Loads` is the second half of `load`, after
the file was fetched. `StopKills` is the stop that outlasts its time: the loop is
cancelled, but a selection it was waiting for is a thread and goes on. `stray` is that
selection (`LeavesBehind`), which may take from the algorithm what it asks for
(`StrayAsks`) and set `desired` (`StrayEnds`) under whatever the CSC does by then.
The loop of the other mode differs in `SimpleSelects`.
The locks are those of `TargetLoop`, reduced to who holds `target_loop_lock`; the
blocks of addBlock have no snapshot and are left out.

### Telemetry and Startup

`Telemetry` has no next-state relation: it gives the steps of `update_telemetry` (by
the telemetry loop, the target loop or a COLD start; `by` says which) and
`Startup` says when each may happen. `AlertsRead`, `MapRead` and
`AlertsGiven` are the ToO client, one step per query; `CloudsRead` starts
`update_conditions` in a thread, whose three steps `ConditionsRead`,
`ConditionsWritten` and `ConditionsCounted` lie between its reads of
`observatory_state.time`. Time is counted in days and nights. A coroutine that is cancelled leaves its thread
behind, and a driver that is replaced leaves threads that only touch the sky model
(`OrphanEnds`).

In `Startup` a start goes from `asked` to `publishing`; what is between two of its
awaits is one action, and `StartFails` may follow any of them and takes nothing
back. The driver remembers the start that made it. `TelemetryFails` covers the four
ways the handler of a failed state update can end.

## What TLC checks

| Run | States | Question | Bounds |
| --- | --- | --- | --- |
| `MCObservatoryStatus` | 4.3 M | are the word, the event, the FAULT flag and the list of components consistent? | two components (symmetric), two writes in flight, one session |
| `MCObservatoryStatusLive` | 2.5 M | is a cleared flag signalled, is the day flagged? | one component, two writes in flight, any number of sessions |
| `MCTargetLoop` | 1.2 M | do the detailed state and the loop agree, is the promise kept? | two targets, `n_targets` 1, steps of the loop may raise |
| `MCTargetLoopPredict` | 1.7 M | one operation at a time, no lock asked for twice? | one target, stop may time out, stopScripts may fail |
| `MCTargetLoopLive` | 0.2 M | are resume, stop and addBlock answered? | one block |
| `MCScriptTracking` | 3.4 M | is anything in use forgotten, is anything removed left on the queue, is the capacity kept, whatever fails? | three targets of one script (symmetric), `max_scripts` 2, capacity 1, all mishaps, until a second target is lost |
| `MCScriptTrackingLive` | 0.9 M | is only what is done registered, does a block half sent leave the queue, is every end seen? | two targets (2, 1 scripts), one script of somebody else, `max_scripts` 3, capacity 1, removals fail |
| `MCDriverState` | 4.9 M | is every snapshot there, is anything predicted counted or anything selected twice, does a load stay? | three targets, one only by a load, one with wavefront sensing; `n_targets` 1, one load, both drivers, both loops; no load after a selection that outlived its loop |
| `MCStartup` | 1.8 M | does the CSC run with what one start set up, does the driver follow the nights, do alerts keep their ids? | two starts, two sources, two threads, two nights and the day between |

Why the bounds are enough. A status write in flight matters only through the next
one, so two overlap in every way there is; two components show one recovering while
the other is in fault. The loop needs a second target to send one while another is
scheduled. Blocks are forgotten once more than `max_scripts` are done, so three
targets with `max_scripts` 2 reach the limit (`MCScriptTracking`, where every mishap
may happen at every await); a block of two scripts shows the partial failures, and one
foreign script the indices that are not consecutive (`MCScriptTrackingLive`;
`LongSize` is the number of scripts of one target's block, the others have one).
`FewLost` ends a behaviour when a second target is lost: what is lost is in no list, and
only its scripts, in the way of others on the ScriptQueue, still matter. One cleanup
without the lock is followed at a time, and no stop is timed out while a fault cleans
up. Blocks of several scripts with faults and stops that are timed out, and what follows
a second lost target, are left to the proofs, which have no such bound.

`n_targets` 1 puts two targets on the queue, so that one may fail while another is
scheduled and a third planned, and the third comes only by a load; more files than
`MaxFiles` cannot be in use at once (`DriverStateAssumption`). `FewStrays` of
`MCDriverState` follows a selection that outlived its loop only while there is no load;
the proofs have both. Two starts show one that
fails and its retry, or one sent while the other runs. The program begins in the
first night; the updates of that night, the day after it and the second night show a
night that is counted and the boundaries of the next one used. What follows an update
that did not come in time is cut off by the constraint `InTime` of `MCStartup`, since
`NightFollowed` says nothing of it.

`NightFollowed` has a condition, the ghost `upset`. It is FALSE as long as the driver
is updated in every night and every day, by one thread at a time, with the state of
the observatory still in the night or day it was read in. Without any of the three
the code goes wrong: a whole night without an update (the loop in STANDBY, or the
first update made with the time 0 of a state that never arrived) leaves the
boundaries at a night that is over and `is_night` FALSE until the next driver; two
threads may count one night twice.

Runs that end in a violation each check one sentence of the repository:

| Run | The sentence | What the code does |
| --- | --- | --- |
| `MCObservatoryStatusHeld` | "if any single component remains in a FAULT state, the global FAULT status is preserved" (`scheduler_csc.py`:3207) | a start that is retried restores the status of the last session over it |
| `MCScriptTrackingWhole` | "Non consecutive salindex for block ... Marking block as failed." (`scheduler_csc.py`:1229) | the target of such a block is scheduled, and registered as observed if the scripts it has end well |
| `MCTargetLoopReturns` | "transitioning from idle to running then back to idle" (`scheduler_csc.py`:2990) | a prediction shorter than a poll is never seen to end |

Four more sentences are stated in the modules and have no run of their own; put the
name after INVARIANT (or PROPERTY) in the cfg that is named to see TLC refute them:

* `DisabledNotOperational` (`MCObservatoryStatusHeld.cfg`): "Unset the OPERATIONAL flag
  automatically if the Scheduler CSC is disabled or stopped."
  (`doc/version_history.rst`:90). It is unset before the background tasks end, and an
  updateObservatoryStatus in between sets it again.
* `StopKeepsTrack` (`MCTargetLoop.cfg`): scheduled observations "continue and will
  continue to register" (`doc/developer-guide/developer-guide.rst`:67). stop forgets the
  target whose script it lets run.
* `IdleMeansStopped`, which holds in `MCTargetLoop`, with predictions
  (`MCTargetLoopPredict.cfg`): IDLE is for a CSC "not in ENABLED state or ... not
  running" (`utils/csc_utils.py`:96). A computePredictedSchedule that a resume has
  overtaken is refused, and its `idle_to_running` takes RUNNING down under the
  resumed loop all the same (`scheduler_csc.py`:2999), which then fails.
* `ResumedLoopRuns`, which holds in `MCTargetLoop`, with stops that outlast
  `loop_die_timeout` (`MCTargetLoopReturns.cfg` with Commands `{"resume", "stop"}` and
  Mishaps `{"loopOutlasts"}`): resume "will cause the CSC to activate the target
  production loop" (`doc/developer-guide/developer-guide.rst`:54). A stop that is timed
  out after it has reported IDLE removes the task of the loop and then fails
  `assert_running`, before it starts another; the next resume finds no task, which is
  not a task that is done (`scheduler_csc.py`:586), starts none, and reports RUNNING.

What the new modules show of the code without contradicting a document:

* a HOT start after a start that failed while it configured the driver finds a driver
  and leaves it unconfigured (`StartedIsWhole` allows it);
* the target kept for after wavefront sensing survives predictions, rollbacks and
  loads (`Restores` does not touch `desired`);
* a stop, a refused put or a failed block drops targets without taking the driver
  back: it goes on counting them (`StopCleansUp`, `QueuePuts`);
* if the ScriptQueue does not answer while the state of the observatory is missing,
  the telemetry loop ends and nothing but a disable or a standby starts another
  (`TelemetryFails`);
* after a HOT start the ids of alerts begin at 1 again while the driver still has
  those of the last client.

### Fairness

Weak fairness for each coroutine of `TargetLoop` and `ScriptTracking`: the event loop
runs what can run, and each call to the ScriptQueue, the driver or the middleware
returns or raises. In `ScriptTracking`, events arrive and the script that is running
ends. In `ObservatoryStatus` the only fairness is that a write which was started
completes: the telemetry loop may skip any cycle, end or go to FAULT, so `DayIsFlagged`
is conditional, and says what follows if the loop does go on handling the day. No
fairness is assumed of operators, of components, of the sun, of scripts that wait, or
of anything that fails.

### Assumptions

* Writes of the status complete in the order in which they were started, and one that
  was started is not cancelled: a cycle of the telemetry that times out is cut before
  its write, in the code perhaps also within it.
* Whoever enables the CSC has waited for the answers to the commands sent before
  (`Quiet`), and whoever starts it for the standby.
* addBlock names each block once at a time; two addBlock commands do not wait for
  the lock together. `KeepsPromise` and the safety runs of the loop are checked
  without blocks: an added block is sent in IDLE, as documented.
* The ScriptQueue runs scripts one at a time in order, and a script does not end
  before the CSC has the answer to the command that added it.
* The supply of targets is finite in `ScriptTracking`, which may therefore stop
  (`CHECK_DEADLOCK FALSE`): when all were sent nothing more happens.
* In `Startup` the CSC may stop in STANDBY when nobody starts it again, and time ends
  at `MaxTime` (`CHECK_DEADLOCK FALSE`). standby, enable and disable are one step
  each: they are sent one after the other, and what they wait for may also end before.
* In `DriverState` targets that were selected before are not asked for once more by a
  loaded snapshot or list (`Spent`): that would be another observation. For the same
  reason a field in use that a stray selection hands back to the algorithm (`Taken`) is
  another target; in the code it would be observed once more. One stray selection is
  followed at a time. A file that
  nothing names stays on disk and is left out. The loop that `Enables` starts is
  alone.
* In ADVANCE mode updates of the telemetry exclude each other, by
  `_detailed_state_lock` and because a start runs in STANDBY. In SIMPLE mode they do
  not, which is not modelled.

## What is proved

Every safety property of every passing run, invariant or action property, is proved
for all values of the constants, and so is the refinement of `Production`; the
property of `MCScriptTrackingWhole` is proved under the hypothesis that its
counterexample breaks. `PROJECT.json` lists the theorems. The only
assumptions are those the modules make of their constants (`ConstantsAssumption`,
`TargetLoopAssumption`, `ScriptTrackingAssumption`, `DriverStateAssumption`,
`NoneAssumption`, `TelemetryAssumption`, `StartupAssumption`) and, where a theorem says
`ASSUME`, its hypothesis. None of the proofs uses fairness.

All proofs go the same way: an inductive invariant, one lemma for each of its
parts with one step per action of `Next`, and a last temporal step. What the
invariants add to the properties, and why:

**`ObservatoryStatusProofs`** (five theorems). `NoOperationalConflict` is not inductive:
the stored status is written back at the next start, and the word a resume has
checked is written after an await, so `StatusInv` also says that what is stored is
consistent. `EventFollowsStatus` speaks of states without writes in flight;
`StatusInv` says that the last write in flight carries the FAULT flag of the word.
`InFaultIsListed` needs `FaultsBlamed`: for a component in FAULT that is not yet
listed, a write that will list it is in flight. `FaultFlagSticks` is an action
property and needs `SessionInv`, in which summary states a standby, start, disable or
fault may be under way.

**`TargetLoopProofs`** (six theorems). `CoreInv` says which coroutine may be where
(`PcTypes`), who stands in the queue of which lock (`LocksOK`: whoever is at a label of
a critical section is in the queue, and first in it when the section is his), which
tasks exist (`TasksOK`: a stop that was abandoned has killed the loop before it starts
another, and a prediction's task does not outlive the command), and that the
detailed state names what its holder does (`OperationsOK`). `LoopTypeCorrect`,
`LocksAsked` and `OperationsReported` follow without any hypothesis, with
predictions, blocks, timeouts and failing steps. Most steps see the locks only by the
`Turn` of one coroutine, so one lemma carries `LocksOK` over all of them.

The other three need to know who else moves the detailed state:

* `IdleStopped` and `PromiseKept` assume `LoopAlone`: no computePredictedSchedule, no
  addBlock, and no stopScripts that fails. Each of the three alone breaks
  `KeepsPromise`, as TLC shows when it is let into `MCTargetLoop.cfg`: what is proved is
  the promise of a loop that nobody else moves, not of the CSC under every command.
  A prediction may take RUNNING down under the loop (see above), a block's task can do
  the same (and is sent in IDLE, as documented), and a stop that fails at the
  ScriptQueue leaves RUNNING behind. Stops that outlast `loop_die_timeout`,
  disables, faults and steps that raise are all allowed. `RunInv` and `IdleInv` say
  which coroutine is about to set or to answer for `run_target_loop` while the detailed
  state is not yet the one it stands for.
* `ResumedRuns` assumes `Patient`, which also leaves out the stops that outlast
  `loop_die_timeout`: one may leave no loop to resume (see above). Its invariants say
  when the timer of the loop may run (`TimerInv`) and that a stop comes to IDLE only
  behind a loop that still has to see its timer cancelled (`AliveInv`, with the order of
  the two in the queue of `_detailed_state_lock`).

**`ScriptTrackingProofs`** (six theorems). `Sound` is the base: a sample or an entry of
`script_info` that says how a script ended is right (`Right`), there is one entry per
script, one target in hand, a future only for a script that exists, and
`OldestForgotten`, which is inductive with the types. `Moves` sums up where a step may
take a target; the three lemmas after it are proved from `Moves`, not action by action.
`RegisteredDone` needs that entries as many as scripts are entries for each of the
scripts (an injection of a finite set into itself), and holds whatever was dropped.
`GoneLeft` is about the targets whose removal the ScriptQueue has answered, by whoever
removed them, with every mishap; it needs that between the request to stop the scripts
and the loop that marks them nothing is added for a withdrawn or discarded target, and
that a script that was spared as running is still the running one. When a removal fails
live scripts do stay, of targets that are `lost`; no document says otherwise.
`CapacityKept` has no hypothesis: blocks may be forgotten while their target is
scheduled, and removals may fail. It counts the targets in hand or scheduled, but for
those whose futures a cleanup that a KeyError cut short has emptied, and lost ones are
in no list; `_queue_capacity` knows nothing of either.
`Excused` lists the reasons why a live script may have no pending
future. `RegisteredWhole` assumes that nobody else adds scripts;
`MCScriptTrackingWhole` shows that one is enough.

**`DriverStateProofs`** (six theorems). `ControlInv` (locks, and whose snapshot is open),
`FilesInv` (each target in use has a file of its own, on disk), `CountInv` (all
snapshots count only what was issued), `LoadInv` (none that may be restored is older than
the last secured load, one made with nothing under way: `LoadKept` says nothing of a load
that a resume or a prediction has overtaken while its file was fetched), `OrderInv` (snapshots of one load are ordered as the
selections were) and `WaitingInv` (nothing under way is waiting, in the driver or in
the open snapshot). The order is what `FailedForgotten` and `NotSelectedTwice` need: a
rollback takes the driver behind the oldest failed target, and everything selected
later is dropped with it.

**`StartupProofs`** (five theorems). `OneStart` and `WholeInv` say what a start has set up
at each of its awaits; `LoopInv` that an update follows a state that arrived; `IdsInv` that
the alerts of a query are made only for sources without one; `NightInv`, for each
step of the thread of `update_conditions`, which nights the driver has counted (`NightsGrow`:
how their number changes with time).

Where a proof has to open an operator, the models use function constructors and not
`SelectSeq` or `@@`, whose definitions the provers cannot use; what they compute is the
same.

Only model-checked, because the prover has neither fairness nor ENABLED:
`StopEnds`, `ResumeEnds`, `BlocksEnd`, `EndIsSeen`, `ClearedFlagIsSignalled` and
`DayIsFlagged`. Of the violation runs nothing is proved but what is said above.

## Not modelled

* The configuration schema and the values of settings, S3, the mocks, the EFD helpers:
  computation or I/O without state that two coroutines share.
* The surveys, conditions and slews of the feature scheduler: rubin_scheduler does them;
  a selection is any target that may be selected.
* The status of blocks (`_update_block_status`, getBlockStatus) and what makes a block
  valid. Two overlapping updates of one status may lose a completion (see the
  hazards).
* The cache of the cloud maps: entries are keyed by file name and leave with their age;
  an update of the telemetry fails if one download does.
* Real time, and the updates of the SIMPLE loop that run beside those of the
  telemetry loop.

## Plan

1. Weaker hypotheses for the loop: `IdleStopped` and `PromiseKept` with blocks that are
   added only while the loop is stopped, and an abstract `Production` with predictions.
2. A bound under which no block is forgotten whose target is still followed:
   `n_targets` + 1 targets scheduled, and more than that kept by `max_scripts`.
3. The safety halves of the liveness properties: while a coroutine waits for a lock,
   somebody holds it who can go on.
4. The status of the blocks, and the SIMPLE loop with its updates of the telemetry.
