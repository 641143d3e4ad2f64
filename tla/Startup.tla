-------------------------------- MODULE Startup --------------------------------
(***************************************************************************)
(* How the Scheduler CSC is started, and what it starts: the start command *)
(* makes new clients, loads the observing blocks, makes and configures a   *)
(* driver in one of three ways, HOT, WARM or COLD, and validates the       *)
(* blocks; then the telemetry loop runs, and once the CSC is enabled the   *)
(* target production loop, whose updates Telemetry has (scheduler_csc.py   *)
(* and model.py).                                                          *)
(*                                                                         *)
(* standby and the transitions after it are sent one at a time; a start    *)
(* may be sent while another runs.                                         *)
(***************************************************************************)
EXTENDS Telemetry

CONSTANTS Starters,   \* the start commands that may be under way at once
          MaxStarts   \* bound on the start commands

ASSUME StartupAssumption == MaxStarts \in Nat /\ "none" \notin Starters

VARIABLES csc,       \* summary state
          looping,   \* the telemetry loop runs
          loop,      \* the target production loop, up to its update
          ack,       \* the start whose ack_in_progress_task runs, or none
          pc,        \* how far each start has got
          kind,      \* its startup_type
          number,    \* which start it is
          starts,    \* start commands so far
          blocks,    \* the start observing_blocks are of
          valid,     \* and that of the blocks valid_observing_blocks is of
          lastKind,  \* ghost: startup_type of the last start that succeeded
          failed     \* ghost: the starts that failed

starting == <<ack, pc, kind, number, starts>>
loops == <<looping, loop>>
ghosts == <<lastKind, failed>>
startupVars == <<csc, loops, starting, blocks, valid, ghosts>>
vars == <<telemetryVars, startupVars>>

Kinds == {"HOT", "WARM", "COLD"}

Init ==
  /\ TelemetryInit
  /\ driver = NewDriver(0)
  /\ csc = "STANDBY" /\ looping = FALSE /\ loop = "off"
  /\ ack = "none" /\ starts = 0
  /\ pc = [s \in Starters |-> "off"]
  /\ kind = [s \in Starters |-> "HOT"]
  /\ number = [s \in Starters |-> 0]
  /\ blocks = 0 /\ valid = 0
  /\ lastKind = "HOT" /\ failed = {}

(* What a start knows goes with it.                                        *)
Gone(s) ==
  /\ ack' = "none"
  /\ pc' = [pc EXCEPT ![s] = "off"]
  /\ kind' = [kind EXCEPT ![s] = "HOT"]
  /\ number' = [number EXCEPT ![s] = 0]

At(s, l) == pc[s] = l
Goto(s, l) == pc' = [pc EXCEPT ![s] = l]

(* Model.driver is not None.                                               *)
HasDriver == driver.made # 0

(***************************************************************************)
(* The start command.                                                      *)
(***************************************************************************)
(* Mutant: a start may begin while another runs.                           *)
StartAskedTwice(s) ==
  /\ csc = "STANDBY"
  /\ At(s, "off") /\ starts < MaxStarts
  /\ ack' = s
  /\ starts' = starts + 1
  /\ number' = [number EXCEPT ![s] = starts']
  /\ \E k \in Kinds : kind' = [kind EXCEPT ![s] = k]
  /\ Goto(s, "asked")
  /\ UNCHANGED <<telemetryVars, csc, loops, blocks, valid, ghosts>>

StartAsked(s) ==
  /\ csc = "STANDBY"
  /\ ack = "none"
  /\ At(s, "off") /\ starts < MaxStarts
  /\ ack' = s
  /\ starts' = starts + 1
  /\ number' = [number EXCEPT ![s] = starts']
  /\ \E k \in Kinds : kind' = [kind EXCEPT ![s] = k]
  /\ Goto(s, "asked")
  /\ UNCHANGED <<telemetryVars, csc, loops, blocks, valid, ghosts>>

(* configure_telemetry_streams: new clients, that know nothing.            *)
StartMakesClients(s) ==
  /\ At(s, "asked")
  /\ alerts' = << >> /\ nextId' = 1 /\ given' = {}
  /\ Goto(s, "clients")
  /\ UNCHANGED <<clock, stateTime, inSync, update, todo, sky, thread, driver, csc, loops, ack,
                 kind, number, starts, blocks, valid, ghosts>>

(* A thread that updates the driver that is replaced changes the sky model *)
(* still, and nothing else that matters.                                   *)
Orphaned ==
  [x \in Threads |-> IF thread[x].step = "reads" THEN [thread[x] EXCEPT !.step = "stale"]
                                                 ELSE Free]

OrphanEnds(x) ==
  /\ thread[x].step = "stale"
  /\ sky' = stateTime
  /\ thread' = [thread EXCEPT ![x] = Free]
  /\ UNCHANGED <<clock, stateTime, inSync, update, client, given, driver, startupVars>>

(* Mutant: a WARM start keeps the driver as well.                          *)
StartKeepsWarm(s) ==
  /\ At(s, "clients")
  /\ blocks' = number[s]
  /\ kind[s] \in {"HOT", "WARM"} /\ HasDriver
  /\ Goto(s, "validating")
  /\ UNCHANGED <<telemetryVars, csc, loops, ack, kind, number, starts, valid, ghosts>>

(* The observing blocks, and a HOT start that finds a driver is done with  *)
(* it, configured or not.                                                  *)
StartKeepsDriver(s) ==
  /\ At(s, "clients")
  /\ blocks' = number[s]
  /\ kind[s] = "HOT" /\ HasDriver
  /\ Goto(s, "validating")
  /\ UNCHANGED <<telemetryVars, csc, loops, ack, kind, number, starts, valid, ghosts>>

StartLoadsDriver(s) ==
  /\ At(s, "clients")
  /\ blocks' = number[s]
  /\ kind[s] # "HOT" \/ ~HasDriver
  /\ driver' = NewDriver(number[s])
  /\ thread' = Orphaned
  /\ Goto(s, "driver")
  /\ UNCHANGED <<clock, stateTime, inSync, update, client, given, sky, csc, loops, ack, kind,
                 number, starts, valid, ghosts>>

(* load_scheduler_configuration, in another process.                       *)
StartConfiguresDriver(s) ==
  /\ At(s, "driver")
  /\ driver' = [driver EXCEPT !.configured = TRUE]
  /\ Goto(s, "history")
  /\ UNCHANGED <<clock, stateTime, inSync, update, client, given, sky, thread, csc, loops, ack,
                 kind, number, starts, blocks, valid, ghosts>>

(* The snapshot, or the observations from the EFD, or none.                *)
StartLoadsHistory(s) ==
  /\ At(s, "history")
  /\ Goto(s, "validating")
  /\ UNCHANGED <<telemetryVars, csc, loops, ack, kind, number, starts, blocks, valid, ghosts>>

(* A database of observations is played back into a driver that has been   *)
(* told the conditions of now.                                             *)
StartUpdates(s) ==
  /\ At(s, "history") /\ kind[s] = "COLD"
  /\ stateTime' = clock
  /\ driver' = [driver EXCEPT !.upset = @ \/ Upsets]
  /\ UpdateBegins("start")
  /\ Goto(s, "playing")
  /\ UNCHANGED <<todo, csc, loops, ack, kind, number, starts, blocks, valid, ghosts>>

StartPlaysBack(s) ==
  /\ At(s, "playing") /\ by = "nobody"
  /\ Goto(s, "validating")
  /\ UNCHANGED <<telemetryVars, csc, loops, ack, kind, number, starts, blocks, valid, ghosts>>

(* The configuration of every script of the blocks is asked for, and the   *)
(* blocks are checked against it.                                          *)
StartValidates(s) ==
  /\ At(s, "validating")
  /\ valid' = blocks
  /\ Goto(s, "publishing")
  /\ UNCHANGED <<telemetryVars, csc, loops, ack, kind, number, starts, blocks, ghosts>>

(* The settings are published, the start is acknowledged, and what belongs *)
(* to a CSC in DISABLED is started.                                        *)
StartEnds(s) ==
  /\ At(s, "publishing")
  /\ csc' = "DISABLED" /\ looping' = TRUE
  /\ lastKind' = kind[s]
  /\ Gone(s)
  /\ UNCHANGED <<telemetryVars, loop, starts, blocks, valid, failed>>

(* Anything raises.  What was done until then stays: nothing of it is      *)
(* taken back, the blocks may be wiped out by then, and so may those that  *)
(* were valid.                                                             *)
StartRaises(s) ==
  /\ blocks' \in IF At(s, "clients") THEN {blocks, number[s]} ELSE {blocks}
  /\ valid' \in IF At(s, "validating") THEN {valid, 0} ELSE {valid}
  /\ failed' = failed \cup {number[s]}
  /\ Gone(s)
  /\ UNCHANGED <<csc, loops, starts, lastKind>>

StartFails(s) ==
  /\ ~At(s, "off")
  /\ IF At(s, "playing") /\ by = "start" THEN UpdateFails("start")
                                         ELSE UNCHANGED telemetryVars
  /\ StartRaises(s)

(***************************************************************************)
(* The other transitions.                                                  *)
(***************************************************************************)
(* _stop_all_background_tasks: what updates the telemetry ends or is       *)
(* cancelled, its thread is left.                                          *)
TasksStop ==
  IF by = "nobody" THEN UNCHANGED telemetryVars ELSE UpdateCancelled(by)

Enable ==
  /\ csc = "DISABLED"
  /\ csc' = "ENABLED"
  /\ inSync' = FALSE
  /\ loop' = "waits"
  /\ UNCHANGED <<clock, stateTime, update, client, given, sky, thread, driver, looping,
                 starting, blocks, valid, ghosts>>

(* All the tasks are stopped, and a new telemetry loop started.            *)
Disable ==
  /\ csc = "ENABLED"
  /\ csc' = "DISABLED"
  /\ TasksStop
  /\ looping' = TRUE /\ loop' = "off"
  /\ UNCHANGED <<starting, blocks, valid, ghosts>>

Standby ==
  /\ csc \in {"DISABLED", "FAULT"}
  /\ csc' = "STANDBY"
  /\ TasksStop
  /\ looping' = FALSE /\ loop' = "off"
  /\ UNCHANGED <<starting, blocks, valid, ghosts>>

(***************************************************************************)
(* The telemetry loop, and the target production loop as far as it updates *)
(* the telemetry.                                                          *)
(***************************************************************************)
TelemetryArrives ==
  /\ looping
  /\ StateArrives
  /\ UNCHANGED startupVars

(* The loop goes on, or goes to FAULT and returns.  If the ScriptQueue     *)
(* does not answer either, what get_queue raises ends the loop, and the    *)
(* CSC may go to FAULT or not.                                             *)
TelemetryFails ==
  /\ looping
  /\ StateFails
  /\ \/ UNCHANGED <<csc, looping>>
     \/ looping' = FALSE /\ csc' \in {csc, "FAULT"}
  /\ UNCHANGED <<loop, starting, blocks, valid, ghosts>>

(* _publish_general_info, while the detailed state is IDLE.                *)
InfoBegins ==
  /\ looping
  /\ UpdateBegins("info")
  /\ UNCHANGED <<stateTime, todo, driver, startupVars>>

(* What it raises is logged; after loop_die_timeout it is cancelled.       *)
InfoFails ==
  /\ UpdateFails("info") \/ UpdateCancelled("info")
  /\ UNCHANGED startupVars

(* A turn of the loop waits for the telemetry first, and then for much     *)
(* else, before it generates the queue.                                    *)
(* Mutant: it does not wait for the telemetry.                             *)
LoopGoesOn ==
  /\ loop = "waits" /\ by # "loop" /\ csc = "ENABLED"
  /\ loop' = "synced"
  /\ UNCHANGED <<telemetryVars, csc, looping, starting, blocks, valid, ghosts>>

LoopSynced ==
  /\ loop = "waits" /\ by # "loop" /\ csc = "ENABLED"
  /\ inSync
  /\ loop' = "synced"
  /\ UNCHANGED <<telemetryVars, csc, looping, starting, blocks, valid, ghosts>>

LoopBegins ==
  /\ loop = "synced"
  /\ UpdateBegins("loop")
  /\ loop' = "waits"
  /\ UNCHANGED <<stateTime, todo, driver, csc, looping, starting, blocks, valid, ghosts>>

LoopFails ==
  /\ UpdateFails("loop")
  /\ csc' = IF csc = "ENABLED" THEN "FAULT" ELSE csc
  /\ loop' = "off"
  /\ UNCHANGED <<looping, starting, blocks, valid, ghosts>>

(* A stop that outlasts its time cancels the loop, and starts another.     *)
LoopCancelled ==
  /\ UpdateCancelled("loop")
  /\ loop' = "waits"
  /\ UNCHANGED <<csc, looping, starting, blocks, valid, ghosts>>

UpdateGoesOn ==
  /\ \/ AlertsRead \/ AlertsGiven \/ CloudsRead
     \/ \E s \in Sources : MapRead(s)
     \/ \E x \in Threads : ConditionsRead(x) \/ ConditionsWritten(x) \/ ConditionsCounted(x)
  /\ UNCHANGED startupVars

Start(s) ==
  \/ StartAsked(s) \/ StartMakesClients(s) \/ StartKeepsDriver(s) \/ StartLoadsDriver(s)
  \/ StartConfiguresDriver(s) \/ StartLoadsHistory(s) \/ StartUpdates(s)
  \/ StartPlaysBack(s) \/ StartValidates(s) \/ StartEnds(s) \/ StartFails(s)

Transitions == Enable \/ Disable \/ Standby

TelemetryLoop == TelemetryArrives \/ TelemetryFails \/ InfoBegins \/ InfoFails

Loop == LoopSynced \/ LoopBegins \/ LoopFails \/ LoopCancelled

Next ==
  \/ \E s \in Starters : Start(s)
  \/ Transitions \/ TelemetryLoop \/ Loop \/ UpdateGoesOn
  \/ \E x \in Threads : OrphanEnds(x)
  \/ TimePasses /\ UNCHANGED startupVars

Spec == Init /\ [][Next]_vars

(***************************************************************************)
(* Properties.                                                             *)
(***************************************************************************)
(* The values each variable takes; the tooids are taken from the generator.*)
TypeOK ==
  /\ clock \in Times /\ stateTime \in Times /\ sky \in Times
  /\ {inSync, looping} \subseteq BOOLEAN
  /\ by \in {"nobody", "info", "loop", "start"}
  /\ at \in {"off", "streams", "maps", "clouds", "conditions"}
  /\ mine \in Threads \cup {"none"}
  /\ DOMAIN alerts \subseteq Sources /\ \A a \in Alerts : a[2] \in 1..(nextId - 1)
  /\ todo \subseteq Sources /\ given \subseteq Sources \X Nat
  /\ \A x \in Threads : thread[x].step \in {"free", "reads", "writes", "counts", "stale"}
  /\ driver \in Drivers
  /\ csc \in {"STANDBY", "DISABLED", "ENABLED", "FAULT"}
  /\ loop \in {"off", "waits", "synced"}
  /\ ack \in Starters \cup {"none"}
  /\ kind \in [Starters -> Kinds]
  /\ {starts, blocks, valid} \subseteq 0..MaxStarts

(* A source has one tooid for as long as the client lives, no two sources  *)
(* share one, and the driver is told no other, although an update may fail *)
(* or be cancelled after any of the maps.  A driver that a HOT start kept  *)
(* knows those of an earlier client until it is told.                      *)
AlertIdsStick ==
  /\ \A a, b \in Alerts : a[2] = b[2] => a = b
  /\ given \subseteq Alerts
  /\ csc # "STANDBY" /\ driver.made = blocks => driver.alerts \subseteq Alerts

(* The driver says whether it was night when it was last updated, and has  *)
(* counted each night that has ended since the first update once, whoever  *)
(* updated it, failed or was cancelled, provided that the updates came in  *)
(* time and one by one (Driver.update_conditions).                         *)
NightFollowed ==
  Settled /\ ~driver.upset /\ driver.isNight # Unknown =>
    /\ driver.isNight = Night(driver.last)
    /\ driver.night = 1 + Cardinality(NightsBetween(driver.first, driver.last))

(* The loop generates targets only with a driver that a start has made,    *)
(* and for a state of the observatory that has arrived                     *)
(* (telemetry_in_sync), whatever the telemetry does in between.            *)
LoopKnowsState == by = "loop" => stateTime # 0 /\ HasDriver

(* A CSC that has been started has what one start has set up, not parts of *)
(* several: the blocks it offers are those it validated, and the driver is *)
(* that of the last start, unless that was HOT and there was one.  It is   *)
(* configured, unless the start that made it failed.                       *)
StartedIsWhole ==
  csc \in {"DISABLED", "ENABLED"} =>
    /\ valid = blocks
    /\ HasDriver
    /\ driver.made = blocks \/ lastKind = "HOT"
    /\ driver.configured \/ driver.made \in failed
================================================================================
