------------------------------- MODULE Telemetry -------------------------------
(***************************************************************************)
(* How the Scheduler CSC keeps its driver informed: the state of the       *)
(* observatory, the telemetry streams, the alerts of targets of            *)
(* opportunity and the cloud maps, and what the driver makes of them, the  *)
(* beginning and the end of the nights above all (telemetry_loop of        *)
(* scheduler_csc.py, Model.update_telemetry, too_client.py and             *)
(* Driver.update_conditions).                                              *)
(*                                                                         *)
(* In ADVANCE mode one coroutine at a time updates the telemetry: the      *)
(* telemetry loop and the target production loop do it under               *)
(* _detailed_state_lock, a start while neither runs.  update_conditions    *)
(* runs in a thread of the executor, which a coroutine that is cancelled   *)
(* leaves behind.  Startup says when there is a driver, and who runs.      *)
(***************************************************************************)
EXTENDS Naturals, FiniteSets

CONSTANTS Sources,   \* the sources of alerts
          Threads,   \* the threads of the executor (bounded)
          Unknown,   \* is_night before the first update
          MaxTime    \* bound on the time

ASSUME TelemetryAssumption ==
  /\ MaxTime \in Nat /\ MaxTime >= 3
  /\ Unknown \notin BOOLEAN
  /\ "none" \notin Threads

VARIABLES clock,      \* the time, in days and nights
          stateTime,  \* observatory_state.time
          inSync,     \* telemetry_in_sync.is_set()
          by,         \* the coroutine that updates the telemetry, or nobody
          at,         \* how far it has got
          mine,       \* the thread it waits for
          alerts,     \* TooClient.too_alerts: the tooid of each source
          nextId,     \* TooClient._index_generator
          todo,       \* the sources of a query whose map is still to come
          given,      \* raw_telemetry["too_alerts"], empty if missing
          sky,        \* time of the sky model
          thread,     \* what each thread of the executor does
          driver      \* the driver: see Drivers

client == <<alerts, nextId, todo>>
update == <<by, at, mine>>
telemetryVars == <<clock, stateTime, inSync, update, client, given, sky, thread, driver>>

(***************************************************************************)
(* Time: odd is night, even is day.  The state of the observatory starts   *)
(* at time 0, long before the clock does.                                  *)
(***************************************************************************)
Times == 0..MaxTime
Night(t) == t % 2 = 1

(* get_night_boundaries of the sky model: the night it is, or the next.    *)
NightFrom(t) == IF Night(t) THEN t ELSE t + 1

(* The nights that end after one time, and no later than another.          *)
NightsBetween(first, last) == {n \in Times : Night(n) /\ first <= n /\ n < last}

(* A driver: the start that made it, whether it was configured, is_night,  *)
(* night, the night whose sunset and sunrise it has, and the targets of    *)
(* opportunity it knows.                                                   *)
(* Ghosts: the state times it was first and last updated with, and whether *)
(* something came in between its updates that they do not allow for.       *)
Drivers == [made : Nat, configured : BOOLEAN,
            isNight : BOOLEAN \cup {Unknown}, night : Nat, sunset : Nat,
            alerts : SUBSET (Sources \X Nat),
            first : Times, last : Times, upset : BOOLEAN]

NewDriver(start) ==
  [made |-> start, configured |-> FALSE,
   isNight |-> Unknown, night |-> 1, sunset |-> 0, alerts |-> {},
   first |-> 0, last |-> 0, upset |-> FALSE]

Free == [step |-> "free", was |-> FALSE]

TelemetryInit ==
  /\ clock = 3
  /\ stateTime = 0 /\ inSync = FALSE
  /\ by = "nobody" /\ at = "off" /\ mine = "none"
  /\ alerts = << >> /\ nextId = 1 /\ todo = {} /\ given = {}
  /\ sky = 0
  /\ thread = [x \in Threads |-> Free]

TimePasses ==
  /\ clock < MaxTime
  /\ clock' = clock + 1
  /\ UNCHANGED <<stateTime, inSync, update, client, given, sky, thread, driver>>

(***************************************************************************)
(* The telemetry loop: first the state of the observatory, then the        *)
(* telemetry, for the general info.                                        *)
(***************************************************************************)
(* Ghost: the state moves to another day or night under a running update.  *)
Upsets == \E x \in Threads : thread[x].step \in {"writes", "counts"} /\ sky # clock

StateArrives ==
  /\ by # "info"
  /\ stateTime' = clock
  /\ inSync' = TRUE
  /\ driver' = [driver EXCEPT !.upset = @ \/ Upsets]
  /\ UNCHANGED <<clock, update, client, given, sky, thread>>

StateFails ==
  /\ by # "info"
  /\ inSync' = FALSE
  /\ UNCHANGED <<clock, stateTime, update, client, given, sky, thread, driver>>

(* No thread is busy with the driver there is.                             *)
Settled == \A x \in Threads : thread[x].step \in {"free", "stale"}

(***************************************************************************)
(* update_telemetry.                                                       *)
(***************************************************************************)
UpdateBegins(who) ==
  /\ by = "nobody"
  /\ by' = who /\ at' = "streams"
  /\ UNCHANGED <<clock, inSync, mine, client, given, sky, thread>>

Alerts == {<<s, alerts[s]>> : s \in DOMAIN alerts}

(* Mutant: every alert of the query is made anew.                          *)
AlertsReadAgain ==
  /\ at = "streams"
  /\ \E found \in SUBSET Sources : todo' = found
  /\ at' = "maps"
  /\ UNCHANGED <<clock, stateTime, inSync, by, mine, alerts, nextId, given, sky, thread, driver>>

(* The streams, then the alerts there are in the EFD, but for the tests.   *)
(* Those the client has are skipped, updates of them too.                  *)
AlertsRead ==
  /\ at = "streams"
  /\ \E found \in SUBSET Sources : todo' = found \ DOMAIN alerts
  /\ at' = "maps"
  /\ UNCHANGED <<clock, stateTime, inSync, by, mine, alerts, nextId, given, sky, thread, driver>>

(* Mutant: the generator does not move on.                                 *)
MapReadReuses(s) ==
  /\ at = "maps" /\ s \in todo
  /\ alerts' = [t \in DOMAIN alerts \cup {s} |-> IF t = s THEN nextId ELSE alerts[t]]
  /\ nextId' = nextId
  /\ todo' = todo \ {s}
  /\ UNCHANGED <<clock, stateTime, inSync, update, given, sky, thread, driver>>

MapRead(s) ==
  /\ at = "maps" /\ s \in todo
  /\ alerts' = [t \in DOMAIN alerts \cup {s} |-> IF t = s THEN nextId ELSE alerts[t]]
  /\ nextId' = nextId + 1
  /\ todo' = todo \ {s}
  /\ UNCHANGED <<clock, stateTime, inSync, update, given, sky, thread, driver>>

(* raw_telemetry keeps what it has when the client has nothing.            *)
AlertsGiven ==
  /\ at = "maps" /\ todo = {}
  /\ given' = IF Alerts = {} THEN given ELSE Alerts
  /\ at' = "clouds"
  /\ UNCHANGED <<clock, stateTime, inSync, by, mine, client, sky, thread, driver>>

(* The cloud maps; then update_conditions, in a thread.                    *)
CloudsRead ==
  /\ at = "clouds"
  /\ \E x \in Threads :
       /\ thread[x].step = "free"
       /\ mine' = x
       /\ thread' = [thread EXCEPT ![x].step = "reads"]
       /\ driver' = [driver EXCEPT !.upset = @ \/ ~Settled]
  /\ at' = "conditions"
  /\ UNCHANGED <<clock, stateTime, inSync, by, client, given, sky>>

(* A query, a download or a map raises: UpdateTelemetryError.  What was    *)
(* read before stays.                                                      *)
Leaves ==
  /\ by' = "nobody" /\ at' = "off" /\ mine' = "none"
  /\ todo' = {}

UpdateFails(who) ==
  /\ by = who /\ at \in {"streams", "maps", "clouds"}
  /\ Leaves
  /\ UNCHANGED <<clock, stateTime, inSync, alerts, nextId, given, sky, thread, driver>>

(* Cancelled by the timeout of the general info, by a stop or with all the *)
(* background tasks.  The thread goes on.                                  *)
UpdateCancelled(who) ==
  /\ by = who
  /\ Leaves
  /\ UNCHANGED <<clock, stateTime, inSync, alerts, nextId, given, sky, thread, driver>>

(***************************************************************************)
(* Driver.update_conditions, in the thread x.  It reads what the telemetry *)
(* loop and other threads may be changing.                                 *)
(***************************************************************************)
(* Ghost: a whole day or night goes by without an update.                  *)
Misses(t) == driver.isNight # Unknown /\ t > driver.last + 1

ConditionsRead(x) ==
  /\ thread[x].step = "reads"
  /\ sky' = stateTime
  /\ LET d == IF driver.isNight # Unknown THEN driver
              ELSE [driver EXCEPT !.sunset = NightFrom(stateTime),
                                  !.isNight = Night(stateTime),
                                  !.first = stateTime, !.last = stateTime]
     IN /\ thread' = [thread EXCEPT ![x] = [step |-> "writes", was |-> d.isNight]]
        /\ driver' = [d EXCEPT !.upset = @ \/ Misses(stateTime)]
  /\ UNCHANGED <<clock, stateTime, inSync, update, client, given>>

ConditionsWritten(x) ==
  /\ thread[x].step = "writes"
  /\ driver' = [driver EXCEPT !.isNight = (stateTime = driver.sunset), !.last = stateTime]
  /\ thread' = [thread EXCEPT ![x].step = "counts"]
  /\ UNCHANGED <<clock, stateTime, inSync, update, client, given, sky>>

(* Back to the coroutine that waits for the thread, if there is one still. *)
ThreadEnds(x) ==
  /\ thread' = [thread EXCEPT ![x] = Free]
  /\ IF mine = x THEN by' = "nobody" /\ at' = "off" /\ mine' = "none"
                 ELSE UNCHANGED update

NightEnds(x) == ~driver.isNight /\ thread[x].was

(* Mutant: the boundaries of the next night are left for later.            *)
ConditionsCountedOnly(x) ==
  /\ thread[x].step = "counts"
  /\ driver' = [driver EXCEPT !.night = IF NightEnds(x) THEN @ + 1 ELSE @,
                              !.alerts = IF given = {} THEN @ ELSE given]
  /\ ThreadEnds(x)
  /\ UNCHANGED <<clock, stateTime, inSync, client, given, sky>>

ConditionsCounted(x) ==
  /\ thread[x].step = "counts"
  /\ driver' = [driver EXCEPT !.night = IF NightEnds(x) THEN @ + 1 ELSE @,
                              !.sunset = IF NightEnds(x) THEN NightFrom(sky) ELSE @,
                              !.alerts = IF given = {} THEN @ ELSE given]
  /\ ThreadEnds(x)
  /\ UNCHANGED <<clock, stateTime, inSync, client, given, sky>>
================================================================================
