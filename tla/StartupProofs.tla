----------------------------- MODULE StartupProofs -----------------------------
(***************************************************************************)
(* Proofs about Startup and Telemetry, for any number of starts, sources   *)
(* of alerts, threads of the executor, days and nights.                    *)
(***************************************************************************)
EXTENDS Startup, FiniteSetTheorems, TLAPS

Steps == {"free", "reads", "writes", "counts", "stale"}
Labels == {"off", "asked", "clients", "driver", "history", "playing", "validating",
           "publishing"}

(* The types of the variables of Telemetry, and of those Startup adds.     *)
TelemetryType ==
  /\ clock \in Times /\ stateTime \in Times /\ sky \in Times
  /\ inSync \in BOOLEAN
  /\ by \in {"nobody", "info", "loop", "start"}
  /\ at \in {"off", "streams", "maps", "clouds", "conditions"}
  /\ mine \in Threads \cup {"none"}
  /\ DOMAIN alerts \subseteq Sources /\ nextId \in Nat \ {0}
  /\ \A s \in DOMAIN alerts : alerts[s] \in 1..(nextId - 1)
  /\ todo \subseteq Sources /\ given \subseteq Sources \X Nat
  /\ thread \in [Threads -> [step : Steps, was : BOOLEAN \cup {Unknown}]]
  /\ driver \in Drivers

StartupType ==
  /\ csc \in {"STANDBY", "DISABLED", "ENABLED", "FAULT"}
  /\ looping \in BOOLEAN
  /\ loop \in {"off", "waits", "synced"}
  /\ ack \in Starters \cup {"none"}
  /\ pc \in [Starters -> Labels]
  /\ kind \in [Starters -> Kinds]
  /\ number \in [Starters -> 0..MaxStarts]
  /\ starts \in 0..MaxStarts /\ blocks \in 0..MaxStarts /\ valid \in 0..MaxStarts
  /\ lastKind \in Kinds /\ failed \subseteq 0..MaxStarts

TypeInv == TelemetryType /\ StartupType

LEMMA TypeParts == TypeInv => TypeOK
BY DEF TypeInv, TelemetryType, StartupType, TypeOK, Alerts, Steps

(* Any coroutine's step of an update keeps the types.                      *)
LEMMA TelemetryTyped ==
  ASSUME TelemetryType
  PROVE  /\ UNCHANGED telemetryVars => TelemetryType'
         /\ StateArrives => TelemetryType'
         /\ StateFails => TelemetryType'
         /\ AlertsRead => TelemetryType'
         /\ \A s \in Sources : MapRead(s) => TelemetryType'
         /\ AlertsGiven => TelemetryType'
         /\ CloudsRead => TelemetryType'
         /\ \A x \in Threads : ConditionsRead(x) => TelemetryType'
         /\ \A x \in Threads : ConditionsWritten(x) => TelemetryType'
         /\ \A x \in Threads : ConditionsCounted(x) => TelemetryType'
         /\ \A x \in Threads : OrphanEnds(x) => TelemetryType'
         /\ \A who : UpdateFails(who) \/ UpdateCancelled(who) => TelemetryType'
         /\ \A who \in {"info", "loop", "start"} :
              UpdateBegins(who) /\ stateTime' \in {stateTime, clock} /\ todo' = todo
                /\ driver' \in Drivers => TelemetryType'
         /\ TimePasses => TelemetryType'
<1> USE DEF TelemetryType
<1>1. UNCHANGED telemetryVars => TelemetryType'
  BY DEF telemetryVars, update, client
<1>2. StateArrives => TelemetryType'
  BY DEF StateArrives, update, client, Drivers
<1>3. StateFails => TelemetryType'
  BY DEF StateFails, update, client
<1>4. AlertsRead => TelemetryType'
  BY DEF AlertsRead
<1>5. ASSUME NEW s \in Sources, MapRead(s) PROVE TelemetryType'
  BY <1>5 DEF MapRead, update
<1>6. AlertsGiven => TelemetryType'
  BY DEF AlertsGiven, Alerts, client
<1>7. ASSUME CloudsRead PROVE TelemetryType'
  <2>1. PICK x \in Threads : /\ thread' = [thread EXCEPT ![x].step = "reads"]
                             /\ mine' = x
    BY <1>7 DEF CloudsRead
  <2>2. thread' \in [Threads -> [step : Steps, was : BOOLEAN \cup {Unknown}]]
    BY <2>1 DEF Steps
  <2>3. driver' \in Drivers
    BY <1>7 DEF CloudsRead, Drivers
  <2> QED
    BY <1>7, <2>1, <2>2, <2>3 DEF CloudsRead, client
<1>8. ASSUME NEW x \in Threads, ConditionsRead(x) PROVE TelemetryType'
  <2> DEFINE from == NightFrom(stateTime)
             night == Night(stateTime)
             d == IF driver.isNight # Unknown THEN driver
                  ELSE [driver EXCEPT !.sunset = from, !.isNight = night,
                                      !.first = stateTime, !.last = stateTime]
  <2>1. from \in Nat /\ night \in BOOLEAN
    BY DEF Times, Night, NightFrom
  <2>2. d \in Drivers
    <3> HIDE DEF from, night
    <3> QED
      BY <2>1 DEF Drivers
  <2>3. /\ thread' = [thread EXCEPT ![x] = [step |-> "writes", was |-> d.isNight]]
        /\ driver' = [d EXCEPT !.upset = @ \/ Misses(stateTime)]
        /\ sky' = stateTime
        /\ UNCHANGED <<clock, stateTime, inSync, update, client, given>>
    BY <1>8 DEF ConditionsRead
  <2> HIDE DEF d
  <2>4. driver' \in Drivers /\ d.isNight \in BOOLEAN \cup {Unknown}
    BY <2>2, <2>3 DEF Drivers
  <2> QED
    BY <2>3, <2>4 DEF Steps, update, client
<1>9. ASSUME NEW x \in Threads, ConditionsWritten(x) PROVE TelemetryType'
  BY <1>9 DEF ConditionsWritten, Steps, Drivers, update, client
<1>10. ASSUME NEW x \in Threads, ConditionsCounted(x) PROVE TelemetryType'
  <2> DEFINE night == IF NightEnds(x) THEN driver.night + 1 ELSE driver.night
             sunset == IF NightEnds(x) THEN NightFrom(sky) ELSE driver.sunset
             known == IF given = {} THEN driver.alerts ELSE given
  <2>1. night \in Nat /\ sunset \in Nat /\ known \subseteq Sources \X Nat
    BY DEF Times, NightFrom, Drivers
  <2>2. driver' = [driver EXCEPT !.night = night, !.sunset = sunset, !.alerts = known]
    BY <1>10 DEF ConditionsCounted
  <2> HIDE DEF night, sunset, known
  <2>3. driver' \in Drivers
    BY <2>1, <2>2 DEF Drivers
  <2> QED
    BY <1>10, <2>3 DEF ConditionsCounted, ThreadEnds, Steps, Free, update, client
<1>11. ASSUME NEW x \in Threads, OrphanEnds(x) PROVE TelemetryType'
  BY <1>11 DEF OrphanEnds, Steps, Free, update, client
<1>12. ASSUME NEW who, UpdateFails(who) \/ UpdateCancelled(who) PROVE TelemetryType'
  BY <1>12 DEF UpdateFails, UpdateCancelled, Leaves
<1>13. ASSUME NEW who \in {"info", "loop", "start"}, UpdateBegins(who),
              stateTime' \in {stateTime, clock}, todo' = todo, driver' \in Drivers
       PROVE  TelemetryType'
  BY <1>13 DEF UpdateBegins, client
<1>14. TimePasses => TelemetryType'
  BY TelemetryAssumption DEF TimePasses, update, client, Times
<1> HIDE DEF TelemetryType
<1> QED
  BY <1>1, <1>2, <1>3, <1>4, <1>5, <1>6, <1>7, <1>8, <1>9, <1>10, <1>11, <1>12, <1>13, <1>14

LEMMA InitTyped == Init => TypeInv
<1> SUFFICES ASSUME Init PROVE TypeInv
  OBVIOUS
<1>1. NewDriver(0) \in Drivers
  BY TelemetryAssumption DEF NewDriver, Drivers, Times
<1>2. thread \in [Threads -> [step : Steps, was : BOOLEAN \cup {Unknown}]]
  BY DEF Init, TelemetryInit, Free, Steps
<1>3. DOMAIN alerts = {}
  BY DEF Init, TelemetryInit
<1>4. 0 \in Times /\ 3 \in Times
  BY TelemetryAssumption DEF Times
<1>5. TelemetryType
  <2>1. clock \in Times /\ stateTime \in Times /\ sky \in Times
    BY <1>4 DEF Init, TelemetryInit
  <2>2. /\ inSync \in BOOLEAN
        /\ by \in {"nobody", "info", "loop", "start"}
        /\ at \in {"off", "streams", "maps", "clouds", "conditions"}
        /\ mine \in Threads \cup {"none"}
    BY DEF Init, TelemetryInit
  <2>3. /\ DOMAIN alerts \subseteq Sources
        /\ \A s \in DOMAIN alerts : alerts[s] \in 1..(nextId - 1)
    BY <1>3
  <2>4. nextId \in Nat \ {0} /\ driver \in Drivers
    BY <1>1 DEF Init, TelemetryInit
  <2>5. todo \subseteq Sources /\ given \subseteq Sources \X Nat
    BY DEF Init, TelemetryInit
  <2> QED
    BY <1>2, <2>1, <2>2, <2>3, <2>4, <2>5 DEF TelemetryType
<1>6. /\ pc \in [Starters -> Labels]
      /\ kind \in [Starters -> Kinds]
  BY DEF Init, Labels, Kinds
<1>7. 0 \in 0..MaxStarts /\ number \in [Starters -> 0..MaxStarts]
  BY StartupAssumption DEF Init
<1>8. StartupType
  BY <1>6, <1>7 DEF Init, StartupType, Kinds
<1> QED
  BY <1>5, <1>8 DEF TypeInv

(* A start that ends or fails takes with it what it knows.                 *)
LEMMA GoneTyped ==
  ASSUME StartupType, NEW s \in Starters, Gone(s)
  PROVE  /\ ack' \in Starters \cup {"none"}
         /\ pc' \in [Starters -> Labels]
         /\ kind' \in [Starters -> Kinds]
         /\ number' \in [Starters -> 0..MaxStarts]
BY StartupAssumption DEF StartupType, Gone, Labels, Kinds

LEMMA StartTyped ==
  ASSUME TypeInv, NEW s \in Starters, Start(s)
  PROVE  TypeInv'
<1> USE DEF TypeInv
<1>1. ASSUME NEW l \in Labels, Goto(s, l)
      PROVE  pc' \in [Starters -> Labels]
  BY <1>1 DEF Goto, StartupType
<1>2. CASE StartAsked(s)
  <2>1. starts' \in 0..MaxStarts /\ number' \in [Starters -> 0..MaxStarts]
    BY <1>2, StartupAssumption DEF StartAsked, StartupType
  <2>2. kind' \in [Starters -> Kinds]
    BY <1>2 DEF StartAsked, StartupType
  <2> QED
    BY <1>1, <1>2, <2>1, <2>2, TelemetryTyped DEF StartAsked, StartupType, loops, ghosts, Labels
<1>3. CASE StartMakesClients(s)
  <2>1. StartupType'
    BY <1>1, <1>3 DEF StartMakesClients, StartupType, loops, ghosts, Labels
  <2>2. DOMAIN alerts' = {} /\ nextId' = 1 /\ given' = {}
    BY <1>3 DEF StartMakesClients
  <2> QED
    BY <1>3, <2>1, <2>2 DEF StartMakesClients, TelemetryType, update
<1>4. CASE StartKeepsDriver(s) \/ StartLoadsHistory(s) \/ StartPlaysBack(s) \/ StartValidates(s)
  <2>1. TelemetryType'
    BY <1>4, TelemetryTyped
       DEF StartKeepsDriver, StartLoadsHistory, StartPlaysBack, StartValidates
  <2> QED
    BY <1>1, <1>4, <2>1
       DEF StartKeepsDriver, StartLoadsHistory, StartPlaysBack, StartValidates,
           StartupType, loops, ghosts, Labels
<1>5. CASE StartLoadsDriver(s)
  <2>1. NewDriver(number[s]) \in Drivers
    BY TelemetryAssumption DEF NewDriver, Drivers, Times, StartupType
  <2>2. Orphaned \in [Threads -> [step : Steps, was : BOOLEAN \cup {Unknown}]]
    <3> SUFFICES ASSUME NEW x \in Threads
                 PROVE  Orphaned[x] \in [step : Steps, was : BOOLEAN \cup {Unknown}]
      BY DEF Orphaned
    <3> QED
      BY DEF Orphaned, TelemetryType, Steps, Free
  <2>3. TelemetryType'
    BY <1>5, <2>1, <2>2 DEF StartLoadsDriver, TelemetryType, update, client
  <2> QED
    BY <1>1, <1>5, <2>3 DEF StartLoadsDriver, StartupType, loops, ghosts, Labels
<1>6. CASE StartConfiguresDriver(s)
  <2>1. driver' \in Drivers
    BY <1>6 DEF StartConfiguresDriver, TelemetryType, Drivers
  <2>2. TelemetryType'
    BY <1>6, <2>1 DEF StartConfiguresDriver, TelemetryType, update, client
  <2> QED
    BY <1>1, <1>6, <2>2 DEF StartConfiguresDriver, StartupType, loops, ghosts, Labels
<1>7. CASE StartUpdates(s)
  <2>1. driver' \in Drivers
    BY <1>7 DEF StartUpdates, TelemetryType, Drivers
  <2>2. TelemetryType'
    BY <1>7, <2>1, TelemetryTyped DEF StartUpdates
  <2> QED
    BY <1>1, <1>7, <2>2 DEF StartUpdates, StartupType, loops, ghosts, Labels
<1>8. CASE StartEnds(s)
  <2>1. TelemetryType'
    BY <1>8, TelemetryTyped DEF StartEnds
  <2> QED
    BY <1>8, <2>1, GoneTyped DEF StartEnds, StartupType
<1>9. CASE StartFails(s)
  <2>1. TelemetryType'
    BY <1>9, TelemetryTyped DEF StartFails
  <2>2. /\ blocks' \in {blocks, number[s]} /\ valid' \in {valid, 0}
        /\ failed' = failed \cup {number[s]}
    BY <1>9 DEF StartFails, StartRaises
  <2>3. /\ number[s] \in 0..MaxStarts /\ 0 \in 0..MaxStarts
        /\ blocks \in 0..MaxStarts /\ valid \in 0..MaxStarts
        /\ failed \subseteq 0..MaxStarts
    BY StartupAssumption DEF StartupType
  <2> QED
    BY <1>9, <2>1, <2>2, <2>3, GoneTyped DEF StartFails, StartRaises, StartupType, loops
<1> QED
  BY <1>2, <1>3, <1>4, <1>5, <1>6, <1>7, <1>8, <1>9 DEF Start

LEMMA NextTyped == TypeInv /\ [Next]_vars => TypeInv'
<1> SUFFICES ASSUME TypeInv, [Next]_vars PROVE TypeInv'
  OBVIOUS
<1> USE DEF TypeInv
<1>1. UNCHANGED startupVars => StartupType'
  BY DEF startupVars, loops, starting, ghosts, StartupType
<1>2. TasksStop => TelemetryType'
  BY TelemetryTyped DEF TasksStop
<1>3. CASE Transitions
  <2>1. TelemetryType'
    BY <1>2, <1>3
       DEF Transitions, Enable, Disable, Standby, TelemetryType, update, client
  <2> QED
    BY <1>3, <2>1 DEF Transitions, Enable, Disable, Standby, StartupType, starting, ghosts
<1>4. CASE TelemetryLoop
  <2>1. CASE TelemetryArrives \/ InfoFails
    BY <1>1, <2>1, TelemetryTyped DEF TelemetryArrives, InfoFails
  <2>2. CASE TelemetryFails
    BY <2>2, TelemetryTyped DEF TelemetryFails, StartupType, starting, ghosts
  <2>3. CASE InfoBegins
    <3>1. driver' \in Drivers
      BY <2>3 DEF InfoBegins, TelemetryType
    <3> QED
      BY <1>1, <2>3, <3>1, TelemetryTyped DEF InfoBegins
  <2> QED
    BY <1>4, <2>1, <2>2, <2>3 DEF TelemetryLoop
<1>5. CASE Loop
  <2>1. CASE LoopBegins
    <3>1. driver' \in Drivers
      BY <2>1 DEF LoopBegins, TelemetryType
    <3>2. TelemetryType'
      BY <2>1, <3>1, TelemetryTyped DEF LoopBegins
    <3> QED
      BY <2>1, <3>2 DEF LoopBegins, StartupType, starting, ghosts
  <2>2. CASE LoopSynced \/ LoopFails \/ LoopCancelled
    <3>1. TelemetryType'
      BY <2>2, TelemetryTyped DEF LoopSynced, LoopFails, LoopCancelled
    <3> QED
      BY <2>2, <3>1 DEF LoopSynced, LoopFails, LoopCancelled, StartupType, starting, ghosts
  <2> QED
    BY <1>5, <2>1, <2>2 DEF Loop
<1>6. CASE UpdateGoesOn
  BY <1>1, <1>6, TelemetryTyped DEF UpdateGoesOn
<1>7. ASSUME NEW x \in Threads, OrphanEnds(x) PROVE TypeInv'
  BY <1>1, <1>7, TelemetryTyped DEF OrphanEnds
<1>8. CASE TimePasses /\ UNCHANGED startupVars
  BY <1>1, <1>8, TelemetryTyped
<1>9. CASE UNCHANGED vars
  BY <1>1, <1>9, TelemetryTyped DEF vars
<1> QED
  BY <1>3, <1>4, <1>5, <1>6, <1>7, <1>8, <1>9, StartTyped DEF Next

(* Whatever starts, fails, is cancelled or goes on in a thread left        *)
(* behind, the variables keep their types.                                 *)
THEOREM StartupTypeCorrect == Spec => []TypeOK
BY InitTyped, NextTyped, TypeParts, PTL DEF Spec

-----------------------------------------------------------------------------
(* One start runs at a time, in STANDBY, where neither loop runs.          *)
OneStart ==
  /\ \A s \in Starters : pc[s] # "off" <=> ack = s
  /\ \A s \in Starters :
       pc[s] # "off" => csc = "STANDBY" /\ number[s] = starts /\ starts # 0
  /\ csc = "STANDBY" => ~looping /\ loop = "off" /\ by \in {"nobody", "start"}
  /\ by = "start" => \E s \in Starters : pc[s] = "playing"
  /\ driver.made <= starts

(* What a start has set up so far, and what it leaves when it succeeds.    *)
HasBlocks(s) == pc[s] \notin {"off", "asked", "clients"}

SoFar(s) ==
  /\ pc[s] \in {"asked", "clients"} => driver.made < starts
  /\ HasBlocks(s) => blocks = starts
  /\ pc[s] = "driver" => driver.made = starts
  /\ pc[s] \in {"history", "playing", "validating", "publishing"} =>
       HasDriver /\ (driver.made = starts \/ kind[s] = "HOT")
  /\ pc[s] = "publishing" => valid = blocks

WholeInv ==
  /\ \A s \in Starters : SoFar(s)
  /\ \/ driver.configured \/ driver.made \in failed \cup {0}
     \/ \E s \in Starters : pc[s] = "driver"
  /\ csc # "STANDBY" =>
       valid = blocks /\ HasDriver /\ (driver.made = blocks \/ lastKind = "HOT")

StartInv == OneStart /\ WholeInv

(* An update leaves alone which start made the driver.                     *)
SameDriver == driver'.made = driver.made /\ driver'.configured = driver.configured

LEMMA UpdatesKeepDriver ==
  ASSUME TypeInv
  PROVE  /\ UNCHANGED telemetryVars => SameDriver /\ by' = by
         /\ StateArrives => SameDriver /\ by' = by
         /\ StateFails => SameDriver /\ by' = by
         /\ AlertsRead => SameDriver /\ by' = by
         /\ \A s \in Sources : MapRead(s) => SameDriver /\ by' = by
         /\ AlertsGiven => SameDriver /\ by' = by
         /\ CloudsRead => SameDriver /\ by' = by
         /\ \A x \in Threads : ConditionsRead(x) => SameDriver /\ by' = by
         /\ \A x \in Threads : ConditionsWritten(x) => SameDriver /\ by' = by
         /\ \A x \in Threads : ConditionsCounted(x) => SameDriver /\ by' \in {by, "nobody"}
         /\ \A x \in Threads : OrphanEnds(x) => SameDriver /\ by' = by
         /\ \A who : UpdateFails(who) \/ UpdateCancelled(who) => SameDriver /\ by' = "nobody"
         /\ TimePasses => SameDriver /\ by' = by
<1>0. driver \in Drivers
  BY DEF TypeInv, TelemetryType
<1>1. ASSUME NEW x \in Threads, ConditionsRead(x) PROVE SameDriver /\ by' = by
  <2> DEFINE d == IF driver.isNight # Unknown THEN driver
                  ELSE [driver EXCEPT !.sunset = NightFrom(stateTime),
                                      !.isNight = Night(stateTime),
                                      !.first = stateTime, !.last = stateTime]
  <2>1. driver' = [d EXCEPT !.upset = @ \/ Misses(stateTime)] /\ by' = by
    BY <1>1 DEF ConditionsRead, update
  <2>2. d.made = driver.made /\ d.configured = driver.configured
        /\ "upset" \in DOMAIN d /\ "made" \in DOMAIN d /\ "configured" \in DOMAIN d
    BY <1>0 DEF Drivers
  <2> HIDE DEF d
  <2> QED
    BY <2>1, <2>2 DEF SameDriver
<1>2. UNCHANGED telemetryVars => SameDriver /\ by' = by
  BY DEF telemetryVars, update, SameDriver
<1>3. StateArrives \/ StateFails \/ AlertsRead \/ AlertsGiven \/ TimePasses
        => SameDriver /\ by' = by
  BY <1>0 DEF StateArrives, StateFails, AlertsRead, AlertsGiven, TimePasses, update,
              SameDriver, Drivers
<1>4. ASSUME NEW s \in Sources, MapRead(s) PROVE SameDriver /\ by' = by
  BY <1>4 DEF MapRead, update, SameDriver
<1>5. CloudsRead => SameDriver /\ by' = by
  BY <1>0 DEF CloudsRead, SameDriver, Drivers
<1>6. ASSUME NEW x \in Threads, ConditionsWritten(x) PROVE SameDriver /\ by' = by
  BY <1>0, <1>6 DEF ConditionsWritten, update, SameDriver, Drivers
<1>7. ASSUME NEW x \in Threads, ConditionsCounted(x) PROVE SameDriver /\ by' \in {by, "nobody"}
  BY <1>0, <1>7 DEF ConditionsCounted, ThreadEnds, update, SameDriver, Drivers
<1>8. ASSUME NEW x \in Threads, OrphanEnds(x) PROVE SameDriver /\ by' = by
  BY <1>8 DEF OrphanEnds, update, SameDriver
<1>9. ASSUME NEW who, UpdateFails(who) \/ UpdateCancelled(who)
      PROVE  SameDriver /\ by' = "nobody"
  BY <1>9 DEF UpdateFails, UpdateCancelled, Leaves, SameDriver
<1> QED
  BY <1>1, <1>2, <1>3, <1>4, <1>5, <1>6, <1>7, <1>8, <1>9

(* A step of an update, or of a thread left behind, starts nothing.        *)
LEMMA UpdatesKeepStart ==
  ASSUME TypeInv, StartInv, SameDriver, by' \in {by, "nobody"}, UNCHANGED startupVars
  PROVE  StartInv'
BY DEF StartInv, OneStart, WholeInv, SoFar, HasBlocks, HasDriver, SameDriver, startupVars,
       loops, starting, ghosts

LEMMA InitStart == Init => StartInv
BY StartupAssumption
   DEF Init, TelemetryInit, NewDriver, StartInv, OneStart, WholeInv, SoFar, HasBlocks, HasDriver

LEMMA StartKeepsStart ==
  ASSUME TypeInv, StartInv, NEW s \in Starters, Start(s)
  PROVE  StartInv'
<1>0. /\ driver \in Drivers /\ driver.made \in Nat
      /\ starts \in 0..MaxStarts /\ MaxStarts \in Nat
      /\ pc \in [Starters -> Labels] /\ number \in [Starters -> 0..MaxStarts]
      /\ kind \in [Starters -> Kinds] /\ "none" \notin Starters
  BY StartupAssumption DEF TypeInv, TelemetryType, StartupType, Drivers
<1>1. CASE StartAsked(s)
  <2>1. /\ csc = "STANDBY" /\ ack = "none" /\ ack' = s /\ starts' = starts + 1
        /\ UNCHANGED <<telemetryVars, csc, loops, blocks, valid, ghosts>>
        /\ \A t \in Starters : pc'[t] = IF t = s THEN "asked" ELSE pc[t]
        /\ number'[s] = starts'
    BY <1>0, <1>1 DEF StartAsked, Goto
  <2>2. \A t \in Starters : pc'[t] = IF t = s THEN "asked" ELSE "off"
    BY <1>0, <2>1 DEF StartInv, OneStart
  <2>3. SameDriver /\ by' = by
    BY <2>1, UpdatesKeepDriver
  <2>4. OneStart'
    BY <1>0, <2>1, <2>2, <2>3 DEF StartInv, OneStart, SameDriver, loops
  <2>5. WholeInv'
    BY <1>0, <2>1, <2>2, <2>3 DEF StartInv, OneStart, WholeInv, SoFar, HasBlocks, SameDriver, ghosts
  <2> QED
    BY <2>4, <2>5 DEF StartInv
<1>2. CASE pc[s] # "off"
  <2>0. /\ csc = "STANDBY" /\ ack = s /\ number[s] = starts /\ starts # 0 /\ SoFar(s)
        /\ ~looping /\ loop = "off" /\ by \in {"nobody", "start"}
        /\ by = "start" => pc[s] = "playing"
        /\ driver.made <= starts
        /\ \A t \in Starters : t # s => pc[t] = "off"
        /\ driver.configured \/ driver.made \in failed \cup {0} \/ pc[s] = "driver"
    BY <1>0, <1>2 DEF StartInv, OneStart, WholeInv
  <2>g. ASSUME NEW l \in Labels \ {"off"}, Goto(s, l)
        PROVE  \A t \in Starters : pc'[t] = IF t = s THEN l ELSE "off"
    BY <1>0, <2>0, <2>g DEF Goto
  <2>h. ASSUME NEW l \in Labels \ {"off"}, Goto(s, l),
               UNCHANGED <<csc, loops, ack, kind, number, starts>>,
               by' \in {"nobody", "start"}, by' = "start" => l = "playing",
               driver'.made <= starts,
               driver'.configured \/ driver'.made \in failed \cup {0} \/ l = "driver",
               failed' = failed, SoFar(s)'
        PROVE  StartInv'
    <3>1. \A t \in Starters : pc'[t] = IF t = s THEN l ELSE "off"
      BY <2>g, <2>h
    <3>2. OneStart'
      BY <1>0, <2>0, <2>h, <3>1 DEF OneStart, loops
    <3>3. \A t \in Starters : SoFar(t)'
      BY <2>h, <3>1 DEF SoFar, HasBlocks
    <3>4. pc'[s] = l
      BY <3>1
    <3> QED
      BY <2>0, <2>h, <3>2, <3>3, <3>4 DEF StartInv, WholeInv
  <2>i. ASSUME NEW l \in Labels \ {"off"}, Goto(s, l)
        PROVE  pc'[s] = l
    BY <2>g, <2>i
  <2>l. Labels \ {"off"} = {"asked", "clients", "driver", "history", "playing",
                            "validating", "publishing"}
    BY DEF Labels
  <2>2. CASE StartMakesClients(s)
    <3>1. pc[s] = "asked" /\ Goto(s, "clients") /\ pc'[s] = "clients" /\ UNCHANGED <<driver, by>>
      BY <2>2, <2>i, <2>l DEF StartMakesClients, At, update
    <3>2. SoFar(s)'
      BY <2>0, <2>2, <3>1 DEF SoFar, HasBlocks, StartMakesClients
    <3> QED
      BY <2>0, <2>2, <2>h, <2>l, <3>1, <3>2 DEF StartMakesClients, ghosts
  <2>3. CASE StartKeepsDriver(s)
    <3>1. pc[s] = "clients" /\ Goto(s, "validating") /\ pc'[s] = "validating"
      BY <2>3, <2>i, <2>l DEF StartKeepsDriver, At
    <3>2. UNCHANGED <<driver, by>> /\ HasDriver /\ kind[s] = "HOT"
      BY <2>3 DEF StartKeepsDriver, telemetryVars, update
    <3>3. SoFar(s)'
      BY <2>0, <2>3, <3>1, <3>2 DEF SoFar, HasBlocks, HasDriver, StartKeepsDriver
    <3> QED
      BY <2>0, <2>3, <2>h, <2>l, <3>1, <3>2, <3>3 DEF StartKeepsDriver, ghosts
  <2>4. CASE StartLoadsDriver(s)
    <3>1. pc[s] = "clients" /\ Goto(s, "driver") /\ pc'[s] = "driver"
      BY <2>4, <2>i, <2>l DEF StartLoadsDriver, At
    <3>2. driver'.made = starts /\ by' = by
      BY <2>0, <2>4 DEF StartLoadsDriver, NewDriver, update
    <3>3. SoFar(s)'
      BY <2>0, <2>4, <3>1, <3>2 DEF SoFar, HasBlocks, StartLoadsDriver
    <3> QED
      BY <1>0, <2>0, <2>4, <2>h, <2>l, <3>1, <3>2, <3>3 DEF StartLoadsDriver, ghosts
  <2>5. CASE StartConfiguresDriver(s)
    <3>1. pc[s] = "driver" /\ Goto(s, "history") /\ pc'[s] = "history"
      BY <2>5, <2>i, <2>l DEF StartConfiguresDriver, At
    <3>2. driver'.made = driver.made /\ driver'.configured = TRUE /\ by' = by
      BY <1>0, <2>5 DEF StartConfiguresDriver, Drivers, update
    <3>3. SoFar(s)'
      BY <2>0, <2>5, <3>1, <3>2 DEF SoFar, HasBlocks, HasDriver, StartConfiguresDriver
    <3> QED
      BY <2>0, <2>5, <2>h, <2>l, <3>1, <3>2, <3>3 DEF StartConfiguresDriver, ghosts
  <2>6. CASE StartLoadsHistory(s)
    <3>1. pc[s] = "history" /\ Goto(s, "validating") /\ pc'[s] = "validating"
      BY <2>6, <2>i, <2>l DEF StartLoadsHistory, At
    <3>2. UNCHANGED <<driver, by>>
      BY <2>6 DEF StartLoadsHistory, telemetryVars, update
    <3>3. SoFar(s)'
      BY <2>0, <2>6, <3>1, <3>2 DEF SoFar, HasBlocks, HasDriver, StartLoadsHistory
    <3> QED
      BY <2>0, <2>6, <2>h, <2>l, <3>1, <3>2, <3>3 DEF StartLoadsHistory, ghosts
  <2>7. CASE StartUpdates(s)
    <3>1. pc[s] = "history" /\ Goto(s, "playing") /\ pc'[s] = "playing"
      BY <2>7, <2>i, <2>l DEF StartUpdates, At
    <3>2. driver'.made = driver.made /\ driver'.configured = driver.configured /\ by' = "start"
      BY <1>0, <2>7 DEF StartUpdates, UpdateBegins, Drivers
    <3>3. SoFar(s)'
      BY <2>0, <2>7, <3>1, <3>2 DEF SoFar, HasBlocks, HasDriver, StartUpdates
    <3> QED
      BY <2>0, <2>7, <2>h, <2>l, <3>1, <3>2, <3>3 DEF StartUpdates, ghosts
  <2>8. CASE StartPlaysBack(s)
    <3>1. pc[s] = "playing" /\ Goto(s, "validating") /\ pc'[s] = "validating"
      BY <2>8, <2>i, <2>l DEF StartPlaysBack, At
    <3>2. UNCHANGED <<driver, by>> /\ by = "nobody"
      BY <2>8 DEF StartPlaysBack, telemetryVars, update
    <3>3. SoFar(s)'
      BY <2>0, <2>8, <3>1, <3>2 DEF SoFar, HasBlocks, HasDriver, StartPlaysBack
    <3> QED
      BY <2>0, <2>8, <2>h, <2>l, <3>1, <3>2, <3>3 DEF StartPlaysBack, ghosts
  <2>9. CASE StartValidates(s)
    <3>1. pc[s] = "validating" /\ Goto(s, "publishing") /\ pc'[s] = "publishing"
      BY <2>9, <2>i, <2>l DEF StartValidates, At
    <3>2. UNCHANGED <<driver, by>>
      BY <2>9 DEF StartValidates, telemetryVars, update
    <3>3. SoFar(s)'
      BY <2>0, <2>9, <3>1, <3>2 DEF SoFar, HasBlocks, HasDriver, StartValidates
    <3> QED
      BY <2>0, <2>9, <2>h, <2>l, <3>1, <3>2, <3>3 DEF StartValidates, ghosts
  <2>o. ASSUME Gone(s)
        PROVE  ack' = "none" /\ \A t \in Starters : pc'[t] = "off" /\ ~HasBlocks(t)'
    BY <1>0, <2>0, <2>o DEF Gone, HasBlocks
  <2>10. CASE StartEnds(s)
    <3>1. /\ pc[s] = "publishing" /\ ack' = "none" /\ \A t \in Starters : pc'[t] = "off"
          /\ by = "nobody" /\ UNCHANGED <<driver, by>> /\ UNCHANGED <<blocks, valid, starts>>
          /\ csc' = "DISABLED" /\ lastKind' = kind[s] /\ failed' = failed
      BY <2>0, <2>10, <2>o DEF StartEnds, At, telemetryVars, update
    <3>2. OneStart'
      BY <1>0, <2>0, <3>1 DEF OneStart
    <3>3. WholeInv'
      BY <2>0, <3>1 DEF WholeInv, SoFar, HasBlocks, HasDriver
    <3> QED
      BY <3>2, <3>3 DEF StartInv
  <2>11. CASE StartFails(s)
    <3>1. /\ ack' = "none" /\ \A t \in Starters : pc'[t] = "off"
          /\ UNCHANGED <<csc, loops, starts>> /\ failed' = failed \cup {starts}
      BY <2>0, <2>11, <2>o DEF StartFails, StartRaises
    <3>2. SameDriver /\ by' = "nobody"
      <4>1. CASE pc[s] = "playing" /\ by = "start"
        BY <2>11, <4>1, UpdatesKeepDriver DEF StartFails, At
      <4>2. CASE ~(pc[s] = "playing" /\ by = "start")
        BY <2>0, <2>11, <4>2, UpdatesKeepDriver DEF StartFails, At
      <4> QED
        BY <4>1, <4>2
    <3>3. OneStart'
      BY <1>0, <2>0, <3>1, <3>2 DEF OneStart, SameDriver, loops
    <3>4. WholeInv'
      BY <2>0, <3>1, <3>2 DEF WholeInv, SoFar, HasBlocks, HasDriver, SameDriver
    <3> QED
      BY <3>3, <3>4 DEF StartInv
  <2> QED
    BY <1>1, <2>2, <2>3, <2>4, <2>5, <2>6, <2>7, <2>8, <2>9, <2>10, <2>11 DEF Start
<1> QED
  BY <1>1, <1>2
     DEF Start, StartMakesClients, StartKeepsDriver, StartLoadsDriver, StartConfiguresDriver,
         StartLoadsHistory, StartUpdates, StartPlaysBack, StartValidates, StartEnds, StartFails, At

LEMMA NextStart == TypeInv /\ StartInv /\ [Next]_vars => StartInv'
<1> SUFFICES ASSUME TypeInv, StartInv, [Next]_vars PROVE StartInv'
  OBVIOUS
<1>1. TasksStop => SameDriver /\ by' = "nobody"
  BY UpdatesKeepDriver DEF TasksStop
(* A transition, or a step of one of the loops.                            *)
<1>2. ASSUME SameDriver, csc # "STANDBY", UNCHANGED <<starting, blocks, valid, ghosts>>,
             csc' = "STANDBY" => ~looping' /\ loop' = "off" /\ by' \in {"nobody", "start"},
             by' = "start" => by = "start"
      PROVE  StartInv'
  BY <1>2 DEF StartInv, OneStart, WholeInv, SoFar, HasBlocks, HasDriver, SameDriver, starting, ghosts
<1>3. CASE Transitions
  <2>1. SameDriver /\ by' \in {by, "nobody"}
    BY <1>1, <1>3 DEF Transitions, Enable, Disable, Standby, update, SameDriver
  <2> QED
    BY <1>1, <1>2, <1>3, <2>1 DEF Transitions, Enable, Disable, Standby
<1>4. csc = "STANDBY" => ~looping /\ loop = "off" /\ by \in {"nobody", "start"}
  BY DEF StartInv, OneStart
<1>5. CASE TelemetryLoop
  <2>1. CASE TelemetryArrives \/ InfoFails
    BY <2>1, UpdatesKeepDriver, UpdatesKeepStart DEF TelemetryArrives, InfoFails
  <2>2. CASE TelemetryFails
    BY <1>2, <1>4, <2>2, UpdatesKeepDriver DEF TelemetryFails
  <2>3. CASE InfoBegins
    BY <1>2, <1>4, <2>3
       DEF InfoBegins, UpdateBegins, startupVars, loops, SameDriver
  <2> QED
    BY <1>5, <2>1, <2>2, <2>3 DEF TelemetryLoop
<1>6. CASE Loop
  <2>1. CASE LoopSynced
    BY <1>2, <1>4, <2>1, UpdatesKeepDriver DEF LoopSynced
  <2>2. CASE LoopBegins
    BY <1>2, <1>4, <2>2 DEF LoopBegins, UpdateBegins, SameDriver
  <2>3. CASE LoopFails
    BY <1>2, <1>4, <2>3, UpdatesKeepDriver DEF LoopFails, UpdateFails
  <2>4. CASE LoopCancelled
    BY <1>2, <1>4, <2>4, UpdatesKeepDriver DEF LoopCancelled, UpdateCancelled
  <2> QED
    BY <1>6, <2>1, <2>2, <2>3, <2>4 DEF Loop
<1>7. CASE UpdateGoesOn
  BY <1>7, UpdatesKeepDriver, UpdatesKeepStart DEF UpdateGoesOn
<1>8. ASSUME NEW x \in Threads, OrphanEnds(x) PROVE StartInv'
  BY <1>8, UpdatesKeepDriver, UpdatesKeepStart DEF OrphanEnds
<1>9. CASE (TimePasses /\ UNCHANGED startupVars) \/ UNCHANGED vars
  BY <1>9, UpdatesKeepDriver, UpdatesKeepStart DEF vars
<1> QED
  BY <1>3, <1>5, <1>6, <1>7, <1>8, <1>9, StartKeepsStart DEF Next

(* However many starts are sent, and whichever of them fail and where, a   *)
(* CSC that has been started has what one start has set up: its valid      *)
(* blocks are of the blocks it offers, and its driver is that of the last  *)
(* start, unless that was HOT, and configured, unless its start failed.    *)
THEOREM StartedWhole == Spec => []StartedIsWhole
<1>1. StartInv => StartedIsWhole
  BY DEF StartInv, OneStart, WholeInv, StartedIsWhole, HasDriver
<1> QED
  BY <1>1, InitTyped, NextTyped, InitStart, NextStart, PTL DEF Spec

-----------------------------------------------------------------------------
(* The clock has started; the loop goes on, and updates the telemetry,     *)
(* only after the state of the observatory has arrived.                    *)
LoopInv ==
  /\ clock # 0
  /\ inSync \/ loop = "synced" \/ by = "loop" => stateTime # 0

LEMMA NextLoop == TypeInv /\ LoopInv /\ [Next]_vars => LoopInv'
<1> SUFFICES ASSUME TypeInv, LoopInv, [Next]_vars PROVE LoopInv'
  OBVIOUS
<1>0. clock \in Nat /\ clock + 1 # 0
  BY TelemetryAssumption DEF TypeInv, TelemetryType, Times
<1> USE DEF LoopInv
<1>1. ASSUME NEW s \in Starters, Start(s) PROVE LoopInv'
  BY <1>1
     DEF Start, StartAsked, StartMakesClients, StartKeepsDriver, StartLoadsDriver,
         StartConfiguresDriver, StartLoadsHistory, StartUpdates, StartPlaysBack,
         StartValidates, StartEnds, StartFails, StartRaises, UpdateFails, UpdateBegins, Leaves,
         telemetryVars, update, loops
<1>2. CASE Transitions
  BY <1>2 DEF Transitions, Enable, Disable, Standby, TasksStop, UpdateCancelled, Leaves,
              telemetryVars, update, loops
<1>3. CASE TelemetryLoop
  BY <1>3 DEF TelemetryLoop, TelemetryArrives, TelemetryFails, InfoBegins, InfoFails, StateArrives,
              StateFails, UpdateBegins, UpdateFails, UpdateCancelled, Leaves, update, startupVars,
              loops
<1>4. CASE Loop
  BY <1>4 DEF Loop, LoopSynced, LoopBegins, LoopFails, LoopCancelled, UpdateBegins, UpdateFails,
              UpdateCancelled, Leaves, telemetryVars, update
<1>5. CASE UpdateGoesOn
  <2>1. by' \in {by, "nobody"} /\ UNCHANGED <<clock, stateTime, inSync>>
    <3>1. CASE AlertsRead \/ AlertsGiven \/ CloudsRead
      BY <3>1 DEF AlertsRead, AlertsGiven, CloudsRead
    <3>2. ASSUME NEW s \in Sources, MapRead(s)
          PROVE  by' = by /\ UNCHANGED <<clock, stateTime, inSync>>
      BY <3>2 DEF MapRead, update
    <3>3. ASSUME NEW x \in Threads,
                 ConditionsRead(x) \/ ConditionsWritten(x) \/ ConditionsCounted(x)
          PROVE  by' \in {by, "nobody"} /\ UNCHANGED <<clock, stateTime, inSync>>
      BY <3>3, UpdatesKeepDriver DEF ConditionsRead, ConditionsWritten, ConditionsCounted
    <3> QED
      BY <1>5, <3>1, <3>2, <3>3 DEF UpdateGoesOn
  <2> QED
    BY <1>5, <2>1 DEF UpdateGoesOn, startupVars, loops
<1>6. CASE TimePasses /\ UNCHANGED startupVars
  BY <1>0, <1>6 DEF TimePasses, update, startupVars, loops
<1>7. CASE (\E x \in Threads : OrphanEnds(x)) \/ UNCHANGED vars
  BY <1>7 DEF OrphanEnds, vars, telemetryVars, update, startupVars, loops
<1> QED
  BY <1>1, <1>2, <1>3, <1>4, <1>5, <1>6, <1>7 DEF Next

(* The loop generates targets only with a driver, and for a state of the   *)
(* observatory that has arrived, whatever the telemetry does meanwhile.    *)
THEOREM LoopInformed == Spec => []LoopKnowsState
<1>1. Init => LoopInv
  BY DEF Init, TelemetryInit, LoopInv
<1>2. StartInv /\ LoopInv => LoopKnowsState
  BY DEF StartInv, OneStart, WholeInv, LoopInv, LoopKnowsState
<1> QED
  BY <1>1, <1>2, InitTyped, NextTyped, InitStart, NextStart, NextLoop, PTL DEF Spec

-----------------------------------------------------------------------------
(* The alerts of a query are made only for sources that have none; the     *)
(* driver knows those of the client it was made with.                      *)
Informed == (csc # "STANDBY" \/ \E s \in Starters : HasBlocks(s)) /\ driver.made = blocks

IdsInv ==
  /\ todo \cap DOMAIN alerts = {}
  /\ \A s, t \in DOMAIN alerts : alerts[s] = alerts[t] => s = t
  /\ given \subseteq Alerts
  /\ Informed => driver.alerts \subseteq Alerts

(* A step that leaves the client and the driver as they are.               *)
LEMMA IdsKept ==
  ASSUME IdsInv, UNCHANGED <<alerts, given>>, todo' \subseteq todo,
         driver'.alerts = driver.alerts, Informed' => Informed
  PROVE  IdsInv'
BY DEF IdsInv, Alerts

(* The map of an alert is read: it gets a tooid nobody has.                *)
LEMMA IdsRead ==
  ASSUME TypeInv, IdsInv, NEW s \in Sources, MapRead(s), Informed' <=> Informed
  PROVE  IdsInv'
<1>1. /\ s \in todo /\ s \notin DOMAIN alerts /\ todo' = todo \ {s}
      /\ alerts' = [t \in DOMAIN alerts \cup {s} |-> IF t = s THEN nextId ELSE alerts[t]]
      /\ UNCHANGED <<given, driver>>
  BY DEF MapRead, IdsInv
<1>2. DOMAIN alerts' = DOMAIN alerts \cup {s} /\ alerts'[s] = nextId
      /\ \A t \in DOMAIN alerts : alerts'[t] = alerts[t]
  BY <1>1
<1>3. \A t \in DOMAIN alerts : alerts[t] # nextId
  BY DEF TypeInv, TelemetryType
<1>4. Alerts \subseteq Alerts'
  BY <1>2 DEF Alerts
<1>5. \A t, u \in DOMAIN alerts' : alerts'[t] = alerts'[u] => t = u
  BY <1>1, <1>2, <1>3 DEF IdsInv
<1>6. todo' \cap DOMAIN alerts' = {}
  BY <1>1, <1>2 DEF IdsInv
<1> QED
  BY <1>1, <1>4, <1>5, <1>6 DEF IdsInv

LEMMA UpdatesKeepIds ==
  ASSUME TypeInv, IdsInv, UNCHANGED startupVars
  PROVE  /\ UNCHANGED telemetryVars => IdsInv'
         /\ StateArrives => IdsInv'
         /\ AlertsRead => IdsInv'
         /\ \A s \in Sources : MapRead(s) => IdsInv'
         /\ AlertsGiven => IdsInv'
         /\ CloudsRead => IdsInv'
         /\ \A x \in Threads : ConditionsRead(x) => IdsInv'
         /\ \A x \in Threads : ConditionsWritten(x) => IdsInv'
         /\ \A x \in Threads : ConditionsCounted(x) => IdsInv'
         /\ \A x \in Threads : OrphanEnds(x) => IdsInv'
         /\ \A who : UpdateFails(who) \/ UpdateCancelled(who) => IdsInv'
         /\ TimePasses => IdsInv'
<1>0. driver \in Drivers
  BY DEF TypeInv, TelemetryType
<1>1. SameDriver => (Informed' <=> Informed)
  BY DEF startupVars, starting, SameDriver, Informed, HasBlocks
<1>2. UNCHANGED telemetryVars => IdsInv'
  BY <1>1, UpdatesKeepDriver, IdsKept DEF telemetryVars, client
<1>3. StateArrives \/ CloudsRead => IdsInv'
  <2> SUFFICES ASSUME StateArrives \/ CloudsRead PROVE IdsInv'
    OBVIOUS
  <2>1. driver'.alerts = driver.alerts
    BY <1>0 DEF StateArrives, CloudsRead, Drivers
  <2> QED
    BY <1>1, <2>1, UpdatesKeepDriver, IdsKept DEF StateArrives, CloudsRead, client
<1>4. AlertsRead => IdsInv'
  <2> SUFFICES ASSUME AlertsRead PROVE IdsInv'
    OBVIOUS
  <2>1. todo' \cap DOMAIN alerts = {} /\ UNCHANGED <<alerts, given, driver>>
    BY DEF AlertsRead
  <2> QED
    BY <1>1, <2>1, UpdatesKeepDriver DEF IdsInv, Alerts
<1>5. ASSUME NEW s \in Sources, MapRead(s) PROVE IdsInv'
  BY <1>1, <1>5, UpdatesKeepDriver, IdsRead
<1>6. AlertsGiven => IdsInv'
  <2> SUFFICES ASSUME AlertsGiven PROVE IdsInv'
    OBVIOUS
  <2>1. given' \subseteq Alerts /\ UNCHANGED <<alerts, todo, driver>>
    BY DEF AlertsGiven, IdsInv, client
  <2> QED
    BY <1>1, <2>1, UpdatesKeepDriver DEF IdsInv, Alerts
<1>7. ASSUME NEW x \in Threads, ConditionsRead(x) PROVE IdsInv'
  <2> DEFINE d == IF driver.isNight # Unknown THEN driver
                  ELSE [driver EXCEPT !.sunset = NightFrom(stateTime),
                                      !.isNight = Night(stateTime),
                                      !.first = stateTime, !.last = stateTime]
  <2>1. driver' = [d EXCEPT !.upset = @ \/ Misses(stateTime)]
    BY <1>7 DEF ConditionsRead
  <2>2. d.alerts = driver.alerts /\ "alerts" \in DOMAIN d
    BY <1>0 DEF Drivers
  <2> HIDE DEF d
  <2>3. driver'.alerts = driver.alerts
    BY <2>1, <2>2
  <2> QED
    BY <1>1, <1>7, <2>3, UpdatesKeepDriver, IdsKept DEF ConditionsRead, client
<1>8. ASSUME NEW x \in Threads, ConditionsWritten(x) PROVE IdsInv'
  <2>1. driver'.alerts = driver.alerts
    BY <1>0, <1>8 DEF ConditionsWritten, Drivers
  <2> QED
    BY <1>1, <1>8, <2>1, UpdatesKeepDriver, IdsKept DEF ConditionsWritten, client
<1>9. ASSUME NEW x \in Threads, ConditionsCounted(x) PROVE IdsInv'
  <2>1. driver'.alerts = IF given = {} THEN driver.alerts ELSE given
    BY <1>0, <1>9 DEF ConditionsCounted, Drivers
  <2>2. UNCHANGED <<alerts, todo, given>>
    BY <1>9 DEF ConditionsCounted, client
  <2> QED
    BY <1>1, <1>9, <2>1, <2>2, UpdatesKeepDriver DEF IdsInv, Alerts
<1>10. ASSUME NEW x \in Threads, OrphanEnds(x) PROVE IdsInv'
  BY <1>1, <1>10, UpdatesKeepDriver, IdsKept DEF OrphanEnds, client
<1>11. ASSUME NEW who, UpdateFails(who) \/ UpdateCancelled(who) PROVE IdsInv'
  BY <1>1, <1>11, UpdatesKeepDriver, IdsKept DEF UpdateFails, UpdateCancelled, Leaves
<1>12. TimePasses => IdsInv'
  BY <1>1, UpdatesKeepDriver, IdsKept DEF TimePasses, client
<1> QED
  BY <1>2, <1>3, <1>4, <1>5, <1>6, <1>7, <1>8, <1>9, <1>10, <1>11, <1>12

LEMMA StartKeepsIds ==
  ASSUME TypeInv, StartInv, IdsInv, NEW s \in Starters, Start(s)
  PROVE  IdsInv'
<1>0. /\ driver \in Drivers /\ driver.made \in Nat /\ driver.made <= starts
      /\ starts \in Nat /\ pc \in [Starters -> Labels]
      /\ pc[s] = "clients" => driver.made < number[s]
      /\ pc[s] # "off" => csc = "STANDBY" /\ \A t \in Starters : t # s => pc[t] = "off"
  BY DEF TypeInv, TelemetryType, StartupType, Drivers, StartInv, OneStart, WholeInv, SoFar
<1>a. ASSUME UNCHANGED <<alerts, todo, given, csc, blocks>>, driver'.alerts = driver.alerts,
             driver'.made = driver.made, HasBlocks(s) \/ pc[s] = "off",
             \A t \in Starters \ {s} : pc'[t] = pc[t]
      PROVE  pc[s] # "off" \/ pc'[s] = "asked" => IdsInv'
  <2> SUFFICES ASSUME pc[s] # "off" \/ pc'[s] = "asked" PROVE IdsInv'
    OBVIOUS
  <2>1. Informed' => Informed
    BY <1>a DEF Informed, HasBlocks
  <2> QED
    BY <1>a, <2>1, IdsKept
<1>b. ASSUME NEW l \in Labels, Goto(s, l)
      PROVE  \A t \in Starters : pc'[t] = IF t = s THEN l ELSE pc[t]
  BY <1>0, <1>b DEF Goto
<1>c. ASSUME ~Informed', UNCHANGED <<alerts, given>>, todo' \subseteq todo
      PROVE  IdsInv'
  BY <1>c DEF IdsInv, Alerts
<1>1. CASE StartAsked(s)
  <2>1. pc[s] = "off" /\ Goto(s, "asked") /\ UNCHANGED <<alerts, todo, given, driver, csc, blocks>>
    BY <1>1 DEF StartAsked, At, telemetryVars, client
  <2> QED
    BY <1>a, <1>b, <2>1 DEF Labels
<1>2. CASE StartMakesClients(s)
  <2>1. /\ pc[s] = "asked" /\ Goto(s, "clients") /\ DOMAIN alerts' = {} /\ given' = {}
        /\ UNCHANGED <<driver, csc, blocks>>
    BY <1>2 DEF StartMakesClients, At
  <2>2. ~Informed'
    BY <1>0, <1>b, <2>1 DEF Informed, HasBlocks, Labels
  <2> QED
    BY <2>1, <2>2 DEF IdsInv
<1>3. CASE StartKeepsDriver(s)
  <2>1. /\ pc[s] = "clients" /\ blocks' = number[s]
        /\ UNCHANGED <<alerts, todo, given, driver>>
    BY <1>3 DEF StartKeepsDriver, At, telemetryVars, client
  <2>2. ~Informed'
    BY <1>0, <2>1 DEF Informed
  <2> QED
    BY <1>c, <2>1, <2>2
<1>4. CASE StartLoadsDriver(s)
  <2>1. UNCHANGED <<alerts, todo, given>> /\ driver'.alerts = {}
    BY <1>4 DEF StartLoadsDriver, client, NewDriver
  <2> QED
    BY <2>1 DEF IdsInv, Alerts
<1>5. CASE StartConfiguresDriver(s)
  <2>1. /\ pc[s] = "driver" /\ Goto(s, "history")
        /\ UNCHANGED <<alerts, todo, given, csc, blocks>>
        /\ driver'.alerts = driver.alerts /\ driver'.made = driver.made
    BY <1>0, <1>5 DEF StartConfiguresDriver, At, client, Drivers
  <2> QED
    BY <1>a, <1>b, <2>1 DEF Labels, HasBlocks
<1>6. CASE StartUpdates(s)
  <2>1. /\ pc[s] = "history" /\ Goto(s, "playing")
        /\ UNCHANGED <<alerts, todo, given, csc, blocks>>
        /\ driver'.alerts = driver.alerts /\ driver'.made = driver.made
    BY <1>0, <1>6 DEF StartUpdates, UpdateBegins, At, client, Drivers
  <2> QED
    BY <1>a, <1>b, <2>1 DEF Labels, HasBlocks
<1>7. CASE StartLoadsHistory(s) \/ StartPlaysBack(s) \/ StartValidates(s)
  <2>1. PICK l \in Labels : Goto(s, l)
    BY <1>7 DEF StartLoadsHistory, StartPlaysBack, StartValidates, Labels
  <2>2. pc[s] \in {"history", "playing", "validating"}
        /\ UNCHANGED <<alerts, todo, given, csc, blocks, driver>>
    BY <1>7 DEF StartLoadsHistory, StartPlaysBack, StartValidates, At, telemetryVars, client
  <2> QED
    BY <1>a, <1>b, <2>1, <2>2 DEF HasBlocks
<1>8. CASE StartEnds(s)
  <2>1. pc[s] = "publishing" /\ UNCHANGED <<alerts, todo, given, driver, blocks>>
    BY <1>8 DEF StartEnds, At, telemetryVars, client
  <2>2. Informed' => Informed
    BY <2>1 DEF Informed, HasBlocks
  <2> QED
    BY <2>1, <2>2, IdsKept
<1>9. CASE StartFails(s)
  <2>1. pc[s] # "off" /\ csc' = "STANDBY" /\ \A t \in Starters : pc'[t] = "off"
    BY <1>0, <1>9 DEF StartFails, StartRaises, Gone, At
  <2>2. ~Informed'
    BY <2>1 DEF Informed, HasBlocks
  <2>3. UNCHANGED <<alerts, given>> /\ todo' \subseteq todo
    BY <1>9 DEF StartFails, UpdateFails, Leaves, telemetryVars, client
  <2> QED
    BY <1>c, <2>2, <2>3
<1> QED
  BY <1>1, <1>2, <1>3, <1>4, <1>5, <1>6, <1>7, <1>8, <1>9 DEF Start

LEMMA NextIds == TypeInv /\ StartInv /\ IdsInv /\ [Next]_vars => IdsInv'
<1> SUFFICES ASSUME TypeInv, StartInv, IdsInv, [Next]_vars PROVE IdsInv'
  OBVIOUS
<1>1. ASSUME UNCHANGED <<alerts, given, driver, starting, blocks>>, todo' \subseteq todo,
             csc # "STANDBY"
      PROVE  IdsInv'
  <2>1. Informed' => Informed
    BY <1>1 DEF Informed, HasBlocks
  <2> QED
    BY <1>1, <2>1, IdsKept
<1>2. csc = "STANDBY" => ~looping /\ loop = "off" /\ by \in {"nobody", "start"}
  BY DEF StartInv, OneStart
<1>3. CASE Transitions
  BY <1>1, <1>3 DEF Transitions, Enable, Disable, Standby, TasksStop, UpdateCancelled, Leaves,
                    telemetryVars, client
<1>4. CASE TelemetryLoop
  <2>1. CASE TelemetryArrives \/ InfoFails
    BY <2>1, UpdatesKeepIds DEF TelemetryArrives, InfoFails
  <2>2. CASE TelemetryFails \/ InfoBegins
    BY <1>1, <1>2, <2>2
       DEF TelemetryFails, StateFails, InfoBegins, UpdateBegins, client, startupVars
  <2> QED
    BY <1>4, <2>1, <2>2 DEF TelemetryLoop
<1>5. CASE Loop
  BY <1>1, <1>2, <1>5 DEF Loop, LoopSynced, LoopBegins, LoopFails, LoopCancelled, UpdateBegins,
                          UpdateFails, UpdateCancelled, Leaves, telemetryVars, client
<1>6. CASE UpdateGoesOn
  BY <1>6, UpdatesKeepIds DEF UpdateGoesOn
<1>7. ASSUME NEW x \in Threads, OrphanEnds(x) PROVE IdsInv'
  BY <1>7, UpdatesKeepIds DEF OrphanEnds
<1>8. CASE (TimePasses /\ UNCHANGED startupVars) \/ UNCHANGED vars
  BY <1>8, UpdatesKeepIds DEF vars
<1> QED
  BY <1>3, <1>4, <1>5, <1>6, <1>7, <1>8, StartKeepsIds DEF Next

(* A source keeps its tooid, no two sources share one, and the driver is   *)
(* told no other, wherever an update fails or is cancelled.                *)
THEOREM AlertIdsKept == Spec => []AlertIdsStick
<1>1. Init => IdsInv
  BY DEF Init, TelemetryInit, IdsInv, NewDriver
<1>2. TypeInv /\ IdsInv => AlertIdsStick
  <2> SUFFICES ASSUME TypeInv, IdsInv PROVE AlertIdsStick
    OBVIOUS
  <2>1. \A a, b \in Alerts : a[2] = b[2] => a = b
    BY DEF IdsInv, Alerts
  <2> QED
    BY <2>1 DEF IdsInv, Informed, AlertIdsStick
<1> QED
  BY <1>1, <1>2, InitTyped, NextTyped, InitStart, NextStart, NextIds, PTL DEF Spec

-----------------------------------------------------------------------------
(* What the driver makes of the nights up to a time, once it has counted.  *)
Counted(t) ==
  /\ driver.isNight = Night(t)
  /\ driver.sunset = NightFrom(t)
  /\ driver.night = 1 + Cardinality(NightsBetween(driver.first, t))

Updating(x) == thread[x].step \in {"reads", "writes", "counts"}

(* Between the reading and the writing of the conditions the sky model and *)
(* the state of the observatory stay together, a day or a night ahead of   *)
(* the driver at most; then a night that has ended is still to be counted. *)
InWrites(x) ==
  sky = stateTime /\ stateTime <= driver.last + 1 /\ thread[x].was = driver.isNight

InCounts(x) ==
  /\ sky = stateTime /\ driver.last = stateTime /\ driver.isNight = Night(driver.last)
  /\ IF NightEnds(x)
       THEN /\ driver.first <= driver.last - 1 /\ Night(driver.last - 1)
            /\ driver.night = 1 + Cardinality(NightsBetween(driver.first, driver.last - 1))
       ELSE Counted(driver.last)

NightsCounted ==
  /\ \A x, y \in Threads : Updating(x) /\ Updating(y) => x = y
  /\ driver.isNight = Unknown =>
       driver.night = 1 /\ \A x \in Threads : thread[x].step \notin {"writes", "counts"}
  /\ driver.isNight # Unknown => driver.first <= driver.last /\ driver.last <= stateTime
  /\ driver.isNight # Unknown /\ (\A x \in Threads : thread[x].step # "counts")
       => Counted(driver.last)
  /\ \A x \in Threads : thread[x].step = "writes" => InWrites(x)
  /\ \A x \in Threads : thread[x].step = "counts" => InCounts(x)

NightInv == stateTime <= clock /\ (driver.upset \/ NightsCounted)

(* As time goes on by one, the nights that have ended are one more if it   *)
(* was night, and the same if it was day.                                  *)
LEMMA NightsGrow ==
  ASSUME NEW first \in Times, NEW t \in Times, first <= t
  PROVE  /\ Cardinality(NightsBetween(first, t)) \in Nat
         /\ Night(t) => Cardinality(NightsBetween(first, t + 1))
                          = Cardinality(NightsBetween(first, t)) + 1
         /\ ~Night(t) => NightsBetween(first, t + 1) = NightsBetween(first, t)
<1>0. first \in Nat /\ t \in Nat /\ MaxTime \in Nat
  BY TelemetryAssumption DEF Times
<1>1. IsFiniteSet(NightsBetween(first, t)) /\ Cardinality(NightsBetween(first, t)) \in Nat
  <2>1. IsFiniteSet(Times)
    BY <1>0, FS_Interval DEF Times
  <2> QED
    BY <2>1, FS_Subset, FS_CardinalityType DEF NightsBetween
<1>2. ASSUME Night(t)
      PROVE  Cardinality(NightsBetween(first, t + 1)) = Cardinality(NightsBetween(first, t)) + 1
  <2>1. NightsBetween(first, t + 1) = NightsBetween(first, t) \cup {t}
    BY <1>0, <1>2 DEF NightsBetween, Times
  <2>2. t \notin NightsBetween(first, t)
    BY <1>0 DEF NightsBetween
  <2> QED
    BY <1>1, <2>1, <2>2, FS_AddElement
<1>3. ASSUME ~Night(t)
      PROVE  NightsBetween(first, t + 1) = NightsBetween(first, t)
  BY <1>0, <1>3 DEF NightsBetween, Times
<1> QED
  BY <1>1, <1>2, <1>3

(* A driver knows one boundary, the next sunset or that of the night it    *)
(* is: enough to tell the next day or night.                               *)
LEMMA BoundaryTells ==
  ASSUME NEW last \in Nat, NEW t \in {last, last + 1}
  PROVE  /\ t = NightFrom(last) <=> Night(t)
         /\ t = last + 1 => (Night(t) <=> ~Night(last))
         /\ t = last + 1 /\ ~Night(last) => NightFrom(t) = NightFrom(last)
         /\ Night(t) \in BOOLEAN
BY DEF NightFrom, Night

SameNights ==
  /\ driver'.isNight = driver.isNight /\ driver'.night = driver.night
  /\ driver'.sunset = driver.sunset
  /\ driver'.first = driver.first /\ driver'.last = driver.last

LEMMA NightKept ==
  ASSUME TypeInv, NightInv, SameNights, UNCHANGED <<stateTime, sky, thread>>,
         clock' \in {clock, clock + 1}, driver.upset => driver'.upset
  PROVE  NightInv'
<1>1. stateTime' <= clock'
  BY DEF TypeInv, TelemetryType, Times, NightInv
<1>2. NightsCounted => NightsCounted'
  BY DEF NightsCounted, Updating, InWrites, InCounts, NightEnds, Counted, SameNights
<1> QED
  BY <1>1, <1>2 DEF NightInv

LEMMA NightFixed ==
  ASSUME TypeInv, NightInv, UNCHANGED <<clock, stateTime, sky, thread, driver>>
  PROVE  NightInv'
BY NightKept DEF SameNights

(* The state of the observatory arrives, or is asked for: the nights stay  *)
(* counted, unless it moves on under a thread that has read it.            *)
LEMMA NightAdvances ==
  ASSUME TypeInv, NightInv, stateTime' = clock, UNCHANGED <<clock, sky, thread>>,
         driver' = [driver EXCEPT !.upset = @ \/ Upsets]
  PROVE  NightInv'
<1>0. /\ driver \in Drivers /\ clock \in Nat /\ stateTime \in Nat /\ sky \in Nat
      /\ driver.last \in Nat /\ stateTime <= clock
  BY DEF TypeInv, TelemetryType, Times, Drivers, NightInv
<1>1. SameNights /\ driver'.upset = (driver.upset \/ Upsets)
  BY <1>0 DEF SameNights, Drivers
<1>2. CASE driver'.upset
  BY <1>0, <1>2 DEF NightInv
<1>3. CASE ~driver'.upset
  <2>1. NightsCounted /\ ~Upsets
    BY <1>1, <1>3 DEF NightInv
  <2>2. \A x \in Threads : thread[x].step \in {"writes", "counts"} => sky = clock
    BY <2>1 DEF Upsets
  <2>3. \A x \in Threads : thread[x].step = "writes" => InWrites(x)'
    BY <1>0, <1>1, <2>1, <2>2 DEF NightsCounted, InWrites, SameNights
  <2>4. \A x \in Threads : thread[x].step = "counts" => InCounts(x)'
    BY <1>0, <1>1, <2>1, <2>2 DEF NightsCounted, InCounts, NightEnds, Counted, SameNights
  <2>5. driver.isNight # Unknown => driver.first <= driver.last /\ driver.last <= clock
    BY <1>0, <2>1 DEF NightsCounted
  <2>6. NightsCounted'
    BY <1>1, <2>1, <2>3, <2>4, <2>5 DEF NightsCounted, Updating, Counted, SameNights
  <2> QED
    BY <1>0, <2>6 DEF NightInv
<1> QED
  BY <1>2, <1>3

(* update_conditions gets a thread, and leaves the driver to the one that  *)
(* has it.                                                                 *)
LEMMA NightThreadFound ==
  ASSUME TypeInv, NightInv, CloudsRead
  PROVE  NightInv'
<1>0. /\ driver \in Drivers
      /\ thread \in [Threads -> [step : Steps, was : BOOLEAN \cup {Unknown}]]
  BY DEF TypeInv, TelemetryType
<1>1. SameNights /\ driver'.upset = (driver.upset \/ ~Settled)
  BY <1>0 DEF CloudsRead, SameNights, Drivers
<1>2. PICK x \in Threads : thread' = [thread EXCEPT ![x].step = "reads"]
  BY DEF CloudsRead
<1>3. CASE driver'.upset
  BY <1>3 DEF NightInv, CloudsRead
<1>4. CASE ~driver'.upset
  <2>1. NightsCounted /\ Settled
    BY <1>1, <1>4 DEF NightInv
  <2>2. /\ \A y \in Threads : thread[y].step \in {"free", "stale"}
        /\ \A y \in Threads : thread'[y].step \in {"free", "stale"} \/ y = x
        /\ thread'[x].step = "reads"
    BY <1>0, <1>2, <2>1 DEF Settled
  <2>3. NightsCounted'
    BY <1>1, <2>1, <2>2 DEF NightsCounted, Updating, Counted, SameNights, CloudsRead
  <2> QED
    BY <2>3 DEF NightInv, CloudsRead
<1> QED
  BY <1>3, <1>4

(* The conditions are read: the first time they say what night it is.      *)
LEMMA NightRead ==
  ASSUME TypeInv, NightInv, NEW x \in Threads, ConditionsRead(x)
  PROVE  NightInv'
<1> DEFINE d == IF driver.isNight # Unknown THEN driver
                ELSE [driver EXCEPT !.sunset = NightFrom(stateTime),
                                    !.isNight = Night(stateTime),
                                    !.first = stateTime, !.last = stateTime]
<1>0. /\ driver \in Drivers /\ stateTime \in Times /\ stateTime \in Nat
      /\ driver.last \in Nat /\ driver.last \in Times /\ stateTime <= clock
      /\ thread \in [Threads -> [step : Steps, was : BOOLEAN \cup {Unknown}]]
  BY DEF TypeInv, TelemetryType, Times, Drivers, NightInv
<1>1. /\ thread[x].step = "reads" /\ sky' = stateTime /\ UNCHANGED <<clock, stateTime>>
      /\ thread' = [thread EXCEPT ![x] = [step |-> "writes", was |-> d.isNight]]
      /\ driver' = [d EXCEPT !.upset = @ \/ Misses(stateTime)]
  BY DEF ConditionsRead
<1>2. /\ d.upset = driver.upset
      /\ driver.isNight # Unknown => d = driver
      /\ driver.isNight = Unknown =>
           /\ d.sunset = NightFrom(stateTime) /\ d.isNight = Night(stateTime)
           /\ d.first = stateTime /\ d.last = stateTime /\ d.night = driver.night
      /\ DOMAIN d = DOMAIN driver
      /\ {"upset", "isNight", "sunset", "night", "first", "last"} \subseteq DOMAIN d
  BY <1>0 DEF Drivers
<1> HIDE DEF d
<1>3. /\ driver'.upset = (d.upset \/ Misses(stateTime))
      /\ driver'.isNight = d.isNight /\ driver'.sunset = d.sunset /\ driver'.night = d.night
      /\ driver'.first = d.first /\ driver'.last = d.last
  BY <1>1, <1>2
<1>4. CASE driver'.upset
  BY <1>0, <1>1, <1>4 DEF NightInv
<1>5. CASE ~driver'.upset
  <2>1. NightsCounted /\ ~Misses(stateTime)
    BY <1>2, <1>3, <1>5 DEF NightInv
  <2>2. /\ \A y \in Threads : y # x => ~Updating(y) /\ thread'[y] = thread[y]
        /\ thread'[x].step = "writes" /\ thread'[x].was = d.isNight
    BY <1>0, <1>1, <2>1 DEF NightsCounted, Updating
  <2>3. \A y \in Threads : y # x => thread'[y].step \notin {"reads", "writes", "counts"}
    BY <2>2 DEF Updating
  <2>4. d.isNight # Unknown
    BY <1>2, TelemetryAssumption DEF Night
  <2>5. /\ d.isNight = Night(d.last) /\ d.sunset = NightFrom(d.last)
        /\ d.night = 1 + Cardinality(NightsBetween(d.first, d.last))
        /\ d.first <= d.last /\ d.last <= stateTime /\ stateTime <= d.last + 1
    <3>1. CASE driver.isNight # Unknown
      <4>1. \A y \in Threads : thread[y].step # "counts"
        BY <1>1, <2>2 DEF Updating
      <4>2. Counted(driver.last)
        BY <2>1, <3>1, <4>1 DEF NightsCounted
      <4>3. stateTime <= driver.last + 1
        BY <1>0, <2>1, <3>1 DEF Misses
      <4> QED
        BY <1>2, <2>1, <3>1, <4>2, <4>3 DEF Counted, NightsCounted
    <3>2. CASE driver.isNight = Unknown
      <4>1. NightsBetween(stateTime, stateTime) = {}
        BY <1>0, TelemetryAssumption DEF NightsBetween, Times
      <4>2. driver.night = 1
        BY <2>1, <3>2 DEF NightsCounted
      <4>3. NightsBetween(d.first, d.last) = {} /\ d.night = 1
        BY <1>2, <3>2, <4>1, <4>2
      <4>4. d.night = 1 + Cardinality(NightsBetween(d.first, d.last))
        BY <4>3, FS_EmptySet
      <4>5. d.isNight = Night(d.last) /\ d.sunset = NightFrom(d.last)
        BY <1>2, <3>2
      <4>6. d.first = stateTime /\ d.last = stateTime
        BY <1>2, <3>2
      <4> QED
        BY <1>0, <4>4, <4>5, <4>6
    <3> QED
      BY <3>1, <3>2
  <2>6. NightsCounted'
    <3>1. Counted(driver.last)'
      BY <1>3, <2>5 DEF Counted
    <3>2. InWrites(x)'
      BY <1>1, <1>3, <2>2, <2>5 DEF InWrites
    <3>3. driver'.first <= driver'.last /\ driver'.last <= stateTime' /\ driver'.isNight # Unknown
      BY <1>1, <1>3, <2>4, <2>5
    <3> QED
      BY <2>2, <2>3, <3>1, <3>2, <3>3 DEF NightsCounted, Updating
  <2> QED
    BY <1>0, <1>1, <2>6 DEF NightInv
<1> QED
  BY <1>4, <1>5

(* Day or night is told from the boundary the driver has.                  *)
LEMMA NightWritten ==
  ASSUME TypeInv, NightInv, NEW x \in Threads, ConditionsWritten(x)
  PROVE  NightInv'
<1>0. /\ driver \in Drivers /\ stateTime \in Times /\ stateTime \in Nat
      /\ driver.last \in Nat /\ driver.last \in Times /\ driver.first \in Times
      /\ stateTime <= clock /\ driver.first \in Nat
      /\ thread \in [Threads -> [step : Steps, was : BOOLEAN \cup {Unknown}]]
  BY DEF TypeInv, TelemetryType, Times, Drivers, NightInv
<1>1. /\ thread[x].step = "writes" /\ UNCHANGED <<clock, stateTime, sky>>
      /\ thread' = [thread EXCEPT ![x].step = "counts"]
      /\ driver' = [driver EXCEPT !.isNight = (stateTime = driver.sunset), !.last = stateTime]
  BY DEF ConditionsWritten
<1>2. /\ driver'.upset = driver.upset
      /\ driver'.isNight = (stateTime = driver.sunset) /\ driver'.last = stateTime
      /\ driver'.sunset = driver.sunset /\ driver'.night = driver.night
      /\ driver'.first = driver.first
  BY <1>0, <1>1 DEF Drivers
<1>3. CASE driver.upset
  BY <1>0, <1>1, <1>2, <1>3 DEF NightInv
<1>4. CASE ~driver.upset
  <2>1. NightsCounted
    BY <1>4 DEF NightInv
  <2>2. /\ \A y \in Threads : y # x => ~Updating(y) /\ thread'[y] = thread[y]
        /\ thread'[x].step = "counts" /\ thread'[x].was = thread[x].was
    BY <1>0, <1>1, <2>1 DEF NightsCounted, Updating
  <2>3. \A y \in Threads : y # x => thread'[y].step \notin {"reads", "writes", "counts"}
    BY <2>2 DEF Updating
  <2>4. /\ driver.isNight # Unknown
        /\ sky = stateTime /\ stateTime \in {driver.last, driver.last + 1}
        /\ thread[x].was = driver.isNight
        /\ driver.first <= driver.last
    BY <1>0, <1>1, <2>1 DEF NightsCounted, InWrites
  <2>5. Counted(driver.last)
    BY <1>1, <2>1, <2>2, <2>4 DEF NightsCounted, Updating
  <2>6. driver'.isNight = Night(stateTime) /\ driver'.isNight \in BOOLEAN
    BY <1>0, <1>2, <2>4, <2>5, BoundaryTells DEF Counted
  <2>7. NightEnds(x)' <=> ~Night(stateTime) /\ Night(driver.last)
    BY <2>2, <2>4, <2>5, <2>6 DEF NightEnds, Counted
  <2>8. InCounts(x)'
    <3>1. CASE ~Night(stateTime) /\ Night(driver.last)
      <4>1. stateTime = driver.last + 1 /\ stateTime - 1 = driver.last
        BY <1>0, <2>4, <3>1
      <4> QED
        BY <1>1, <1>2, <2>4, <2>5, <2>6, <2>7, <3>1, <4>1 DEF InCounts, Counted
    <3>2. CASE ~(~Night(stateTime) /\ Night(driver.last))
      <4>1. NightFrom(stateTime) = NightFrom(driver.last)
        BY <1>0, <2>4, <3>2, BoundaryTells
      <4>2. NightsBetween(driver.first, stateTime) = NightsBetween(driver.first, driver.last)
        BY <1>0, <2>4, <3>2, NightsGrow, BoundaryTells
      <4>3. Counted(driver.last)'
        BY <1>2, <2>5, <2>6, <4>1, <4>2 DEF Counted
      <4> QED
        BY <1>1, <1>2, <2>4, <2>6, <2>7, <3>2, <4>3 DEF InCounts
    <3> QED
      BY <3>1, <3>2
  <2>9. driver'.first <= driver'.last /\ driver'.last <= stateTime' /\ driver'.isNight # Unknown
    <3>1. driver'.isNight # Unknown
      BY <2>6, TelemetryAssumption, Zenon
    <3>2. driver'.first <= driver'.last /\ driver'.last <= stateTime'
      BY <1>0, <1>1, <1>2, <2>4
    <3> QED
      BY <3>1, <3>2
  <2>10. NightsCounted'
    BY <2>2, <2>3, <2>8, <2>9 DEF NightsCounted, Updating
  <2> QED
    BY <1>0, <1>1, <2>10 DEF NightInv
<1> QED
  BY <1>3, <1>4

(* A night that has ended is counted, once, and the boundaries move on.    *)
LEMMA NightIsCounted ==
  ASSUME TypeInv, NightInv, NEW x \in Threads, ConditionsCounted(x)
  PROVE  NightInv'
<1>0. /\ driver \in Drivers /\ stateTime \in Times /\ stateTime \in Nat
      /\ driver.last \in Nat /\ driver.last \in Times /\ driver.first \in Times
      /\ stateTime <= clock /\ driver.first \in Nat /\ driver.isNight \in BOOLEAN \cup {Unknown}
      /\ thread \in [Threads -> [step : Steps, was : BOOLEAN \cup {Unknown}]]
  BY DEF TypeInv, TelemetryType, Times, Drivers, NightInv
<1>1. /\ thread[x].step = "counts" /\ UNCHANGED <<clock, stateTime, sky>>
      /\ thread' = [thread EXCEPT ![x] = Free]
  BY DEF ConditionsCounted, ThreadEnds
<1>2. /\ driver'.upset = driver.upset
      /\ driver'.isNight = driver.isNight /\ driver'.last = driver.last
      /\ driver'.first = driver.first
      /\ driver'.night = IF NightEnds(x) THEN driver.night + 1 ELSE driver.night
      /\ driver'.sunset = IF NightEnds(x) THEN NightFrom(sky) ELSE driver.sunset
  BY <1>0 DEF ConditionsCounted, Drivers
<1>3. CASE driver.upset
  BY <1>0, <1>1, <1>2, <1>3 DEF NightInv
<1>4. CASE ~driver.upset
  <2>1. NightsCounted
    BY <1>4 DEF NightInv
  <2>2. /\ \A y \in Threads : y # x => ~Updating(y) /\ thread'[y] = thread[y]
        /\ thread'[x].step = "free"
    BY <1>0, <1>1, <2>1 DEF NightsCounted, Updating, Free
  <2>3. \A y \in Threads : thread'[y].step \notin {"reads", "writes", "counts"}
    BY <2>2 DEF Updating
  <2>4. InCounts(x) /\ driver.isNight # Unknown /\ driver.first <= driver.last
        /\ driver.last <= stateTime
    BY <1>1, <2>1 DEF NightsCounted
  <2>5. Counted(driver.last)'
    <3>1. CASE NightEnds(x)
      <4>1. /\ driver.first <= driver.last - 1 /\ Night(driver.last - 1)
            /\ driver.night = 1 + Cardinality(NightsBetween(driver.first, driver.last - 1))
            /\ sky = driver.last /\ driver.isNight = Night(driver.last)
        BY <2>4, <3>1 DEF InCounts
      <4>2. driver.last - 1 \in Times /\ (driver.last - 1) + 1 = driver.last
        BY <1>0, <4>1, TelemetryAssumption DEF Times
      <4>3. /\ Cardinality(NightsBetween(driver.first, driver.last))
                 = Cardinality(NightsBetween(driver.first, driver.last - 1)) + 1
            /\ Cardinality(NightsBetween(driver.first, driver.last - 1)) \in Nat
        BY <1>0, <4>1, <4>2, NightsGrow
      <4> QED
        BY <1>2, <3>1, <4>1, <4>3 DEF Counted
    <3>2. CASE ~NightEnds(x)
      BY <1>2, <2>4, <3>2 DEF InCounts, Counted
    <3> QED
      BY <3>1, <3>2
  <2>6. NightsCounted'
    BY <1>1, <1>2, <2>3, <2>4, <2>5 DEF NightsCounted, Updating
  <2> QED
    BY <1>0, <1>1, <2>6 DEF NightInv
<1> QED
  BY <1>3, <1>4

(* A thread of a driver that was replaced changes the sky model only.      *)
LEMMA NightOrphan ==
  ASSUME TypeInv, NightInv, NEW x \in Threads, OrphanEnds(x)
  PROVE  NightInv'
<1>1. /\ thread[x].step = "stale" /\ sky' = stateTime /\ UNCHANGED <<clock, stateTime, driver>>
      /\ \A y \in Threads : y # x => thread'[y] = thread[y]
      /\ thread'[x].step = "free"
  BY DEF OrphanEnds, TypeInv, TelemetryType, Free
<1>2. NightsCounted => NightsCounted'
  <2> SUFFICES ASSUME NightsCounted PROVE NightsCounted'
    OBVIOUS
  <2>1. \A y \in Threads : thread'[y].step \in {"reads", "writes", "counts"}
                             => y # x /\ thread'[y] = thread[y]
    BY <1>1
  <2>2. \A y \in Threads : y # x => thread'[y].step = thread[y].step
    BY <1>1
  <2>3. \A y \in Threads : thread'[y].step = "writes" => InWrites(y)'
    BY <1>1, <2>1 DEF NightsCounted, InWrites
  <2>4. \A y \in Threads : thread'[y].step = "counts" => InCounts(y)'
    BY <1>1, <2>1 DEF NightsCounted, InCounts, NightEnds, Counted
  <2>5. (\A y \in Threads : thread'[y].step # "counts") =>
          \A y \in Threads : thread[y].step # "counts"
    BY <1>1, <2>2
  <2>6. Counted(driver.last) => Counted(driver.last)'
    BY <1>1 DEF Counted
  <2> QED
    BY <1>1, <2>1, <2>3, <2>4, <2>5, <2>6 DEF NightsCounted, Updating
<1> QED
  BY <1>1, <1>2 DEF NightInv

LEMMA StartKeepsNight ==
  ASSUME TypeInv, NightInv, NEW s \in Starters, Start(s)
  PROVE  NightInv'
<1>0. driver \in Drivers
  BY DEF TypeInv, TelemetryType
<1>1. CASE StartLoadsDriver(s)
  <2>1. /\ UNCHANGED <<clock, stateTime>>
        /\ driver' = NewDriver(number[s]) /\ thread' = Orphaned
    BY <1>1 DEF StartLoadsDriver
  <2>2. \A x \in Threads : thread'[x].step \notin {"reads", "writes", "counts"}
    BY <2>1 DEF Orphaned, Free, TypeInv, TelemetryType
  <2>3. driver'.isNight = Unknown /\ driver'.night = 1
    BY <2>1 DEF NewDriver
  <2>4. NightsCounted'
    BY <2>2, <2>3 DEF NightsCounted, Updating
  <2> QED
    BY <2>1, <2>4 DEF NightInv
<1>2. CASE StartConfiguresDriver(s)
  <2>1. SameNights /\ driver'.upset = driver.upset
    BY <1>0, <1>2 DEF StartConfiguresDriver, SameNights, Drivers
  <2> QED
    BY <1>2, <2>1, NightKept DEF StartConfiguresDriver
<1>3. CASE StartUpdates(s)
  BY <1>3, NightAdvances DEF StartUpdates, UpdateBegins
<1>4. ASSUME UNCHANGED telemetryVars PROVE NightInv'
  BY <1>4, NightFixed DEF telemetryVars
<1>5. CASE StartMakesClients(s)
  BY <1>5, NightFixed DEF StartMakesClients
<1>6. CASE StartFails(s)
  BY <1>4, <1>6, NightFixed DEF StartFails, UpdateFails
<1> QED
  BY <1>1, <1>2, <1>3, <1>4, <1>5, <1>6
     DEF Start, StartAsked, StartKeepsDriver, StartLoadsHistory, StartPlaysBack, StartValidates,
         StartEnds

LEMMA NextNight == TypeInv /\ NightInv /\ [Next]_vars => NightInv'
<1> SUFFICES ASSUME TypeInv, NightInv, [Next]_vars PROVE NightInv'
  OBVIOUS
<1>1. ASSUME UNCHANGED telemetryVars PROVE NightInv'
  BY <1>1, NightFixed DEF telemetryVars
<1>2. CASE Transitions
  BY <1>1, <1>2, NightFixed
     DEF Transitions, Enable, Disable, Standby, TasksStop, UpdateCancelled
<1>3. CASE TelemetryLoop
  <2>1. CASE TelemetryArrives
    BY <2>1, NightAdvances DEF TelemetryArrives, StateArrives
  <2>2. CASE TelemetryFails \/ InfoBegins \/ InfoFails
    BY <2>2, NightFixed
       DEF TelemetryFails, StateFails, InfoBegins, InfoFails, UpdateBegins, UpdateFails,
           UpdateCancelled
  <2> QED
    BY <1>3, <2>1, <2>2 DEF TelemetryLoop
<1>4. CASE Loop
  BY <1>1, <1>4, NightFixed
     DEF Loop, LoopSynced, LoopBegins, LoopFails, LoopCancelled, UpdateBegins, UpdateFails,
         UpdateCancelled
<1>5. CASE UpdateGoesOn
  <2>1. CASE AlertsRead \/ AlertsGiven
    BY <2>1, NightFixed DEF AlertsRead, AlertsGiven
  <2>2. ASSUME NEW s \in Sources, MapRead(s) PROVE NightInv'
    BY <2>2, NightFixed DEF MapRead
  <2> QED
    BY <1>5, <2>1, <2>2, NightThreadFound, NightRead, NightWritten, NightIsCounted
       DEF UpdateGoesOn
<1>6. CASE TimePasses
  BY <1>6, NightKept DEF TimePasses, SameNights
<1>7. CASE UNCHANGED vars
  BY <1>1, <1>7 DEF vars
<1> QED
  BY <1>2, <1>3, <1>4, <1>5, <1>6, <1>7, StartKeepsNight, NightOrphan DEF Next

(* The driver says what night it was at its last update, and has counted   *)
(* each night once, for any number of days and nights, of threads left     *)
(* behind and of drivers replaced, if its updates come in time, one by one.*)
THEOREM NightsFollowed == Spec => []NightFollowed
<1>1. Init => NightInv
  <2> SUFFICES ASSUME Init PROVE NightInv
    OBVIOUS
  <2>1. stateTime <= clock
    BY DEF Init, TelemetryInit
  <2>2. driver.isNight = Unknown /\ driver.night = 1
    BY DEF Init, NewDriver
  <2>3. \A x \in Threads : thread[x].step = "free"
    BY DEF Init, TelemetryInit, Free
  <2> QED
    BY <2>1, <2>2, <2>3 DEF NightInv, NightsCounted, Updating
<1>2. NightInv => NightFollowed
  BY DEF NightInv, NightsCounted, Counted, NightFollowed, Settled
<1> QED
  BY <1>1, <1>2, InitTyped, NextTyped, NextNight, PTL DEF Spec
================================================================================
