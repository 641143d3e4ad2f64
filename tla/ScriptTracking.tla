---------------------------- MODULE ScriptTracking ----------------------------
(***************************************************************************)
(* How the Scheduler CSC follows its scripts on the ScriptQueue: what the  *)
(* script events tell it (script_info, and a future per script), how many  *)
(* scripts it lets wait (_queue_capacity), and what becomes of a target    *)
(* from the moment it is sent until its observation is registered, or its  *)
(* scripts are withdrawn (model.py and scheduler_csc.py).                  *)
(*                                                                         *)
(* Targets are sent by the target production loop, under target_loop_lock, *)
(* or by the task of a block that was added while the loop is stopped,     *)
(* without it.  The locks themselves are the matter of TargetLoop; here    *)
(* they say who may interleave with whom.                                  *)
(***************************************************************************)
EXTENDS Naturals, Sequences, FiniteSets, SequencesExt

CONSTANTS Targets,     \* the targets to send, each once
          Size,        \* number of scripts in the block of each target
          MaxScripts,  \* parameters.max_scripts
          Capacity,    \* _max_queue_capacity
          NTargets,    \* parameters.n_targets
          Others,      \* bound on the scripts somebody else adds
          Mishaps      \* what may go wrong: a subset of AllMishaps

Nobody == "nobody"    \* owner of a script the CSC did not add

(* A removal, or cmd_add, raises or times out; the telemetry loop fails;   *)
(* stop does not get done within loop_die_timeout.                         *)
AllMishaps == {"removalFails", "addFails", "telemetryFails", "stopOutlasts"}

ASSUME ScriptTrackingAssumption ==
  /\ Size \in [Targets -> Nat \ {0}] /\ Nobody \notin Targets
  /\ MaxScripts \in Nat \ {0} /\ Capacity \in Nat \ {0}
  /\ NTargets \in Nat /\ Others \in Nat /\ Mishaps \subseteq AllMishaps

Finals == {"done", "failed"}

(* The list that holds a target: targets_queue, the hands of               *)
(* queue_targets, scheduled_targets, the lists of a check or a cleanup     *)
(* under the lock, and of a cleanup without it ("discarded").  "gone": it  *)
(* was removed; "lost": it is in no list and was not, or nobody knows.     *)
Places == {"queued", "inHand", "scheduled", "observed", "withdrawn",
           "discarded", "registered", "gone", "lost"}

VARIABLES onQueue,   \* ScriptQueue (external): the scripts, by SAL index
          events,    \* evt_script samples on their way
          info,      \* model.script_info, oldest entry first
          sent,      \* the targets whose block was registered, in order
          blocks,    \* targets with an entry in _block_scripts_final_state
          futures,   \* the futures of those entries, by SAL index
          place,     \* the list that holds each target
          queueing,  \* how far put_on_queue has got
          lock,      \* holder of target_loop_lock
          step,      \* how far the holder has got
          asked,     \* a task that checks the targets waits for the lock
          cleanup,   \* how far a cleanup without the lock has got
          stop,      \* stop waits for the lock, or has killed the loop
          mode       \* "resumed", "stopping", "idle"; "ended": FAULT, or stuck

queueSide == <<onQueue, events>>
model == <<info, sent, blocks, futures>>
commands == <<cleanup, stop, mode>>
csc == <<place, queueing, lock, step, asked, commands>>
vars == <<queueSide, model, csc>>

Init ==
  /\ onQueue = << >> /\ events = << >>
  /\ info = << >> /\ sent = << >> /\ blocks = {} /\ futures = << >>
  /\ place = [t \in Targets |-> "queued"]
  /\ queueing = "off"
  /\ lock = "free" /\ step = "off"
  /\ asked = FALSE
  /\ cleanup = "off" /\ stop = "off" /\ mode = "idle"

(***************************************************************************)
(* The scripts of a target, and the futures of its block.                  *)
(***************************************************************************)
In(l) == {t \in Targets : place[t] = l}

Moved(from, to) == [t \in Targets |-> IF place[t] \in from THEN to ELSE place[t]]

(* DriverTarget.get_sal_indices *)
Indices(t) == {i \in DOMAIN onQueue : onQueue[i].of = t}

Live == {i \in DOMAIN onQueue : onQueue[i].state = "live"}

(* The ScriptQueue runs one script at a time, in order.                    *)
IsRunning(i) == i \in Live /\ \A j \in Live : i <= j

Pending == {i \in DOMAIN futures : futures[i] = "pending"}

(* The dictionary without some of its keys.                                *)
Without(f, keys) == [i \in DOMAIN f \ keys |-> f[i]]

AllDone(t, f) == \A i \in Indices(t) \cap DOMAIN f : f[i] # "pending"

(* In _block_scripts_final_state, and in the lists of targets.             *)
Older(t, u) == \E j, k \in DOMAIN sent : j < k /\ sent[j] = t /\ sent[k] = u

(* Those of a list of targets a loop over them gets to: up to the first    *)
(* whose block was forgotten, at which a KeyError is raised.               *)
Reached(ts) == {t \in ts : \A u \in ts \ blocks : Older(t, u)}

(* mark_block_done, for the blocks of some targets.                        *)
Marked(ts) ==
  [i \in DOMAIN futures |->
     IF futures[i] = "pending" /\ onQueue[i].of \in ts THEN "failed" ELSE futures[i]]

(* mark_block_done, then remove_block_done_scripts.                        *)
Emptied(ts) == Without(futures, UNION {Indices(t) : t \in ts})

(* cmd_stopScripts, as the ScriptQueue takes it: the scripts of some       *)
(* targets are stopped, in any order, unless currentSalIndex says they are *)
(* running, which may be out of date.                                      *)
Stops(ts) ==
  \E spared \in {{}, {i \in Live : IsRunning(i)}} :
    LET stopped == {i \in Live : onQueue[i].of \in ts} \ spared IN
      /\ onQueue' = [i \in DOMAIN onQueue |->
           IF i \in stopped THEN [onQueue[i] EXCEPT !.state = "failed"] ELSE onQueue[i]]
      /\ \E order \in [1..Cardinality(stopped) -> stopped] :
           /\ IsInjective(order)
           /\ events' = events \o
                [k \in DOMAIN order |-> [index |-> order[k], state |-> "failed"]]

(***************************************************************************)
(* callback_script_info, and the task check_script_info starts.            *)
(***************************************************************************)
Updated(e) ==
  IF \E k \in DOMAIN info : info[k].index = e.index
    THEN [k \in DOMAIN info |-> IF info[k].index = e.index THEN e ELSE info[k]]
    ELSE Append(info, e)

(* Mutant: one entry more than max_scripts is kept.                        *)
NewestAndOneMore(s) ==
  IF Len(s) > MaxScripts + 1 THEN SubSeq(s, Len(s) - MaxScripts, Len(s)) ELSE s

Newest(s) ==
  IF Len(s) > MaxScripts THEN SubSeq(s, Len(s) - MaxScripts + 1, Len(s)) ELSE s

(* Mutant: all the blocks that are done are forgotten.                     *)
ForgottenAll(done) == IF Cardinality(done) > MaxScripts THEN done ELSE {}

(* Of more than max_scripts blocks that are done, the max_scripts - 1      *)
(* oldest are forgotten.                                                   *)
Forgotten(done) ==
  IF Cardinality(done) > MaxScripts
    THEN {t \in done : Cardinality({u \in done : Older(u, t)}) < MaxScripts - 1}
    ELSE {}

(* Mutant: the futures are left alone.                                     *)
OutcomeIgnored(e) == futures

(* The future of a script gets its final state, if it has none yet.        *)
Outcome(e) ==
  [i \in DOMAIN futures |->
     IF i = e.index /\ e.state \in Finals /\ futures[i] = "pending"
       THEN e.state ELSE futures[i]]

(* At most one task waits for the lock or checks: while it does, further   *)
(* events start none.                                                      *)
Deliver ==
  /\ events # << >>
  /\ LET e == Head(events)
         done == {t \in blocks : AllDone(t, Outcome(e))}
     IN /\ info' = Newest(Updated(e))
        /\ blocks' = blocks \ Forgotten(done)
        /\ futures' = Without(Outcome(e), UNION {Indices(t) : t \in Forgotten(done)})
  /\ events' = Tail(events)
  /\ asked' = (asked \/ lock # "task")
  /\ UNCHANGED <<onQueue, sent, place, queueing, lock, step, commands>>

(***************************************************************************)
(* check_scheduled_targets, by the loop or by the task, and                *)
(* _cleanup_queue_targets, also by stop, under target_loop_lock.           *)
(***************************************************************************)
Known(t) == {info[k] : k \in {k \in DOMAIN info : onQueue[info[k].index].of = t}}

(* Mutant: the scripts nothing is known of are not missed.                 *)
VerdictOnKnown(t) ==
  IF \E r \in Known(t) : r.state = "failed" THEN "withdrawn"
  ELSE IF \A r \in Known(t) : r.state = "done" THEN "observed"
  ELSE "scheduled"

(* Where a scheduled target goes, from what is known of its scripts.       *)
Verdict(t) ==
  IF \E r \in Known(t) : r.state = "failed" THEN "withdrawn"
  ELSE IF /\ Cardinality(Known(t)) = Cardinality(Indices(t))
          /\ \A r \in Known(t) : r.state = "done" THEN "observed"
  ELSE "scheduled"

(* The entries popped with a target: up to the first that is missing, at   *)
(* which the KeyError is caught.                                           *)
Popped(t) ==
  {i \in Indices(t) : \A j \in Indices(t) : j <= i => \E r \in Known(t) : r.index = j}

(* The holder of the lock is done: the loop goes on with its body.         *)
CheckEnds ==
  IF lock = "loop"
    THEN step' = "decides" /\ UNCHANGED <<lock, mode>>
    ELSE /\ step' = "off" /\ lock' = "free"
         /\ mode' = IF lock = "stop" /\ mode = "stopping" THEN "idle" ELSE mode

(* The entries of a sequence at some positions, in order.                  *)
Picked(s, ks) ==
  [n \in 1..Cardinality(ks) |-> s[CHOOSE k \in ks : Cardinality({j \in ks : j <= k}) = n]]

Checks ==
  /\ step = "checks"
  /\ LET judged == {t \in In("scheduled") : Verdict(t) # "scheduled"} IN
       /\ place' = [t \in Targets |-> IF t \in judged THEN Verdict(t) ELSE place[t]]
       /\ info' = Picked(info,
            {k \in DOMAIN info : ~\E t \in judged : info[k].index \in Popped(t)})
  /\ step' = "registers"
  /\ UNCHANGED <<queueSide, sent, blocks, futures, queueing, lock, asked, commands>>

(* The loop leaves the lock with an exception, and then calls fault, which *)
(* cleans up, unless the CSC is in FAULT, or going there, already.         *)
LoopFaults ==
  /\ step' = "off" /\ lock' = "free" /\ mode' = "ended"
  /\ cleanup' = IF cleanup = "off" /\ mode # "ended" THEN "cleans" ELSE cleanup

(* What the holder of the lock has taken out of the list of scheduled      *)
(* targets is dropped.  The task gives up; stop fails, with                *)
(* run_target_loop cleared and the detailed state RUNNING.                 *)
Raises(places) ==
  /\ place' = [t \in Targets |->
       IF places[t] \in {"observed", "withdrawn"} THEN "lost" ELSE places[t]]
  /\ IF lock = "loop"
       THEN LoopFaults
       ELSE /\ step' = "off" /\ lock' = "free"
            /\ mode' = IF lock = "stop" THEN "ended" ELSE mode
            /\ UNCHANGED cleanup

(* register_observation, one target after the other; a KeyError if its     *)
(* block was forgotten.                                                    *)
Registers(t) ==
  /\ step = "registers"
  /\ place[t] = "observed"
  /\ LET registered == [place EXCEPT ![t] = "registered"] IN
       IF t \in blocks
         THEN place' = registered /\ UNCHANGED <<lock, step, cleanup, mode>>
         ELSE Raises(registered)
  /\ futures' = Without(futures, Indices(t))
  /\ UNCHANGED <<queueSide, info, sent, blocks, queueing, asked, stop>>

Registered ==
  /\ step = "registers"
  /\ In("observed") = {}
  /\ IF In("withdrawn") = {} THEN CheckEnds ELSE step' = "removesFailed" /\ UNCHANGED <<lock, mode>>
  /\ UNCHANGED <<queueSide, model, place, queueing, asked, cleanup, stop>>

(* remove_from_queue: the request to the ScriptQueue, then the futures.    *)
Removes ==
  /\ step \in {"removesFailed", "removesRest"}
  /\ Stops(In("withdrawn"))
  /\ step' = IF step = "removesFailed" THEN "marksFailed" ELSE "marksRest"
  /\ UNCHANGED <<model, place, queueing, lock, asked, commands>>

Marks ==
  /\ step \in {"marksFailed", "marksRest"}
  /\ futures' = Marked(Reached(In("withdrawn")))
  /\ IF In("withdrawn") \subseteq blocks
       THEN /\ place' = Moved({"withdrawn"}, "gone")
            /\ IF step = "marksFailed" THEN step' = "cleans" /\ UNCHANGED <<lock, mode>>
                                       ELSE CheckEnds
            /\ UNCHANGED cleanup
       ELSE Raises(place)
  /\ UNCHANGED <<queueSide, info, sent, blocks, queueing, asked, stop>>

(* It raises, or times out, before the request is sent (the queue event)   *)
(* or before it is answered.                                               *)
RemovalFails ==
  /\ "removalFails" \in Mishaps
  /\ step \in {"removesFailed", "marksFailed", "removesRest", "marksRest"}
  /\ Raises(place)
  /\ UNCHANGED <<queueSide, model, queueing, asked, stop>>

(* Mutant: the list is emptied in place, and nothing left of it to remove. *)
WithdrawsInPlace(list) ==
  /\ futures' = Emptied(In("scheduled"))
  /\ place' = Moved({"scheduled"}, "gone")

(* _cleanup_queue_targets forgets the scheduled targets first: those up to *)
(* a block that was forgotten, in case of a KeyError, though it then       *)
(* leaves them all in the list.                                            *)
Withdraws(list) ==
  /\ futures' = Emptied(Reached(In("scheduled")))
  /\ In("scheduled") \subseteq blocks
  /\ place' = Moved({"scheduled"}, list)

WithdrawsNone ==
  /\ futures' = Emptied(Reached(In("scheduled")))
  /\ ~(In("scheduled") \subseteq blocks)

Cleans ==
  /\ step = "cleans"
  /\ \/ Withdraws("withdrawn") /\ step' = "removesRest" /\ UNCHANGED <<lock, cleanup, mode>>
     \/ WithdrawsNone /\ Raises(place)
  /\ UNCHANGED <<queueSide, info, sent, blocks, queueing, asked, stop>>

(* lock_target_loop_and_check_targets.                                     *)
TaskLocks ==
  /\ asked /\ lock = "free"
  /\ lock' = "task" /\ step' = "checks" /\ asked' = FALSE
  /\ UNCHANGED <<queueSide, model, place, queueing, commands>>

(***************************************************************************)
(* _cleanup_queue_targets without target_loop_lock, by fault, of the loop  *)
(* or the telemetry loop, and by a stop that has killed the loop.  Bound:  *)
(* one at a time.                                                          *)
(***************************************************************************)
(* fault goes on to FAULT either way.  A stop that fails leaves the CSC    *)
(* RUNNING with run_target_loop cleared; otherwise the loop is started     *)
(* again.                                                                  *)
CleanupEnds(done) ==
  /\ cleanup' = "off"
  /\ stop' = IF stop = "kills" THEN "off" ELSE stop
  /\ mode' = IF done /\ stop = "kills" /\ mode = "stopping" THEN "idle" ELSE "ended"

Discards ==
  /\ cleanup = "cleans"
  /\ \/ Withdraws("discarded") /\ cleanup' = "removes" /\ UNCHANGED <<stop, mode>>
     \/ WithdrawsNone /\ CleanupEnds(FALSE) /\ UNCHANGED place
  /\ UNCHANGED <<queueSide, info, sent, blocks, queueing, lock, step, asked>>

DiscardsStopped ==
  /\ cleanup = "removes"
  /\ Stops(In("discarded"))
  /\ cleanup' = "marks"
  /\ UNCHANGED <<model, place, queueing, lock, step, asked, stop, mode>>

DiscardsMarked ==
  /\ cleanup = "marks"
  /\ futures' = Marked(Reached(In("discarded")))
  /\ \E done \in {In("discarded") \subseteq blocks} :
       CleanupEnds(done) /\ place' = Moved({"discarded"}, IF done THEN "gone" ELSE "lost")
  /\ UNCHANGED <<queueSide, info, sent, blocks, queueing, lock, step, asked>>

DiscardsFail ==
  /\ "removalFails" \in Mishaps
  /\ cleanup \in {"removes", "marks"}
  /\ CleanupEnds(FALSE)
  /\ place' = Moved({"discarded"}, "lost")
  /\ UNCHANGED <<queueSide, model, queueing, lock, step, asked>>

(* The telemetry loop cannot update the observatory state.                 *)
TelemetryFaults ==
  /\ "telemetryFails" \in Mishaps
  /\ mode = "resumed" /\ cleanup = "off"
  /\ cleanup' = "cleans"
  /\ UNCHANGED <<queueSide, model, place, queueing, lock, step, asked, stop, mode>>

(***************************************************************************)
(* queue_targets and put_on_queue, for one target at a time                *)
(* (_detailed_state_lock).  Its block was registered last, and so is never *)
(* forgotten meanwhile (OldestForgotten).                                  *)
(***************************************************************************)
ByLoop == step = "queues"

(* Back to the loop, or the end of the task of a block.                    *)
QueueingEnds(where) ==
  /\ queueing' = "off"
  /\ place' = Moved({"inHand"}, where)
  /\ IF ByLoop THEN step' = "off" /\ lock' = "free" ELSE UNCHANGED <<lock, step>>

QueueTakes(t) ==
  /\ queueing = "off" /\ place[t] = "queued"
  /\ \/ /\ step = "decides" /\ Cardinality(In("scheduled")) < NTargets + 1
        /\ step' = "queues"
     \/ mode = "idle" /\ UNCHANGED step
  /\ place' = [place EXCEPT ![t] = "inHand"]
  /\ sent' = Append(sent, t)
  /\ blocks' = blocks \cup {t}
  /\ queueing' = "next"
  /\ UNCHANGED <<queueSide, info, futures, lock, asked, commands>>

(* Mutant: the scripts that wait to end do not count.                      *)
QueueAsksAnyway(t) ==
  /\ queueing = "next" /\ place[t] = "inHand"
  /\ Cardinality(Indices(t)) < Size[t]
  /\ queueing' = IF \E i \in DOMAIN futures \cap Indices(t) : futures[i] = "failed"
                   THEN "failed" ELSE "asked"
  /\ UNCHANGED <<queueSide, model, place, lock, step, asked, commands>>

(* A place in the queue, then check_block_scripts.                         *)
QueueAsks(t) ==
  /\ queueing = "next" /\ place[t] = "inHand"
  /\ Cardinality(Indices(t)) < Size[t]
  /\ Cardinality(Pending) < Capacity
  /\ queueing' = IF \E i \in DOMAIN futures \cap Indices(t) : futures[i] = "failed"
                   THEN "failed" ELSE "asked"
  /\ UNCHANGED <<queueSide, model, place, lock, step, asked, commands>>

(* cmd_add: the ScriptQueue has the script before its answer is back.      *)
Added(owner) ==
  /\ onQueue' = Append(onQueue, [of |-> owner, state |-> "live"])
  /\ events' = Append(events, [index |-> Len(onQueue'), state |-> "live"])

QueueAccepted(t) ==
  /\ queueing = "asked" /\ place[t] = "inHand"
  /\ Added(t)
  /\ queueing' = "accepted"
  /\ UNCHANGED <<model, place, lock, step, asked, commands>>

(* add_scheduled_script and add_sal_index.                                 *)
QueueAcknowledged(t) ==
  /\ queueing = "accepted" /\ place[t] = "inHand"
  /\ LET last == Max(Indices(t)) IN
       /\ futures' = [i \in DOMAIN futures \cup {last} |->
                        IF i = last THEN "pending" ELSE futures[i]]
       /\ queueing' = IF Indices(t) = {last} \/ last - 1 \in Indices(t)
                        THEN "next" ELSE "nonconsecutive"
  /\ UNCHANGED <<queueSide, info, sent, blocks, place, lock, step, asked, commands>>

QueueScheduled(t) ==
  /\ queueing = "next" /\ place[t] = "inHand"
  /\ Cardinality(Indices(t)) = Size[t]
  /\ QueueingEnds("scheduled")
  /\ UNCHANGED <<queueSide, model, asked, commands>>

(* A script failed, or the indices are not consecutive: the target is      *)
(* removed.  In the second case it is scheduled all the same.              *)
QueueRemoves(t) ==
  /\ queueing \in {"failed", "nonconsecutive"} /\ place[t] = "inHand"
  /\ Stops({t})
  /\ queueing' = IF queueing = "failed" THEN "failedStopped" ELSE "nonconsecutiveStopped"
  /\ UNCHANGED <<model, place, lock, step, asked, commands>>

QueueMarks(t) ==
  /\ place[t] = "inHand"
  /\ \/ /\ queueing = "failedStopped"
        /\ futures' = Emptied({t})
        /\ QueueingEnds("gone")
     \/ /\ queueing = "nonconsecutiveStopped"
        /\ futures' = Marked({t})
        /\ QueueingEnds("scheduled")
  /\ UNCHANGED <<queueSide, info, sent, blocks, asked, commands>>

(* cmd_add is refused, or the removal raises or times out before it is     *)
(* requested or answered: the loop goes to FAULT, the task of a block      *)
(* ends.  The scripts that are on the ScriptQueue stay.                    *)
QueueFails ==
  /\ \/ queueing = "asked" /\ "addFails" \in Mishaps
     \/ /\ queueing \in {"failed", "nonconsecutive", "failedStopped", "nonconsecutiveStopped"}
        /\ "removalFails" \in Mishaps
  /\ queueing' = "off"
  /\ place' = Moved({"inHand"}, "lost")
  /\ IF ByLoop THEN LoopFaults ELSE UNCHANGED <<lock, step, cleanup, mode>>
  /\ UNCHANGED <<queueSide, model, asked, stop>>

(***************************************************************************)
(* The loop and the commands.                                              *)
(***************************************************************************)
LoopLocks ==
  /\ mode = "resumed" /\ lock = "free"
  /\ lock' = "loop" /\ step' = "checks"
  /\ UNCHANGED <<queueSide, model, place, queueing, asked, commands>>

LoopSleeps ==
  /\ step = "decides"
  /\ lock' = "free" /\ step' = "off"
  /\ UNCHANGED <<queueSide, model, place, queueing, asked, commands>>

(* A loop that has to be started again forgets what is scheduled.          *)
Resumes ==
  /\ mode = "idle" /\ lock = "free" /\ queueing = "off"
  /\ mode' = "resumed"
  /\ place' \in {place, Moved({"scheduled"}, "lost")}
  /\ UNCHANGED <<queueSide, model, queueing, lock, step, asked, cleanup, stop>>

StopClears ==
  /\ mode = "resumed"
  /\ mode' = "stopping" /\ stop' = "waits"
  /\ UNCHANGED <<queueSide, model, place, queueing, lock, step, asked, cleanup>>

StopLocks ==
  /\ stop = "waits" /\ lock = "free"
  /\ lock' = "stop" /\ step' = "cleans" /\ stop' = "off"
  /\ UNCHANGED <<queueSide, model, place, queueing, asked, cleanup, mode>>

(* Stop does not get the lock, or does not get done with it, within        *)
(* loop_die_timeout: it is cancelled, the loop is killed wherever it is,   *)
(* and stop cleans up without the lock.                                    *)
StopTimesOut ==
  /\ "stopOutlasts" \in Mishaps
  /\ stop = "waits" \/ lock = "stop"
  /\ mode = "stopping" /\ cleanup = "off"
  /\ stop' = "kills" /\ cleanup' = "cleans"
  /\ IF lock = "task"
       THEN UNCHANGED <<place, queueing, lock, step>>
       ELSE /\ place' = Moved({"inHand", "observed", "withdrawn"}, "lost")
            /\ queueing' = "off" /\ lock' = "free" /\ step' = "off"
  /\ UNCHANGED <<queueSide, model, asked, mode>>

(***************************************************************************)
(* The ScriptQueue.                                                        *)
(***************************************************************************)
(* A script fails at any time, and is done only if it runs.  None ends     *)
(* before the CSC has the answer to the command that added it.             *)
ScriptEnds(i) ==
  /\ i \in Live
  /\ queueing = "accepted" /\ onQueue[i].of \in In("inHand") => i \in DOMAIN futures
  /\ \E final \in IF IsRunning(i) THEN Finals ELSE {"failed"} :
       /\ onQueue' = [onQueue EXCEPT ![i].state = final]
       /\ events' = Append(events, [index |-> i, state |-> final])
  /\ UNCHANGED <<model, csc>>

OtherAdds ==
  /\ Cardinality({i \in DOMAIN onQueue : onQueue[i].of = Nobody}) < Others
  /\ Added(Nobody)
  /\ UNCHANGED <<model, csc>>

Check == \/ Checks \/ Registered \/ Removes \/ Marks \/ Cleans
         \/ \E t \in Targets : Registers(t)

Cleanup == Discards \/ DiscardsStopped \/ DiscardsMarked

Queue == \E t \in Targets :
  \/ QueueAsks(t) \/ QueueAccepted(t) \/ QueueAcknowledged(t)
  \/ QueueScheduled(t) \/ QueueRemoves(t) \/ QueueMarks(t)

Failures == RemovalFails \/ DiscardsFail \/ QueueFails \/ TelemetryFaults

Next == \/ Deliver \/ Check \/ TaskLocks \/ Cleanup \/ Queue \/ Failures
        \/ LoopLocks \/ LoopSleeps \/ Resumes \/ StopClears \/ StopLocks
        \/ StopTimesOut \/ OtherAdds
        \/ \E t \in Targets : QueueTakes(t)
        \/ \E i \in DOMAIN onQueue : ScriptEnds(i)

(* Events arrive, coroutines go on, the running script ends.               *)
Fairness == /\ WF_vars(Deliver) /\ WF_vars(Check) /\ WF_vars(Cleanup) /\ WF_vars(Queue)
            /\ WF_vars(LoopLocks \/ LoopSleeps)
            /\ WF_vars(TaskLocks) /\ WF_vars(StopLocks)
            /\ WF_vars(\E i \in Live : IsRunning(i) /\ ScriptEnds(i))

Spec == Init /\ [][Next]_vars /\ Fairness

(***************************************************************************)
(* Properties.                                                             *)
(***************************************************************************)
(* What the variables hold; in particular script_info never outgrows       *)
(* max_scripts (callback_script_info).                                     *)
TypeOK ==
  /\ onQueue \in Seq([of : Targets \cup {Nobody}, state : {"live"} \cup Finals])
  /\ events \in Seq([index : DOMAIN onQueue, state : {"live"} \cup Finals])
  /\ info \in Seq([index : DOMAIN onQueue, state : {"live"} \cup Finals])
  /\ Len(info) <= MaxScripts
  /\ sent \in Seq(Targets) /\ blocks \subseteq Range(sent)
  /\ DOMAIN futures \subseteq DOMAIN onQueue
  /\ Range(futures) \subseteq {"pending"} \cup Finals
  /\ place \in [Targets -> Places]
  /\ queueing \in {"off", "next", "asked", "accepted", "failed", "nonconsecutive",
                   "failedStopped", "nonconsecutiveStopped"}
  /\ lock \in {"free", "loop", "task", "stop"}
  /\ step \in {"off", "checks", "registers", "removesFailed", "marksFailed",
               "cleans", "removesRest", "marksRest", "decides", "queues"}
  /\ asked \in BOOLEAN
  /\ cleanup \in {"off", "cleans", "removes", "marks"}
  /\ stop \in {"off", "waits", "kills"}
  /\ mode \in {"resumed", "stopping", "idle", "ended"}

(* An observation is registered only if each script the target has on the  *)
(* ScriptQueue is done: no entry of script_info that was dropped or is     *)
(* late is taken for it.                                                   *)
RegisteredWereDone ==
  \A t \in In("observed") \cup In("registered") :
    Indices(t) # {} /\ \A i \in Indices(t) : onQueue[i].state = "done"

(* "Marking block as failed": a block whose scripts are not consecutive,   *)
(* and whose other scripts are never added, is not registered as observed. *)
RegisteredAreWhole ==
  \A t \in In("registered") : Cardinality(Indices(t)) = Size[t]

(* A block is forgotten only once two younger ones were sent: with         *)
(* n_targets = 1 the loop follows no more than two, so none is missed      *)
(* unless a younger target failed meanwhile (the KeyError of               *)
(* mark_block_done and remove_block_done_scripts).                         *)
OldestForgotten ==
  \A k \in DOMAIN sent :
    sent[k] \notin blocks => k + 1 < Len(sent)

(* A target whose removal was answered has left the ScriptQueue, but for   *)
(* the script that is running, whatever was accepted, sent, failed or      *)
(* cleaned up meanwhile, and whoever else was removing at the time.        *)
GoneLeaveQueue ==
  \A t \in In("gone") : \A i \in Indices(t) \cap Live : IsRunning(i)

(* No more than _max_queue_capacity scripts of the targets in hand or      *)
(* scheduled wait to end, besides the running one a removal has spared.    *)
(* Out of the count is a scheduled target whose futures were emptied by a  *)
(* cleanup that a KeyError cut short, as are those a removal that failed   *)
(* has left on the ScriptQueue: they are in no list any more.              *)
Counted == In("inHand") \cup {t \in In("scheduled") : Indices(t) \cap DOMAIN futures # {}}
Waiting == {i \in Live : onQueue[i].of \in Counted /\ (IsRunning(i) => i \in Pending)}
WithinCapacity == Cardinality(Waiting) <= Capacity

(* In the resumed loop, a scheduled target whose scripts have all ended is *)
(* judged at last, unless script_info has lost one of them.                *)
Ended(t) == Indices(t) \cap Live = {}
EndIsSeen ==
  \A t \in Targets :
    place[t] = "scheduled" /\ Ended(t)
      ~> \/ place[t] # "scheduled" \/ mode # "resumed"
         \/ Cardinality(Known(t)) < Cardinality(Indices(t))
===============================================================================
