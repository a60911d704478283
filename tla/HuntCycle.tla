----------------------------- MODULE HuntCycle -----------------------------
(***************************************************************************)
(* The hunting loop of one *arr application (Sonarr, Radarr, ...):         *)
(* background.py's app_specific_loop with the workers it runs, one per due *)
(* instance, the cycle tracker's rows they write, the manual reset         *)
(* requests the web server files, the status poller of the dashboard, the  *)
(* supervisor that restarts a dead loop, and crashes of the process.       *)
(*                                                                         *)
(* Clock time is abstracted to what the loop tests: a next_cycle_time is   *)
(* "none" (no row, or a NULL), "due" (now >= next) or "future".  One step  *)
(* is one database transaction, or one decision taken between two of them. *)
(***************************************************************************)
EXTENDS Naturals

CONSTANTS
    Instances,   \* the instances an administrator may configure
    Position,    \* the order of the instances in the settings
    Editable,    \* those whose settings change during a behaviour
    NoInstance,  \* "no reset is being applied"
    Faults,      \* the faults that may happen, a subset of FaultKinds
    MaxResets,   \* bound on the reset requests of a behaviour
    MaxFaults    \* bound on the faults of a behaviour

\* "crash": the process dies and is started again; "raise": a worker raises
\* outside its try blocks; "thread": the loop's thread dies of an exception;
\* the others: the named write to the database fails and is only logged.
FaultKinds == {"crash", "raise", "thread", "startLost", "endLost", "applyLost"}

ASSUME PositionAssumption ==
    /\ Position \in [Instances -> Nat]
    /\ \A i, j \in Instances : Position[i] = Position[j] => i = j
ASSUME NoInstanceAssumption == NoInstance \notin Instances
ASSUME EditableAssumption == Editable \subseteq Instances
ASSUME FaultsAssumption == Faults \subseteq FaultKinds
ASSUME BoundsAssumption == MaxResets \in Nat /\ MaxFaults \in Nat

VARIABLES
    \* persistent: settings and database
    configured,  \* instances with "enabled", a URL and a key
    next,        \* sleep_data_per_instance.next_cycle_time
    cycleLock,   \* sleep_data_per_instance.cycle_lock
    pending,     \* unprocessed rows of reset_requests_per_instance
    appPending,  \* an unprocessed row of reset_requests (no instance named)
    \* the process: the loop, its workers and the poller
    stopEvent,   \* background.stop_event
    loop,        \* where app_specific_loop is
    all,         \* all_instances
    round,       \* instances_to_process
    toScan,      \* instances _responsive_sleep has not looked at in this pass
    applying,    \* reset marked processed, next_cycle_time not yet written
    worker,      \* where _process_one_instance is
    snapshot,    \* next_cycle_time as start_cycle read it
    resetSeen,   \* instances whose worker returned had_reset
    poll,        \* where get_cycle_status is; it holds _lock unless "idle"
    pollDefault, \* instances get_cycle_status will give a default
    \* history, read by no action
    resets,      \* reset requests filed so far
    faults,      \* faults that happened so far
    wanted,      \* asked to restart, and no cycle has started since
    abandoned,   \* cycles that a fault cut before end_cycle wrote
    dropped      \* resets marked processed whose effect a fault cut

settingsVars == <<configured>>
dbVars   == <<next, cycleLock, pending, appPending>>
loopVars == <<stopEvent, loop, all, round, toScan, applying, resetSeen>>
workVars == <<worker, snapshot>>
pollVars == <<poll, pollDefault>>
histVars == <<resets, faults, wanted, abandoned, dropped>>
vars == <<settingsVars, dbVars, loopVars, workVars, pollVars, histVars>>

NextTimes   == {"none", "due", "future"}
LoopStates  == {"dead", "top", "plan", "round", "scan", "apply", "wait"}
\* "skip" and "abort" end with the deadline computed when the worker began,
\* "leave" with one computed at the end.
WorkerStates == {"idle", "begin", "starting", "started", "ready", "missing",
                 "upgrades", "skip", "abort", "leave", "done"}
Ending  == {"skip", "abort", "leave"}
Hunting == {"started", "ready", "missing", "upgrades"} \union Ending

-----------------------------------------------------------------------------
\* One fault of a kind this instance of the model allows.
Fault(kind) ==
    /\ kind \in Faults
    /\ faults < MaxFaults
    /\ faults' = faults + 1

(* Variants for the mutation runs; no action uses them. *)
IsDueUnlocked(i)    == next[i] # "future" /\ ~cycleLock[i]
NextAfterResetKept(i) == next[i]
MarkNothing(i)      == pending
DeadlinesUnset(w)   == {"unset"}
NoDefaultUnlocked(i) == ~cycleLock[i]
StopIgnored         == FALSE
AfterStartDone(i)   == IF pending[i] THEN "done" ELSE "ready"

\* _get_instances_due_and_sleep: no next cycle, or one that has come.
IsDue(i) == next[i] # "future"

\* mark_reset_request_processed: every unprocessed row of the instance.
Mark(i) == [pending EXCEPT ![i] = FALSE]

\* What _responsive_sleep writes; None would keep the future time.
NextAfterReset(i) == "due"

\* The instance whose reset is marked and not yet written, if any.
BeingApplied == {applying} \ {NoInstance}

\* A deadline computed when the worker began may have passed when it ends.
Deadlines(w) == IF w = "leave" THEN {"future"} ELSE {"due", "future"}

\* A row without countdown, which get_cycle_status may fill.
NoDefault(i) == next[i] = "none" /\ ~cycleLock[i]

\* The condition of the loop's while.
StopSeen == stopEvent

\* A reset filed before the cycle began ends it at once.
AfterStart(i) == IF pending[i] THEN "abort" ELSE "ready"

\* The first instance of a pass of _responsive_sleep over s.
IsFirst(i, s) == i \in s /\ \A j \in s : Position[i] <= Position[j]

Init ==
    /\ configured \in SUBSET Instances
    /\ next = [i \in Instances |-> "none"]
    /\ cycleLock = [i \in Instances |-> FALSE]
    /\ pending = [i \in Instances |-> FALSE]
    /\ appPending = FALSE
    /\ stopEvent = FALSE
    /\ loop = "dead"
    /\ all = {} /\ round = {} /\ toScan = {}
    /\ applying = NoInstance
    /\ worker = [i \in Instances |-> "idle"]
    /\ snapshot = [i \in Instances |-> "none"]
    /\ resetSeen = {}
    /\ poll = "idle" /\ pollDefault = {}
    /\ resets = 0 /\ faults = 0
    /\ wanted = {} /\ abandoned = {} /\ dropped = {}

-----------------------------------------------------------------------------
(* start_sniparr and start_app_threads: a thread that is missing or dead is
   started again for an application with an instance configured. *)
StartThread ==
    /\ loop = "dead"
    /\ ~stopEvent
    /\ configured # {}
    /\ loop' = "top"
    /\ UNCHANGED <<settingsVars, dbVars, stopEvent, all, round, toScan,
                   applying, resetSeen, workVars, pollVars, histVars>>

\* The head of the loop: stop, or read the settings of the instances.  While
\* enable_third_party_apps is off, or the settings cannot be loaded, it waits a
\* minute and is here again: a stuttering step, which fairness takes to end.
LoopTop ==
    /\ loop = "top"
    /\ IF StopSeen
         THEN loop' = "dead" /\ UNCHANGED <<all, toScan>>
         ELSE /\ all' = configured
              \* without instances the loop sleeps and looks at no reset
              /\ loop' = IF configured = {} THEN "scan" ELSE "plan"
              /\ toScan' = {}
    /\ UNCHANGED <<settingsVars, dbVars, stopEvent, round, applying, resetSeen,
                   workVars, pollVars, histVars>>

\* Choose the due instances and submit one worker for each, or sleep.
PlanRound ==
    /\ loop = "plan"
    /\ LET due == {i \in all : IsDue(i)} IN
         IF due = {}
           THEN /\ loop' = "scan" /\ toScan' = all
                /\ UNCHANGED <<round, worker>>
           ELSE /\ loop' = "round" /\ round' = due
                /\ worker' = [i \in Instances |->
                                 IF i \in due THEN "begin" ELSE "idle"]
                /\ UNCHANGED toScan
    /\ resetSeen' = {}
    /\ UNCHANGED <<settingsVars, dbVars, stopEvent, all, applying, snapshot,
                   pollVars, histVars>>

\* The executor's with block is left only when every worker has returned;
\* then the loop sleeps, for five seconds if some worker saw a reset.
RoundDone ==
    /\ loop = "round"
    /\ \A i \in round : worker[i] = "done"
    /\ loop' = "scan"
    /\ toScan' = all
    /\ worker' = [i \in Instances |-> "idle"]
    /\ round' = {}
    /\ snapshot' = [i \in Instances |-> "none"]
    /\ UNCHANGED <<settingsVars, dbVars, stopEvent, all, applying, resetSeen,
                   pollVars, histVars>>

-----------------------------------------------------------------------------
(* _responsive_sleep *)

\* stop_event is tested at the head of every pass.
SleepStop ==
    /\ loop = "scan"
    /\ stopEvent
    /\ toScan = all
    /\ loop' = "top"
    /\ UNCHANGED <<settingsVars, dbVars, stopEvent, all, round, toScan,
                   applying, resetSeen, workVars, pollVars, histVars>>

\* The instances in order; the first pending reset ends the pass.
ScanReset ==
    /\ loop = "scan"
    /\ \E i \in toScan :
         /\ IsFirst(i, toScan)
         /\ IF pending[i]
              THEN /\ pending' = Mark(i)
                   /\ applying' = i
                   /\ loop' = "apply"
                   /\ toScan' = {}
              ELSE /\ toScan' = toScan \ {i}
                   /\ UNCHANGED <<pending, applying, loop>>
    /\ UNCHANGED <<settingsVars, next, cycleLock, appPending, stopEvent, all,
                   round, resetSeen, workVars, pollVars, histVars>>

ScanDone ==
    /\ loop = "scan"
    /\ toScan = {}
    /\ loop' = "wait"
    /\ UNCHANGED <<settingsVars, dbVars, stopEvent, all, round, toScan,
                   applying, resetSeen, workVars, pollVars, histVars>>

\* After the mark, in a transaction of its own: due now and not locked.
ApplyReset ==
    /\ loop = "apply"
    /\ next' = [next EXCEPT ![applying] = NextAfterReset(applying)]
    /\ cycleLock' = [cycleLock EXCEPT ![applying] = FALSE]
    /\ abandoned' = abandoned \ {applying}
    /\ applying' = NoInstance
    /\ loop' = "top"
    /\ UNCHANGED <<settingsVars, pending, appPending, stopEvent, all, round,
                   toScan, resetSeen, workVars, pollVars,
                   resets, faults, wanted, dropped>>

\* The same write fails: a warning is logged and the sleep ends.
ApplyResetFails ==
    /\ Fault("applyLost")
    /\ loop = "apply"
    /\ dropped' = dropped \union BeingApplied
    /\ applying' = NoInstance
    /\ loop' = "top"
    /\ UNCHANGED <<settingsVars, dbVars, stopEvent, all, round, toScan,
                   resetSeen, workVars, pollVars, resets, wanted, abandoned>>

\* A second later: another pass.
SleepAgain ==
    /\ loop = "wait"
    /\ loop' = "scan"
    /\ toScan' = all
    /\ UNCHANGED <<settingsVars, dbVars, stopEvent, all, round, applying,
                   resetSeen, workVars, pollVars, histVars>>

\* The time to sleep is over.
SleepElapsed ==
    /\ loop = "wait"
    /\ loop' = "top"
    /\ UNCHANGED <<settingsVars, dbVars, stopEvent, all, round, toScan,
                   applying, resetSeen, workVars, pollVars, histVars>>

-----------------------------------------------------------------------------
(* _process_one_instance, the worker of instance i *)

\* start_cycle reads the row ...
StartRead(i) ==
    /\ worker[i] = "begin"
    /\ snapshot' = [snapshot EXCEPT ![i] = next[i]]
    /\ worker' = [worker EXCEPT ![i] = "starting"]
    /\ UNCHANGED <<settingsVars, dbVars, loopVars, pollVars, histVars>>

\* ... and writes it back, without _lock.  A NULL keeps what the row holds.
StartWrite(i) ==
    /\ worker[i] = "starting"
    /\ cycleLock' = [cycleLock EXCEPT ![i] = TRUE]
    /\ next' = [next EXCEPT ![i] = IF snapshot[i] = "none" THEN @ ELSE snapshot[i]]
    /\ worker' = [worker EXCEPT ![i] = "started"]
    /\ wanted' = IF pending[i] THEN wanted ELSE wanted \ {i}
    /\ UNCHANGED <<settingsVars, pending, appPending, loopVars, snapshot,
                   pollVars, resets, faults, abandoned, dropped>>

\* start_cycle swallows a database error; the worker goes on.
StartWriteFails(i) ==
    /\ Fault("startLost")
    /\ worker[i] = "starting"
    /\ worker' = [worker EXCEPT ![i] = "started"]
    /\ wanted' = IF pending[i] THEN wanted ELSE wanted \ {i}
    /\ abandoned' = abandoned \union {i}
    /\ UNCHANGED <<settingsVars, dbVars, loopVars, snapshot, pollVars,
                   resets, dropped>>

CheckReset(i) ==
    /\ worker[i] = "started"
    /\ worker' = [worker EXCEPT ![i] = AfterStart(i)]
    /\ UNCHANGED <<settingsVars, dbVars, loopVars, snapshot, pollVars, histVars>>

\* URL, connection, hourly cap and queue checks skip the cycle; otherwise the
\* enabled hunts run.
Preflight(i) ==
    /\ worker[i] = "ready"
    /\ \E to \in {"skip", "missing", "upgrades", "leave"} :
         worker' = [worker EXCEPT ![i] = to]
    /\ UNCHANGED <<settingsVars, dbVars, loopVars, snapshot, pollVars, histVars>>

\* The missing hunt returns; its finally clause looks for a reset.
MissingDone(i) ==
    /\ worker[i] = "missing"
    /\ \E to \in {"upgrades", "leave"} :
         worker' = [worker EXCEPT ![i] = IF pending[i] THEN "abort" ELSE to]
    /\ UNCHANGED <<settingsVars, dbVars, loopVars, snapshot, pollVars, histVars>>

UpgradesDone(i) ==
    /\ worker[i] = "upgrades"
    /\ worker' = [worker EXCEPT ![i] = IF pending[i] THEN "abort" ELSE "leave"]
    /\ UNCHANGED <<settingsVars, dbVars, loopVars, snapshot, pollVars, histVars>>

\* end_cycle, under _lock.
EndCycle(i) ==
    /\ worker[i] \in Ending
    /\ poll = "idle"
    /\ \E t \in Deadlines(worker[i]) : next' = [next EXCEPT ![i] = t]
    /\ cycleLock' = [cycleLock EXCEPT ![i] = FALSE]
    /\ worker' = [worker EXCEPT ![i] = "done"]
    /\ resetSeen' = IF worker[i] = "abort" THEN resetSeen \union {i} ELSE resetSeen
    /\ abandoned' = abandoned \ {i}
    /\ UNCHANGED <<settingsVars, pending, appPending, stopEvent, loop, all,
                   round, toScan, applying, snapshot, pollVars,
                   resets, faults, wanted, dropped>>

\* end_cycle swallows a database error.
EndCycleFails(i) ==
    /\ Fault("endLost")
    /\ worker[i] \in Ending
    /\ poll = "idle"
    /\ worker' = [worker EXCEPT ![i] = "done"]
    /\ resetSeen' = IF worker[i] = "abort" THEN resetSeen \union {i} ELSE resetSeen
    /\ abandoned' = abandoned \union {i}
    /\ UNCHANGED <<settingsVars, dbVars, stopEvent, loop, all, round, toScan,
                   applying, snapshot, pollVars, resets, wanted, dropped>>

\* An exception outside the try blocks: the future fails and is only logged.
WorkerRaises(i) ==
    /\ Fault("raise")
    /\ worker[i] = "ready"
    /\ worker' = [worker EXCEPT ![i] = "done"]
    /\ abandoned' = abandoned \union {i}
    /\ UNCHANGED <<settingsVars, dbVars, loopVars, snapshot, pollVars,
                   resets, wanted, dropped>>

-----------------------------------------------------------------------------
(* get_cycle_status, called by the dashboard every few seconds, under _lock *)

\* One query for all rows of the tracker.
PollRead ==
    /\ poll = "idle"
    /\ poll' = "read"
    /\ pollDefault' = {i \in Instances : NoDefault(i)}
    /\ UNCHANGED <<settingsVars, dbVars, loopVars, workVars, histVars>>

\* Then the settings and the pending resets.
PollPending ==
    /\ poll = "read"
    /\ poll' = "persist"
    /\ pollDefault' = {i \in pollDefault : i \in configured /\ ~pending[i]}
    /\ UNCHANGED <<settingsVars, dbVars, loopVars, workVars, histVars>>

\* Then a default countdown for each instance that had none.
PollPersist ==
    /\ poll = "persist"
    /\ \E i \in pollDefault :
         /\ pollDefault' = pollDefault \ {i}
         /\ next' = [next EXCEPT ![i] = "future"]
         /\ cycleLock' = [cycleLock EXCEPT ![i] = FALSE]
    /\ UNCHANGED <<settingsVars, pending, appPending, loopVars, workVars, poll,
                   histVars>>

PollDone ==
    /\ poll = "persist"
    /\ pollDefault = {}
    /\ poll' = "idle"
    /\ UNCHANGED <<settingsVars, dbVars, loopVars, workVars, pollDefault, histVars>>

-----------------------------------------------------------------------------
(* The environment: users, time, signals and faults *)

\* POST /api/cycle/reset/<app>?instance_name=...
RequestReset(i) ==
    /\ resets < MaxResets
    /\ i \in configured
    /\ resets' = resets + 1
    /\ pending' = [pending EXCEPT ![i] = TRUE]
    /\ wanted' = wanted \union {i}
    /\ UNCHANGED <<settingsVars, next, cycleLock, appPending, loopVars, workVars,
                   pollVars, faults, abandoned, dropped>>

\* The same request without instance_name.
RequestAppReset ==
    /\ resets < MaxResets
    /\ configured # {}
    /\ resets' = resets + 1
    /\ appPending' = TRUE
    /\ UNCHANGED <<settingsVars, next, cycleLock, pending, loopVars, workVars,
                   pollVars, faults, wanted, abandoned, dropped>>

\* An instance is added, removed, enabled or disabled in the settings.
Configure(i) ==
    /\ i \in Editable
    /\ configured' = IF i \in configured THEN configured \ {i}
                                         ELSE configured \union {i}
    /\ UNCHANGED <<dbVars, loopVars, workVars, pollVars, histVars>>

TimePasses(i) ==
    /\ next[i] = "future"
    /\ next' = [next EXCEPT ![i] = "due"]
    /\ UNCHANGED <<settingsVars, cycleLock, pending, appPending, loopVars,
                   workVars, pollVars, histVars>>

\* SIGTERM: shutdown_handler.
Stop ==
    /\ ~stopEvent
    /\ stopEvent' = TRUE
    /\ UNCHANGED <<settingsVars, dbVars, loop, all, round, toScan, applying,
                   resetSeen, workVars, pollVars, histVars>>

\* An exception in the loop's own database reads, before a round or after one
\* without resets, ends its thread; the executor has waited for the workers.
ThreadDies ==
    /\ Fault("thread")
    /\ \/ loop = "plan"
       \/ /\ loop = "round" /\ \A i \in round : worker[i] = "done"
          /\ resetSeen = {} \/ stopEvent
    /\ loop' = "dead"
    /\ round' = {} /\ resetSeen' = {}
    /\ worker' = [i \in Instances |-> "idle"]
    /\ snapshot' = [i \in Instances |-> "none"]
    /\ UNCHANGED <<settingsVars, dbVars, stopEvent, all, toScan, applying,
                   pollVars, resets, wanted, abandoned, dropped>>

\* The process dies, after a stop or not, and a new one starts.
Crash ==
    /\ Fault("crash")
    /\ loop' = "dead" /\ stopEvent' = FALSE
    /\ all' = {} /\ round' = {} /\ toScan' = {} /\ resetSeen' = {}
    /\ applying' = NoInstance
    /\ worker' = [i \in Instances |-> "idle"]
    /\ snapshot' = [i \in Instances |-> "none"]
    /\ poll' = "idle" /\ pollDefault' = {}
    /\ abandoned' = abandoned \union {i \in Instances : worker[i] \in Hunting}
    /\ dropped' = dropped \union BeingApplied
    /\ UNCHANGED <<settingsVars, dbVars, resets, wanted>>

-----------------------------------------------------------------------------
Loop == \/ StartThread \/ LoopTop \/ PlanRound \/ RoundDone
        \/ SleepStop \/ ScanReset \/ ScanDone
        \/ ApplyReset \/ ApplyResetFails \/ SleepAgain \/ SleepElapsed

Worker(i) == \/ StartRead(i) \/ StartWrite(i) \/ StartWriteFails(i)
             \/ CheckReset(i) \/ Preflight(i) \/ MissingDone(i)
             \/ UpgradesDone(i) \/ EndCycle(i) \/ EndCycleFails(i)
             \/ WorkerRaises(i)

Poller == PollRead \/ PollPending \/ PollPersist \/ PollDone

Environment == \/ \E i \in Instances : RequestReset(i) \/ Configure(i) \/ TimePasses(i)
               \/ RequestAppReset \/ Stop \/ ThreadDies \/ Crash

Next == Loop \/ (\E i \in Instances : Worker(i)) \/ Poller \/ Environment

Spec == Init /\ [][Next]_vars

(* Each thread runs whenever it can; a hunt ends (its waits are bounded by
   command_wait_attempts), a sleep elapses, time passes, and _lock is granted
   in the end to a worker that keeps asking for it.  No fault, no user and no
   poll need ever come. *)
LoopStep == \/ StartThread \/ LoopTop \/ PlanRound \/ RoundDone \/ SleepStop
            \/ ScanReset \/ ScanDone \/ ApplyReset \/ SleepAgain \/ SleepElapsed

WorkerStep(i) == \/ StartRead(i) \/ StartWrite(i) \/ CheckReset(i)
                 \/ Preflight(i) \/ MissingDone(i) \/ UpgradesDone(i)

Fairness ==
    /\ WF_vars(LoopStep) /\ SF_vars(SleepElapsed)
    /\ WF_vars(PollPending \/ PollPersist \/ PollDone)
    /\ \A i \in Instances : /\ WF_vars(WorkerStep(i)) /\ SF_vars(EndCycle(i))
                            /\ WF_vars(TimePasses(i))

FairSpec == Spec /\ Fairness

-----------------------------------------------------------------------------
TypeOK ==
    /\ configured \subseteq Instances
    /\ next \in [Instances -> NextTimes]
    /\ cycleLock \in [Instances -> BOOLEAN]
    /\ pending \in [Instances -> BOOLEAN]
    /\ appPending \in BOOLEAN
    /\ stopEvent \in BOOLEAN
    /\ loop \in LoopStates
    /\ all \subseteq Instances /\ round \subseteq Instances
    /\ toScan \subseteq Instances /\ resetSeen \subseteq Instances
    /\ applying \in Instances \union {NoInstance}
    /\ worker \in [Instances -> WorkerStates]
    /\ snapshot \in [Instances -> NextTimes]
    /\ poll \in {"idle", "read", "persist"}
    /\ pollDefault \subseteq Instances
    /\ resets \in 0..MaxResets /\ faults \in 0..MaxFaults
    /\ wanted \subseteq Instances /\ abandoned \subseteq Instances
    /\ dropped \subseteq Instances

(* A cycle_lock that is set has an owner: a worker that has started and not
   yet ended its cycle, or a cycle that a fault cut before end_cycle wrote.
   Every early return of _process_one_instance must therefore end the cycle. *)
CycleLockAccounted ==
    \A i \in Instances :
        cycleLock[i] => worker[i] \in Hunting \/ i \in abandoned

(* A manual reset is never forgotten: until a cycle of the instance starts
   after it, the request is unprocessed, or being applied, or the instance is
   due now.  The one way to lose it is a fault between
   mark_reset_request_processed and the write of next_cycle_time.
   Claimed when no worker raises and start_cycle can write (see README). *)
ResetAccounted ==
    \A i \in wanted :
        \/ pending[i]
        \/ applying = i
        \/ next[i] = "due"
        \/ i \in dropped

(* The dashboard never shows a running instance as idle because of its own
   default countdown, once the instance had a countdown when its cycle began:
   get_cycle_status acts on rows it read earlier, start_cycle takes no lock. *)
RunningShownLocked ==
    \A i \in Instances :
        worker[i] \in Hunting /\ snapshot[i] # "none" /\ i \notin abandoned
            => cycleLock[i]

(* A reset request is eventually followed by a new cycle of its instance,
   unless the instance is unconfigured or the process told to stop. *)
ResetServed ==
    \A i \in Instances :
        i \in wanted ~> (i \notin wanted \/ i \notin configured \/ stopEvent)

(* A cycle_lock left behind by a crash or a lost write is released by a later
   cycle: no instance shows as running for ever. *)
LockHeals ==
    \A i \in Instances :
        cycleLock[i] ~> (~cycleLock[i] \/ i \notin configured \/ stopEvent)

(* After a stop signal the loop's thread ends and no worker is left. *)
StopEndsWork ==
    stopEvent ~> (~stopEvent
                  \/ (loop = "dead" /\ \A i \in Instances : worker[i] = "idle"))
-----------------------------------------------------------------------------
(* The inductive invariant behind the safety properties. *)

Sleeping == {"scan", "wait", "apply"}

\* Who may be where: workers exist only during a round, a reset is applied
\* only from a sleep, and only to an instance the loop knows.
LoopInv ==
    /\ applying # NoInstance <=> loop = "apply"
    /\ applying \in all \union {NoInstance}
    /\ toScan \subseteq all
    /\ \A i \in Instances : worker[i] # "idle" => loop = "round" /\ i \in round
    /\ loop = "round" => round \subseteq all
    /\ poll = "idle" => pollDefault = {}

\* What a poller that read the rows some time ago can still overwrite: only
\* countdowns that do not exist yet, of instances the loop is not sleeping on.
CountdownInv ==
    \A i \in Instances :
        /\ i \in pollDefault => next[i] = "none"
        /\ i \in pollDefault /\ i \in all => loop \notin Sleeping
        /\ loop \in Sleeping /\ i \in all => next[i] # "none" \/ cycleLock[i]
        /\ loop = "round" /\ i \in all \ round => next[i] # "none"
        /\ worker[i] = "done" => /\ i \notin pollDefault
                                 /\ next[i] # "none" \/ cycleLock[i]
        /\ worker[i] \in Hunting => next[i] # "none" \/ cycleLock[i]
        /\ worker[i] \in Hunting \union {"starting"} /\ snapshot[i] # "none"
             => next[i] # "none"

\* A cycle that goes on although a reset was asked for will still see it.
RequestInv ==
    /\ ResetAccounted
    /\ \A i \in wanted : worker[i] \in Hunting => pending[i]

-----------------------------------------------------------------------------
(* The abstract specification: rows and threads seen as an agenda. *)
Agenda == INSTANCE CycleAgenda WITH
    asked   <- {i \in Instances : pending[i]},
    taken   <- BeingApplied,
    due     <- {i \in Instances : next[i] = "due"},
    running <- {i \in Instances : worker[i] \in Hunting},
    faults  <- faults

(* The loop, its workers, the poller and their faults do what the agenda
   allows: no poll and no stale row written back by start_cycle takes the due
   time of another cycle away, no request is taken from under a running cycle
   or dropped without a fault at that moment. *)
KeepsAgenda == Agenda!Spec
=============================================================================
