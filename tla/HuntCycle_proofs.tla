-------------------------- MODULE HuntCycle_proofs --------------------------
(* Proofs about HuntCycle: type correctness, and the safety properties, for
   any set of instances, any order of the settings, any set of faults and any
   bounds; that it implements CycleAgenda. *)
EXTENDS HuntCycle, TLAPS

\* The tuples of variables that the actions leave alone.
USE DEF vars, settingsVars, dbVars, loopVars, workVars, pollVars, histVars

\* A fault stays within the bound on faults.
LEMMA FaultBounded ==
  ASSUME NEW kind, Fault(kind), faults \in 0..MaxFaults
  PROVE  faults' \in 0..MaxFaults
BY BoundsAssumption DEF Fault, BoundsAssumption

(* Every action keeps every variable in its type: the worker and loop states
   that background.py's control flow can reach, and the bounds of the model. *)
THEOREM TypeCorrect == Spec => []TypeOK
<1> USE DEF TypeOK, NextTimes, LoopStates, WorkerStates
<1>1. Init => TypeOK
  <2> SUFFICES ASSUME Init PROVE TypeOK
    OBVIOUS
  <2>1. resets \in 0..MaxResets /\ faults \in 0..MaxFaults
    BY BoundsAssumption DEF Init, BoundsAssumption
  <2>2. QED
    BY <2>1 DEF Init
<1>2. TypeOK /\ [Next]_vars => TypeOK'
  <2> SUFFICES ASSUME TypeOK, [Next]_vars PROVE TypeOK'
    OBVIOUS
  <2>1. CASE StartThread
    BY <2>1 DEF StartThread
  <2>2. CASE LoopTop
    BY <2>2 DEF LoopTop
  <2>3. CASE PlanRound
    BY <2>3 DEF PlanRound
  <2>4. CASE RoundDone
    BY <2>4 DEF RoundDone
  <2>5. CASE SleepStop
    BY <2>5 DEF SleepStop
  <2>6. CASE ScanReset
    BY <2>6 DEF ScanReset, Mark
  <2>7. CASE ScanDone
    BY <2>7 DEF ScanDone
  <2>8. CASE ApplyReset
    BY <2>8 DEF ApplyReset, NextAfterReset
  <2>9. CASE ApplyResetFails
    BY <2>9, FaultBounded DEF ApplyResetFails, BeingApplied
  <2>10. CASE SleepAgain
    BY <2>10 DEF SleepAgain
  <2>11. CASE SleepElapsed
    BY <2>11 DEF SleepElapsed
  <2>12. ASSUME NEW i \in Instances, Worker(i) PROVE TypeOK'
    <3>1. CASE StartRead(i)
      BY <3>1 DEF StartRead
    <3>2. CASE StartWrite(i)
      BY <3>2 DEF StartWrite
    <3>3. CASE StartWriteFails(i)
      BY <3>3, FaultBounded DEF StartWriteFails
    <3>4. CASE CheckReset(i)
      BY <3>4 DEF CheckReset, AfterStart
    <3>5. CASE Preflight(i)
      BY <3>5 DEF Preflight
    <3>6. CASE MissingDone(i)
      BY <3>6 DEF MissingDone
    <3>7. CASE UpgradesDone(i)
      BY <3>7 DEF UpgradesDone
    <3>8. CASE EndCycle(i)
      BY <3>8 DEF EndCycle, Deadlines
    <3>9. CASE EndCycleFails(i)
      BY <3>9, FaultBounded DEF EndCycleFails
    <3>10. CASE WorkerRaises(i)
      BY <3>10, FaultBounded DEF WorkerRaises
    <3>11. QED
      BY <2>12, <3>1, <3>2, <3>3, <3>4, <3>5, <3>6, <3>7, <3>8, <3>9, <3>10
      DEF Worker
  <2>13. CASE Poller
    BY <2>13 DEF Poller, PollRead, PollPending, PollPersist, PollDone
  <2>14. ASSUME NEW i \in Instances,
                RequestReset(i) \/ Configure(i) \/ TimePasses(i)
         PROVE  TypeOK'
    <3>1. CASE RequestReset(i)
      <4>1. resets' \in 0..MaxResets
        BY <3>1, BoundsAssumption DEF BoundsAssumption, RequestReset
      <4>2. QED
        BY <3>1, <4>1 DEF RequestReset
    <3>2. CASE Configure(i)
      BY <3>2 DEF Configure
    <3>3. CASE TimePasses(i)
      BY <3>3 DEF TimePasses
    <3>4. QED
      BY <2>14, <3>1, <3>2, <3>3
  <2>15. CASE RequestAppReset
    <3>1. resets' \in 0..MaxResets
      BY <2>15, BoundsAssumption DEF BoundsAssumption, RequestAppReset
    <3>2. QED
      BY <2>15, <3>1 DEF RequestAppReset
  <2>16. CASE Stop
    BY <2>16 DEF Stop
  <2>17. CASE ThreadDies
    BY <2>17, FaultBounded DEF ThreadDies
  <2>18. CASE Crash
    BY <2>18, FaultBounded DEF Crash, BeingApplied
  <2>19. CASE UNCHANGED vars
    BY <2>19
  <2>20. QED
    BY <2>1, <2>2, <2>3, <2>4, <2>5, <2>6, <2>7, <2>8, <2>9, <2>10, <2>11,
       <2>12, <2>13, <2>14, <2>15, <2>16, <2>17, <2>18, <2>19
    DEF Next, Loop, Environment
<1>3. QED
  BY <1>1, <1>2, PTL DEF Spec

-----------------------------------------------------------------------------
(* Where the loop, its workers and the poller can be together: workers run
   only inside a round, a reset is applied only from a sleep. *)
LEMMA LoopInvariant == Spec => []LoopInv
<1> USE DEF LoopInv
<1>1. Init => LoopInv
  BY NoInstanceAssumption DEF Init
<1>2. TypeOK /\ LoopInv /\ [Next]_vars => LoopInv'
  <2> SUFFICES ASSUME TypeOK, LoopInv, [Next]_vars PROVE LoopInv'
    OBVIOUS
  <2> USE DEF TypeOK
  <2>1. CASE StartThread
    BY <2>1 DEF StartThread
  <2>2. CASE LoopTop
    BY <2>2 DEF LoopTop
  <2>3. CASE PlanRound
    BY <2>3 DEF PlanRound
  <2>4. CASE RoundDone
    BY <2>4 DEF RoundDone
  <2>5. CASE SleepStop \/ ScanDone \/ SleepAgain \/ SleepElapsed
    BY <2>5 DEF SleepStop, ScanDone, SleepAgain, SleepElapsed
  <2>6. CASE ScanReset
    BY <2>6, NoInstanceAssumption DEF ScanReset
  <2>7. CASE ApplyReset \/ ApplyResetFails
    BY <2>7 DEF ApplyReset, ApplyResetFails
  <2>8. ASSUME NEW i \in Instances, Worker(i) PROVE LoopInv'
    <3>1. /\ UNCHANGED <<loop, all, round, toScan, applying, poll, pollDefault>>
          /\ worker[i] # "idle"
          /\ \A j \in Instances : j # i => worker'[j] = worker[j]
      BY <2>8 DEF Worker, StartRead, StartWrite, StartWriteFails, CheckReset,
                  Preflight, MissingDone, UpgradesDone, EndCycle, EndCycleFails,
                  WorkerRaises, Ending
    <3>2. QED
      BY <3>1
  <2>9. CASE Poller
    BY <2>9 DEF Poller, PollRead, PollPending, PollPersist, PollDone
  <2>10. ASSUME NEW i \in Instances,
                RequestReset(i) \/ Configure(i) \/ TimePasses(i)
         PROVE  LoopInv'
    BY <2>10 DEF RequestReset, Configure, TimePasses
  <2>11. CASE RequestAppReset \/ Stop
    BY <2>11 DEF RequestAppReset, Stop
  <2>12. CASE ThreadDies
    BY <2>12 DEF ThreadDies
  <2>13. CASE Crash
    BY <2>13 DEF Crash
  <2>14. CASE UNCHANGED vars
    BY <2>14
  <2>15. QED
    BY <2>1, <2>2, <2>3, <2>4, <2>5, <2>6, <2>7, <2>8, <2>9, <2>10, <2>11,
       <2>12, <2>13, <2>14 DEF Next, Loop, Environment
<1>3. QED
  BY <1>1, <1>2, TypeCorrect, PTL DEF Spec

(* A cycle_lock that is set belongs to a running cycle or to one that a fault
   cut: every return of _process_one_instance passes through end_cycle. *)
THEOREM LocksAccounted == Spec => []CycleLockAccounted
<1> USE DEF CycleLockAccounted
<1>1. Init => CycleLockAccounted
  BY DEF Init
<1>2. TypeOK /\ LoopInv /\ CycleLockAccounted /\ [Next]_vars
        => CycleLockAccounted'
  <2> SUFFICES ASSUME TypeOK, LoopInv, CycleLockAccounted, [Next]_vars
               PROVE  CycleLockAccounted'
    OBVIOUS
  <2> USE DEF TypeOK, Hunting, Ending
  <2>1. CASE UNCHANGED <<cycleLock, worker, abandoned>>
    BY <2>1
  <2>2. CASE PlanRound
    BY <2>2 DEF PlanRound, LoopInv
  <2>3. CASE RoundDone
    BY <2>3 DEF RoundDone, LoopInv
  <2>4. CASE ApplyReset
    BY <2>4 DEF ApplyReset
  <2>5. ASSUME NEW i \in Instances, Worker(i) PROVE CycleLockAccounted'
    <3>1. CASE StartRead(i)
      BY <3>1 DEF StartRead
    <3>2. CASE StartWrite(i) \/ StartWriteFails(i)
      BY <3>2 DEF StartWrite, StartWriteFails
    <3>3. CASE CheckReset(i)
      BY <3>3 DEF CheckReset, AfterStart
    <3>4. CASE Preflight(i) \/ MissingDone(i) \/ UpgradesDone(i)
      BY <3>4 DEF Preflight, MissingDone, UpgradesDone
    <3>5. CASE EndCycle(i)
      BY <3>5 DEF EndCycle
    <3>6. CASE EndCycleFails(i) \/ WorkerRaises(i)
      BY <3>6 DEF EndCycleFails, WorkerRaises
    <3>7. QED
      BY <2>5, <3>1, <3>2, <3>3, <3>4, <3>5, <3>6 DEF Worker
  <2>6. CASE PollPersist
    BY <2>6 DEF PollPersist
  <2>7. CASE ThreadDies
    BY <2>7 DEF ThreadDies, LoopInv
  <2>8. CASE Crash
    BY <2>8 DEF Crash
  <2>9. QED
    <3>1. ASSUME StartThread \/ LoopTop \/ SleepStop \/ ScanReset \/ ScanDone
                 \/ ApplyResetFails \/ SleepAgain \/ SleepElapsed
          PROVE  UNCHANGED <<cycleLock, worker, abandoned>>
      BY <3>1 DEF StartThread, LoopTop, SleepStop, ScanReset, ScanDone,
                  ApplyResetFails, SleepAgain, SleepElapsed
    <3>2. ASSUME PollRead \/ PollPending \/ PollDone \/ RequestAppReset \/ Stop
          PROVE  UNCHANGED <<cycleLock, worker, abandoned>>
      BY <3>2 DEF PollRead, PollPending, PollDone, RequestAppReset, Stop
    <3>3. ASSUME NEW i \in Instances,
                 RequestReset(i) \/ Configure(i) \/ TimePasses(i)
          PROVE  UNCHANGED <<cycleLock, worker, abandoned>>
      BY <3>3 DEF RequestReset, Configure, TimePasses
    <3>4. QED
      BY <2>1, <2>2, <2>3, <2>4, <2>5, <2>6, <2>7, <2>8, <3>1, <3>2, <3>3
      DEF Next, Loop, Poller, Environment
<1>3. QED
  BY <1>1, <1>2, TypeCorrect, LoopInvariant, PTL DEF Spec

-----------------------------------------------------------------------------
(* What a poll that read the rows some time ago can still overwrite: only
   countdowns that do not exist yet, of instances the loop is not sleeping
   on.  A start_cycle whose write is lost breaks this, and a worker that
   raises. *)
LEMMA CountdownInvariant ==
  ASSUME "startLost" \notin Faults, "raise" \notin Faults
  PROVE  Spec => []CountdownInv
<1> USE DEF CountdownInv, Sleeping, Hunting, Ending
<1>1. Init => CountdownInv
  BY DEF Init
<1>2. TypeOK /\ LoopInv /\ CountdownInv /\ [Next]_vars => CountdownInv'
  <2> SUFFICES ASSUME TypeOK, LoopInv, CountdownInv, [Next]_vars
               PROVE  CountdownInv'
    OBVIOUS
  <2> USE DEF TypeOK
  <2>1. CASE StartThread
    BY <2>1 DEF StartThread
  <2>2. CASE LoopTop
    BY <2>2 DEF LoopTop, LoopInv
  <2>3. CASE PlanRound
    BY <2>3 DEF PlanRound, IsDue, LoopInv, NextTimes
  <2>4. CASE RoundDone
    BY <2>4 DEF RoundDone, LoopInv
  <2>5. CASE SleepStop \/ ScanDone \/ SleepAgain \/ SleepElapsed
    BY <2>5 DEF SleepStop, ScanDone, SleepAgain, SleepElapsed
  <2>6. CASE ScanReset
    BY <2>6 DEF ScanReset, Mark
  <2>7. CASE ApplyReset
    BY <2>7 DEF ApplyReset, NextAfterReset, LoopInv
  <2>8. CASE ApplyResetFails
    BY <2>8 DEF ApplyResetFails
  <2>9. ASSUME NEW i \in Instances, Worker(i) PROVE CountdownInv'
    <3>1. CASE StartRead(i)
      BY <3>1 DEF StartRead
    <3>2. CASE StartWrite(i)
      BY <3>2 DEF StartWrite, LoopInv
    <3>3. CASE StartWriteFails(i)
      BY <3>3 DEF StartWriteFails, Fault
    <3>4. CASE CheckReset(i)
      BY <3>4 DEF CheckReset, AfterStart
    <3>5. CASE Preflight(i) \/ MissingDone(i) \/ UpgradesDone(i)
      BY <3>5 DEF Preflight, MissingDone, UpgradesDone
    <3>6. CASE EndCycle(i)
      BY <3>6 DEF EndCycle, Deadlines, LoopInv
    <3>7. CASE EndCycleFails(i)
      BY <3>7 DEF EndCycleFails, LoopInv
    <3>8. CASE WorkerRaises(i)
      BY <3>8 DEF WorkerRaises, Fault
    <3>9. QED
      BY <2>9, <3>1, <3>2, <3>3, <3>4, <3>5, <3>6, <3>7, <3>8 DEF Worker
  <2>10. CASE PollRead
    BY <2>10 DEF PollRead, NoDefault
  <2>11. CASE PollPending \/ PollDone
    BY <2>11 DEF PollPending, PollDone
  <2>12. CASE PollPersist
    BY <2>12 DEF PollPersist
  <2>13. ASSUME NEW i \in Instances,
                RequestReset(i) \/ Configure(i) \/ TimePasses(i)
         PROVE  CountdownInv'
    BY <2>13 DEF RequestReset, Configure, TimePasses
  <2>14. CASE RequestAppReset \/ Stop
    BY <2>14 DEF RequestAppReset, Stop
  <2>15. CASE ThreadDies
    BY <2>15 DEF ThreadDies
  <2>16. CASE Crash
    BY <2>16 DEF Crash
  <2>17. CASE UNCHANGED vars
    BY <2>17
  <2>18. QED
    BY <2>1, <2>2, <2>3, <2>4, <2>5, <2>6, <2>7, <2>8, <2>9, <2>10, <2>11,
       <2>12, <2>13, <2>14, <2>15, <2>16, <2>17
    DEF Next, Loop, Poller, Environment
<1>3. QED
  BY <1>1, <1>2, TypeCorrect, LoopInvariant, PTL DEF Spec

(* A cycle that goes on although a reset was asked for will still see it, and
   a reset that no cycle has followed is unprocessed, being applied, or has
   made its instance due. *)
LEMMA RequestInvariant ==
  ASSUME "startLost" \notin Faults, "raise" \notin Faults
  PROVE  Spec => []RequestInv
<1> USE DEF RequestInv, ResetAccounted, Hunting, Ending
<1>1. Init => RequestInv
  BY DEF Init
<1>2. TypeOK /\ LoopInv /\ CountdownInv /\ RequestInv /\ [Next]_vars
        => RequestInv'
  <2> SUFFICES ASSUME TypeOK, LoopInv, CountdownInv, RequestInv, [Next]_vars
               PROVE  RequestInv'
    OBVIOUS
  <2> USE DEF TypeOK
  <2>1. CASE UNCHANGED <<next, pending, worker, applying, wanted, dropped>>
    BY <2>1
  <2>2. CASE PlanRound
    BY <2>2 DEF PlanRound, LoopInv
  <2>3. CASE RoundDone
    BY <2>3 DEF RoundDone, LoopInv
  \* The reset is marked: its instance was not hunting, the loop sleeps.
  <2>4. CASE ScanReset
    <3>1. \A j \in Instances : worker[j] = "idle" /\ worker'[j] = "idle"
      BY <2>4 DEF ScanReset, LoopInv
    <3>2. PICK i \in toScan :
             IF pending[i] THEN pending' = Mark(i) /\ applying' = i
                           ELSE UNCHANGED <<pending, applying>>
      BY <2>4 DEF ScanReset
    <3>3. UNCHANGED <<next, wanted, dropped>> /\ applying = NoInstance
      BY <2>4 DEF ScanReset, LoopInv
    <3>4. \A j \in wanted : pending[j] => pending'[j] \/ applying' = j
      BY <3>2 DEF Mark
    <3>5. \A j \in wanted : applying # j
      BY <3>3, NoInstanceAssumption
    <3>6. QED
      BY <3>1, <3>3, <3>4, <3>5
  <2>5. CASE ApplyReset
    BY <2>5 DEF ApplyReset, NextAfterReset
  <2>6. CASE ApplyResetFails
    BY <2>6 DEF ApplyResetFails, BeingApplied, LoopInv
  <2>7. ASSUME NEW i \in Instances, Worker(i) PROVE RequestInv'
    <3>1. CASE StartRead(i)
      BY <3>1 DEF StartRead
    <3>2. CASE StartWrite(i)
      BY <3>2 DEF StartWrite
    <3>3. CASE StartWriteFails(i)
      BY <3>3 DEF StartWriteFails, Fault
    <3>4. CASE CheckReset(i)
      BY <3>4 DEF CheckReset, AfterStart
    <3>5. CASE Preflight(i) \/ MissingDone(i) \/ UpgradesDone(i)
      BY <3>5 DEF Preflight, MissingDone, UpgradesDone
    <3>6. CASE EndCycle(i)
      BY <3>6 DEF EndCycle, Deadlines
    <3>7. CASE EndCycleFails(i)
      BY <3>7 DEF EndCycleFails
    <3>8. CASE WorkerRaises(i)
      BY <3>8 DEF WorkerRaises, Fault
    <3>9. QED
      BY <2>7, <3>1, <3>2, <3>3, <3>4, <3>5, <3>6, <3>7, <3>8 DEF Worker
  \* The default goes to instances without a countdown only.
  <2>8. CASE PollPersist
    BY <2>8 DEF PollPersist, CountdownInv
  <2>9. ASSUME NEW i \in Instances, RequestReset(i) PROVE RequestInv'
    BY <2>9 DEF RequestReset
  <2>10. ASSUME NEW i \in Instances, TimePasses(i) PROVE RequestInv'
    BY <2>10 DEF TimePasses
  <2>11. CASE ThreadDies
    BY <2>11 DEF ThreadDies, LoopInv
  <2>12. CASE Crash
    BY <2>12 DEF Crash, BeingApplied, LoopInv
  <2>13. QED
    <3>1. ASSUME StartThread \/ LoopTop \/ SleepStop \/ ScanDone
                 \/ SleepAgain \/ SleepElapsed
          PROVE  UNCHANGED <<next, pending, worker, applying, wanted, dropped>>
      BY <3>1 DEF StartThread, LoopTop, SleepStop, ScanDone, SleepAgain,
                  SleepElapsed
    <3>2. ASSUME PollRead \/ PollPending \/ PollDone \/ RequestAppReset \/ Stop
          PROVE  UNCHANGED <<next, pending, worker, applying, wanted, dropped>>
      BY <3>2 DEF PollRead, PollPending, PollDone, RequestAppReset, Stop
    <3>3. ASSUME NEW i \in Instances, Configure(i)
          PROVE  UNCHANGED <<next, pending, worker, applying, wanted, dropped>>
      BY <3>3 DEF Configure
    <3>4. QED
      BY <2>1, <2>2, <2>3, <2>4, <2>5, <2>6, <2>7, <2>8, <2>9, <2>10, <2>11,
         <2>12, <3>1, <3>2, <3>3 DEF Next, Loop, Poller, Environment
<1>3. QED
  BY <1>1, <1>2, TypeCorrect, LoopInvariant, CountdownInvariant, PTL DEF Spec

(* No manual reset is forgotten, whatever crashes, dead threads and lost writes
   of end_cycle there are: it waits to be processed, is being applied, or has
   made its instance due, until a cycle starts; only a fault between
   mark_reset_request_processed and the write of next_cycle_time drops it. *)
THEOREM ResetsAccounted ==
  ASSUME "startLost" \notin Faults, "raise" \notin Faults
  PROVE  Spec => []ResetAccounted
<1>1. RequestInv => ResetAccounted
  BY DEF RequestInv
<1>2. QED
  BY <1>1, RequestInvariant, PTL

(* The dashboard's default countdown never hides a running cycle of an instance
   that had a countdown when its cycle began, although get_cycle_status decides
   on rows it read earlier and start_cycle takes no lock. *)
THEOREM RunningShown ==
  ASSUME "startLost" \notin Faults, "raise" \notin Faults
  PROVE  Spec => []RunningShownLocked
<1> USE DEF RunningShownLocked, Hunting, Ending
<1>1. Init => RunningShownLocked
  BY DEF Init
<1>2. TypeOK /\ LoopInv /\ CountdownInv /\ RunningShownLocked /\ [Next]_vars
        => RunningShownLocked'
  <2> SUFFICES ASSUME TypeOK, LoopInv, CountdownInv, RunningShownLocked,
                      [Next]_vars
               PROVE  RunningShownLocked'
    OBVIOUS
  <2> USE DEF TypeOK
  <2>1. CASE UNCHANGED <<cycleLock, worker, snapshot, abandoned>>
    BY <2>1
  <2>2. CASE PlanRound \/ RoundDone \/ ApplyReset \/ ThreadDies \/ Crash
    BY <2>2 DEF PlanRound, RoundDone, ApplyReset, ThreadDies, Crash, LoopInv
  <2>3. ASSUME NEW i \in Instances, Worker(i) PROVE RunningShownLocked'
    <3>1. CASE StartRead(i) \/ StartWrite(i)
      BY <3>1 DEF StartRead, StartWrite
    <3>2. CASE StartWriteFails(i) \/ WorkerRaises(i)
      BY <3>2 DEF StartWriteFails, WorkerRaises, Fault
    <3>3. CASE CheckReset(i)
      BY <3>3 DEF CheckReset, AfterStart
    <3>4. CASE Preflight(i) \/ MissingDone(i) \/ UpgradesDone(i)
      BY <3>4 DEF Preflight, MissingDone, UpgradesDone
    <3>5. CASE EndCycle(i) \/ EndCycleFails(i)
      BY <3>5 DEF EndCycle, EndCycleFails
    <3>6. QED
      BY <2>3, <3>1, <3>2, <3>3, <3>4, <3>5 DEF Worker
  \* The default is written where no countdown was: not to such a cycle.
  <2>4. CASE PollPersist
    BY <2>4 DEF PollPersist, CountdownInv
  <2>5. QED
    <3>1. ASSUME StartThread \/ LoopTop \/ SleepStop \/ ScanReset \/ ScanDone
                 \/ ApplyResetFails \/ SleepAgain \/ SleepElapsed
          PROVE  UNCHANGED <<cycleLock, worker, snapshot, abandoned>>
      BY <3>1 DEF StartThread, LoopTop, SleepStop, ScanReset, ScanDone,
                  ApplyResetFails, SleepAgain, SleepElapsed
    <3>2. ASSUME PollRead \/ PollPending \/ PollDone \/ RequestAppReset \/ Stop
          PROVE  UNCHANGED <<cycleLock, worker, snapshot, abandoned>>
      BY <3>2 DEF PollRead, PollPending, PollDone, RequestAppReset, Stop
    <3>3. ASSUME NEW i \in Instances,
                 RequestReset(i) \/ Configure(i) \/ TimePasses(i)
          PROVE  UNCHANGED <<cycleLock, worker, snapshot, abandoned>>
      BY <3>3 DEF RequestReset, Configure, TimePasses
    <3>4. QED
      BY <2>1, <2>2, <2>3, <2>4, <3>1, <3>2, <3>3
      DEF Next, Loop, Poller, Environment
<1>3. QED
  BY <1>1, <1>2, TypeCorrect, LoopInvariant, CountdownInvariant, PTL DEF Spec

-----------------------------------------------------------------------------
(* HuntCycle implements CycleAgenda: the initial state maps to the initial
   state and every step to a step or a stutter.  LoopInv tells that a request
   is taken only while no worker runs, CountdownInv that the poller has no due
   time to overwrite. *)

(* The loop's steps between two rounds: a request is taken, granted or, by a
   fault, dropped; the others change nothing the agenda sees. *)
LEMMA LoopSteps ==
  ASSUME TypeOK, LoopInv, Loop
  PROVE  Agenda!Next \/ UNCHANGED Agenda!vars
<1> USE DEF TypeOK, LoopInv, Hunting, Ending, BeingApplied
<1>1. CASE StartThread \/ LoopTop \/ SleepStop \/ ScanDone \/ SleepAgain \/ SleepElapsed
  <2>1. UNCHANGED <<pending, applying, next, worker, faults>>
    BY <1>1 DEF StartThread, LoopTop, SleepStop, ScanDone, SleepAgain, SleepElapsed
  <2>2. QED
    BY <2>1 DEF Agenda!vars
<1>2. CASE PlanRound
  <2>1. UNCHANGED <<pending, applying, next, faults>>
    BY <1>2 DEF PlanRound
  <2>2. \A i \in Instances : worker[i] = "idle" /\ worker'[i] \in {"idle", "begin"}
    BY <1>2 DEF PlanRound
  <2>3. QED
    BY <2>1, <2>2 DEF Agenda!vars
<1>3. CASE RoundDone
  <2>1. UNCHANGED <<pending, applying, next, faults>>
    BY <1>3 DEF RoundDone
  <2>2. \A i \in Instances : worker[i] \in {"idle", "done"} /\ worker'[i] = "idle"
    BY <1>3 DEF RoundDone
  <2>3. QED
    BY <2>1, <2>2 DEF Agenda!vars
<1>4. CASE ScanReset
  <2>1. UNCHANGED <<next, worker, faults>> /\ applying = NoInstance
    BY <1>4 DEF ScanReset
  <2>2. \A i \in Instances : worker[i] = "idle"
    BY <1>4 DEF ScanReset
  <2>3. PICK i \in toScan :
           IF pending[i] THEN pending' = Mark(i) /\ applying' = i
                         ELSE UNCHANGED <<pending, applying>>
    BY <1>4 DEF ScanReset
  <2>4. i \in Instances /\ i # NoInstance
    BY NoInstanceAssumption
  <2>5. CASE pending[i]
    <3>1. Agenda!Take(i)
      BY <2>1, <2>2, <2>3, <2>4, <2>5 DEF Agenda!Take, Mark
    <3>2. QED
      BY <2>4, <3>1 DEF Agenda!Next
  <2>6. CASE ~pending[i]
    BY <2>1, <2>3, <2>6 DEF Agenda!vars
  <2>7. QED
    BY <2>5, <2>6
<1>5. CASE ApplyReset
  <2>1. applying \in Instances /\ applying # NoInstance
    BY <1>5, NoInstanceAssumption DEF ApplyReset
  <2>2. Agenda!Grant
    BY <1>5, <2>1 DEF ApplyReset, NextAfterReset, Agenda!Grant
  <2>3. QED
    BY <2>2 DEF Agenda!Next
<1>6. CASE ApplyResetFails
  <2>1. Agenda!Fails
    BY <1>6 DEF ApplyResetFails, Fault, Agenda!Fails
  <2>2. QED
    BY <2>1 DEF Agenda!Next
<1>7. QED
  BY <1>1, <1>2, <1>3, <1>4, <1>5, <1>6 DEF Loop

(* A worker's steps: its cycle begins, ends, or is cut by a fault. *)
LEMMA WorkerSteps ==
  ASSUME TypeOK, LoopInv, NEW i \in Instances, Worker(i)
  PROVE  Agenda!Next \/ UNCHANGED Agenda!vars
<1> USE DEF TypeOK, LoopInv, Hunting, Ending, BeingApplied
<1>1. CASE StartRead(i)
  BY <1>1 DEF StartRead, Agenda!vars
<1>2. CASE StartWrite(i) \/ StartWriteFails(i)
  <2>1. UNCHANGED <<pending, applying>> /\ applying = NoInstance
    BY <1>2 DEF StartWrite, StartWriteFails
  <2>2. /\ worker[i] = "starting"
        /\ worker' = [worker EXCEPT ![i] = "started"]
        /\ faults' \in {faults, faults + 1}
    BY <1>2 DEF StartWrite, StartWriteFails, Fault
  <2>3. \A j \in Instances \ {i} : next'[j] = next[j]
    BY <1>2 DEF StartWrite, StartWriteFails
  <2>4. Agenda!DueChanges(i)
    BY <2>3 DEF Agenda!DueChanges
  <2>5. Agenda!Begin(i)
    BY <2>1, <2>2, <2>4 DEF Agenda!Begin
  <2>6. QED
    BY <2>5 DEF Agenda!Next
<1>3. CASE CheckReset(i)
  BY <1>3 DEF CheckReset, AfterStart, Agenda!vars
<1>4. CASE Preflight(i) \/ MissingDone(i) \/ UpgradesDone(i)
  BY <1>4 DEF Preflight, MissingDone, UpgradesDone, Agenda!vars
<1>5. CASE EndCycle(i)
  <2>1. \A j \in Instances \ {i} : next'[j] = next[j]
    BY <1>5 DEF EndCycle
  <2>2. Agenda!DueChanges(i)
    BY <2>1 DEF Agenda!DueChanges
  <2>3. Agenda!End(i)
    BY <1>5, <2>2 DEF EndCycle, Agenda!End
  <2>4. QED
    BY <2>3 DEF Agenda!Next
<1>6. CASE EndCycleFails(i) \/ WorkerRaises(i)
  <2>1. Agenda!Fails
    BY <1>6 DEF EndCycleFails, WorkerRaises, Fault, Agenda!Fails
  <2>2. QED
    BY <2>1 DEF Agenda!Next
<1>7. QED
  BY <1>1, <1>2, <1>3, <1>4, <1>5, <1>6 DEF Worker

(* The poller writes where no countdown is: no due time is lost. *)
LEMMA PollerSteps ==
  ASSUME TypeOK, CountdownInv, Poller
  PROVE  UNCHANGED Agenda!vars
<1>1. UNCHANGED <<pending, applying, worker, faults>>
  BY DEF Poller, PollRead, PollPending, PollPersist, PollDone
<1>2. \A i \in Instances : next'[i] = "due" <=> next[i] = "due"
  <2>1. CASE PollPersist
    BY <2>1 DEF PollPersist, CountdownInv, TypeOK
  <2>2. CASE ~PollPersist
    BY <2>2 DEF Poller, PollRead, PollPending, PollDone
  <2>3. QED
    BY <2>1, <2>2
<1>3. QED
  BY <1>1, <1>2 DEF Agenda!vars, BeingApplied

(* Users ask, time comes, faults strike. *)
LEMMA EnvironmentSteps ==
  ASSUME TypeOK, LoopInv, Environment
  PROVE  Agenda!Next \/ UNCHANGED Agenda!vars
<1> USE DEF TypeOK, LoopInv, Hunting, Ending, BeingApplied
<1>1. ASSUME NEW i \in Instances, RequestReset(i)
      PROVE  Agenda!Next
  <2>1. Agenda!Ask(i)
    BY <1>1 DEF RequestReset, Agenda!Ask
  <2>2. QED
    BY <2>1 DEF Agenda!Next
<1>2. ASSUME NEW i \in Instances, TimePasses(i)
      PROVE  Agenda!Next
  <2>1. Agenda!ComesDue(i)
    BY <1>2 DEF TimePasses, Agenda!ComesDue
  <2>2. QED
    BY <2>1 DEF Agenda!Next
<1>3. ASSUME NEW i \in Instances, Configure(i)
      PROVE  UNCHANGED Agenda!vars
  BY <1>3 DEF Configure, Agenda!vars
<1>4. CASE RequestAppReset \/ Stop
  BY <1>4 DEF RequestAppReset, Stop, Agenda!vars
<1>5. CASE ThreadDies \/ Crash
  <2>1. Agenda!Fails
    BY <1>5 DEF ThreadDies, Crash, Fault, Agenda!Fails
  <2>2. QED
    BY <2>1 DEF Agenda!Next
<1>6. QED
  BY <1>1, <1>2, <1>3, <1>4, <1>5 DEF Environment

(* The hunting loop keeps the agenda of its instances, however its threads,
   the poller, users and faults interleave, unless a worker raises or a write
   of start_cycle is lost: a request is taken only from an instance at rest,
   granted before any cycle begins, and dropped by a fault alone. *)
THEOREM AgendaKept ==
  ASSUME "startLost" \notin Faults, "raise" \notin Faults
  PROVE  Spec => KeepsAgenda
<1>1. Init => Agenda!Init
  BY NoInstanceAssumption DEF Init, Agenda!Init, BeingApplied, Hunting, Ending
<1>2. TypeOK /\ LoopInv /\ CountdownInv /\ [Next]_vars => [Agenda!Next]_(Agenda!vars)
  <2> SUFFICES ASSUME TypeOK, LoopInv, CountdownInv, [Next]_vars
               PROVE  Agenda!Next \/ UNCHANGED Agenda!vars
    OBVIOUS
  <2>1. CASE UNCHANGED vars
    BY <2>1 DEF vars, dbVars, loopVars, workVars, histVars, Agenda!vars, BeingApplied
  <2>2. CASE Next
    BY <2>2, LoopSteps, WorkerSteps, PollerSteps, EnvironmentSteps DEF Next
  <2>3. QED
    BY <2>1, <2>2
<1>3. QED
  BY <1>1, <1>2, TypeCorrect, LoopInvariant, CountdownInvariant, PTL
  DEF Spec, KeepsAgenda, Agenda!Spec
=============================================================================
