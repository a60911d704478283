-------------------------------- MODULE Hunt --------------------------------
(***************************************************************************)
(* What a worker of the hunting loop does in "missing" and "upgrades": the *)
(* apps/<app>/missing.py and upgrade.py pick wanted items, have the *arr   *)
(* application search for them, remember them (stateful_processed_ids) and *)
(* count the searches against hourly_cap (hourly_caps_per_instance).       *)
(* Around the workers: the expiry of an instance's memory, the global      *)
(* expiry of stateful_manager in the scheduler's thread, resets by users,  *)
(* the thread that zeroes the counters at the top of the hour, crashes.    *)
(*                                                                         *)
(* An item is an id of the application: a movie, an album, a season.  Of   *)
(* time there is what the code tests: whether a lock has expired, whether  *)
(* a counter's last_reset_hour is this hour, and whether the minute is 0.  *)
(***************************************************************************)
EXTENDS Naturals, FiniteSets

CONSTANTS
    Instances,   \* the instances of the settings
    Items,       \* what they may have missing or below the cutoff
    Applications,  \* which applications they may be of, a subset of Apps
    HuntSize,    \* hunt_missing_items and hunt_upgrade_items
    Cap,         \* hourly_cap of an instance
    PackSize,    \* episodes of a season pack (Sonarr)
    MaxCost,     \* the most one search counts
    Faults,      \* the faults that may happen, a subset of FaultKinds
    Users,       \* what users do, a subset of UserKinds
    MaxFaults    \* bound on the faults of a behaviour

Apps == {"sonarr", "radarr", "lidarr", "readarr", "whisparr", "eros", "sportarr"}
\* "crash" of the process; "refused": no command id; "lost": the command is
\* given and its answer lost; "unmarked", "uncounted": the write fails, which
\* is only logged; "down": no reset in minute 0, the process or the database
\* being away.
FaultKinds == {"crash", "refused", "lost", "unmarked", "uncounted", "down"}
\* "stop": a reset of the cycle or a stop signal, seen by stop_check;
\* "forget", "forgetAll": POST /api/stateful/reset for an instance, for all.
UserKinds == {"stop", "forget", "forgetAll"}

(* How an application hunts.  atOnce: one search for all selected items;   *)
(* first: marked before the search; waits: marked and counted when the     *)
(* command is complete; stops, capped: stop_check and the cap are tested   *)
(* before a search; again: stop_check once more, between mark and search;  *)
(* each: a search counts each of its items, else cost; byName: marked      *)
(* under the instance's display name, which only Eros upgrades do.         *)
Hunts == [atOnce : BOOLEAN, first : BOOLEAN, waits : BOOLEAN, stops : BOOLEAN,
          capped : BOOLEAN, again : BOOLEAN, each : BOOLEAN, byName : BOOLEAN,
          cost : Nat]

\* For a mutation run.
PlainEarly == [atOnce |-> FALSE, first |-> TRUE, waits |-> FALSE, stops |-> TRUE,
               capped |-> TRUE, again |-> FALSE, each |-> FALSE, byName |-> FALSE,
               cost |-> 1]

Plain  == [atOnce |-> FALSE, first |-> FALSE, waits |-> FALSE, stops |-> TRUE,
           capped |-> TRUE, again |-> FALSE, each |-> FALSE, byName |-> FALSE,
           cost |-> 1]
Season == [Plain EXCEPT !.cost = PackSize]
Early  == [Plain EXCEPT !.first = TRUE]
Wary   == [Early EXCEPT !.again = TRUE]
Batch  == [Early EXCEPT !.atOnce = TRUE]

\* One definition for each file, from its search for wanted items to its count.
RadarrMissing   == Plain
RadarrUpgrade   == Plain
SonarrMissing   == Season
SonarrUpgrade   == [Season EXCEPT !.waits = TRUE]
LidarrMissing   == [Batch EXCEPT !.capped = FALSE, !.each = TRUE]
LidarrUpgrade   == Batch
ReadarrMissing  == Early
ReadarrUpgrade  == [Batch EXCEPT !.stops = FALSE]
WhisparrMissing == Wary
WhisparrUpgrade == Early
ErosMissing     == [Wary EXCEPT !.cost = 3]
ErosUpgrade     == [Wary EXCEPT !.cost = 3, !.byName = TRUE]
SportarrMissing == [Wary EXCEPT !.cost = 2]
SportarrUpgrade == [Early EXCEPT !.cost = 2]

Missing(a) ==
    CASE a = "radarr"   -> RadarrMissing
      [] a = "sonarr"   -> SonarrMissing
      [] a = "lidarr"   -> LidarrMissing
      [] a = "readarr"  -> ReadarrMissing
      [] a = "whisparr" -> WhisparrMissing
      [] a = "eros"     -> ErosMissing
      [] a = "sportarr" -> SportarrMissing

Upgrade(a) ==
    CASE a = "radarr"   -> RadarrUpgrade
      [] a = "sonarr"   -> SonarrUpgrade
      [] a = "lidarr"   -> LidarrUpgrade
      [] a = "readarr"  -> ReadarrUpgrade
      [] a = "whisparr" -> WhisparrUpgrade
      [] a = "eros"     -> ErosUpgrade
      [] a = "sportarr" -> SportarrUpgrade

Hunting(a, k) == IF k = "missing" THEN Missing(a) ELSE Upgrade(a)

ASSUME AppAssumption == Applications \subseteq Apps
ASSUME ItemsAssumption == IsFiniteSet(Items)
ASSUME SizesAssumption == /\ HuntSize \in Nat \ {0} /\ Cap \in Nat \ {0}
                          /\ PackSize \in Nat \ {0}
ASSUME CostAssumption == /\ MaxCost \in Nat
                         /\ \A a \in Applications, k \in {"missing", "upgrade"} :
                              /\ Hunting(a, k).cost <= MaxCost
                              /\ Hunting(a, k).each => HuntSize <= MaxCost
ASSUME KindsAssumption == /\ Faults \subseteq FaultKinds /\ Users \subseteq UserKinds
                          /\ MaxFaults \in Nat

VARIABLES
    app,         \* the application of an instance
    \* database
    processed,   \* stateful_processed_ids, by instance_id
    misfiled,    \* those under the display name of the instance
    lock,        \* stateful_instance_locks
    globalLock,  \* stateful_lock
    hits,        \* api_hits of hourly_caps_per_instance
    fresh,       \* its last_reset_hour is this hour
    \* process
    at,          \* where the worker of an instance is
    kind,        \* "missing" or "upgrade"
    todo,        \* selected items it has not come to
    hand,        \* the items of the search in hand
    clearing,    \* where reset_stateful_management is
    relocking,   \* instances a user reset, whose lock is still to be set
    checked,     \* last_hour_checked is this hour
    \* clock
    minute0,     \* the minute of the hour is 0
    owed,        \* the hourly thread has not zeroed the counters this hour
    \* history
    known,       \* items searched for and marked since the last clearing
    searched,    \* items ever searched for
    made,        \* searches since the counter was zeroed, up to Cap + 1
    faults       \* faults that happened so far

memory  == <<processed, misfiled, lock, globalLock, known>>
counter == <<hits, fresh, made>>
work    == <<at, kind, todo, hand>>
resets  == <<clearing, relocking>>
clock   == <<checked, minute0, owed>>
vars == <<app, memory, counter, work, resets, clock, searched, faults>>

Places == {"idle", "memory", "expiry", "forget", "relock", "gate", "select",
           "check", "markFirst", "search", "wait", "markThen", "count", "zero", "add"}
\* A search has been made and is still to be counted.
InFlight(i) == at[i] \in {"wait", "markThen", "count", "zero", "add"}

Fault(k) == k \in Faults /\ faults < MaxFaults /\ faults' = faults + 1
NoFault == faults' = faults
UpTo(n) == IF n > Cap THEN Cap + 1 ELSE n
Goto(i, place) == at' = [at EXCEPT ![i] = place]

-----------------------------------------------------------------------------
(* Variants for the mutation runs; no action uses them. *)
EveryItem(i)      == Items
ReachedLate(i)    == hits[i] > Cap
NotLocked(l)      == l
UnknownLock(l)    == "unset"
NotZeroed         == hits
Twice(h, s)       == IF h.each THEN Cardinality(s) ELSE 2 * h.cost

\* filter_unprocessed
Unprocessed(i) == Items \ processed[i]

\* check_hourly_cap_exceeded: last_reset_hour is not looked at.
Reached(i) == hits[i] >= Cap

\* initialize_instance_state_management
FirstLock(l) == IF l = "none" THEN "valid" ELSE l

\* How much increment_hourly_cap is called with, in all, for a search.
Cost(h, s) == IF h.each THEN Cardinality(s) ELSE h.cost

\* database.reset_hourly_caps
Zeroed == [i \in Instances |-> 0]

Init ==
    /\ app \in [Instances -> Applications]
    /\ processed = [i \in Instances |-> {}] /\ misfiled = [i \in Instances |-> {}]
    /\ lock = [i \in Instances |-> "none"] /\ globalLock = "valid"
    /\ hits = [i \in Instances |-> 0] /\ fresh = [i \in Instances |-> FALSE]
    /\ at = [i \in Instances |-> "idle"]
    /\ kind = [i \in Instances |-> "missing"]
    /\ todo = [i \in Instances |-> {}] /\ hand = [i \in Instances |-> {}]
    /\ clearing = "idle" /\ relocking = {} /\ checked = TRUE
    /\ minute0 = FALSE /\ owed = FALSE
    /\ known = [i \in Instances |-> {}] /\ searched = [i \in Instances |-> {}]
    /\ made = [i \in Instances |-> 0]
    /\ faults = 0

-----------------------------------------------------------------------------
(* _process_one_instance up to the hunts. *)

Cycle(i) ==
    /\ at[i] = "idle"
    /\ Goto(i, "memory")
    /\ kind' = [kind EXCEPT ![i] = "missing"]
    /\ UNCHANGED <<app, memory, counter, todo, hand, resets, clock, searched,
                   faults>>

Initialize(i) ==
    /\ at[i] = "memory"
    /\ lock' = [lock EXCEPT ![i] = FirstLock(@)]
    /\ Goto(i, "expiry")
    /\ UNCHANGED <<app, processed, misfiled, globalLock, known, counter, kind,
                   todo, hand, resets, clock, searched, faults>>

CheckExpiry(i) ==
    /\ at[i] = "expiry"
    /\ Goto(i, IF lock[i] = "expired" THEN "forget" ELSE "gate")
    /\ UNCHANGED <<app, memory, counter, kind, todo, hand, resets, clock,
                   searched, faults>>

\* reset_instance_state_management, in two transactions.
ClearIds(i) == /\ processed' = [processed EXCEPT ![i] = {}]
               /\ known' = [known EXCEPT ![i] = {}]
SetLock(i)  == lock' = [lock EXCEPT ![i] = "valid"]

Forget(i) ==
    /\ at[i] = "forget"
    /\ ClearIds(i)
    /\ Goto(i, "relock")
    /\ UNCHANGED <<app, misfiled, lock, globalLock, counter, kind, todo, hand,
                   resets, clock, searched, faults>>

Relock(i) ==
    /\ at[i] = "relock"
    /\ SetLock(i)
    /\ Goto(i, "gate")
    /\ UNCHANGED <<app, processed, misfiled, globalLock, known, counter, kind,
                   todo, hand, resets, clock, searched, faults>>

\* The cap, and the other reasons to skip a cycle.
Gate(i) ==
    /\ at[i] = "gate"
    /\ \/ Goto(i, "idle")
       \/ ~Reached(i) /\ Goto(i, "select")
    /\ UNCHANGED <<app, memory, counter, kind, todo, hand, resets, clock,
                   searched, faults>>

-----------------------------------------------------------------------------
(* process_missing_..., then process_upgrade_...: the worker of instance i. *)

\* What comes after a hunt.
Over(i) == IF kind[i] = "missing"
           THEN Goto(i, "select") /\ kind' = [kind EXCEPT ![i] = "upgrade"]
           ELSE Goto(i, "idle") /\ kind' = kind

Select(i) ==
    /\ at[i] = "select"
    /\ \E chosen \in SUBSET Unprocessed(i) :
         /\ Cardinality(chosen) <= HuntSize
         /\ todo' = [todo EXCEPT ![i] = chosen]
         /\ IF chosen = {} THEN Over(i) ELSE Goto(i, "check") /\ kind' = kind
    /\ UNCHANGED <<app, memory, counter, hand, resets, clock, searched, faults>>

\* The hunt ends: nothing left, or the cap is reached.
HuntEnds(i) ==
    /\ at[i] = "check"
    /\ todo[i] = {} \/ (Hunting(app[i], kind[i]).capped /\ Reached(i))
    /\ todo' = [todo EXCEPT ![i] = {}]
    /\ Over(i)
    /\ UNCHANGED <<app, memory, counter, hand, resets, clock, searched, faults>>

\* stop_check is seen before a search, between mark and search, or while
\* waiting for the command; the cycle is over.
StopSeen(i) ==
    /\ "stop" \in Users
    /\ \/ at[i] = "check" /\ Hunting(app[i], kind[i]).stops
       \/ at[i] = "search" /\ Hunting(app[i], kind[i]).again
       \/ at[i] = "wait"
    /\ todo' = [todo EXCEPT ![i] = {}]
    /\ hand' = [hand EXCEPT ![i] = {}]
    /\ Goto(i, "idle")
    /\ UNCHANGED <<app, memory, counter, kind, resets, clock, searched, faults>>

Take(i) ==
    /\ at[i] = "check" /\ todo[i] # {}
    /\ Hunting(app[i], kind[i]).capped => ~Reached(i)
    /\ \E s \in SUBSET todo[i] :
         /\ IF Hunting(app[i], kind[i]).atOnce THEN s = todo[i]
            ELSE \E x \in todo[i] : s = {x}
         /\ hand' = [hand EXCEPT ![i] = s]
         /\ todo' = [todo EXCEPT ![i] = @ \ s]
    /\ Goto(i, IF Hunting(app[i], kind[i]).first THEN "markFirst" ELSE "search")
    /\ UNCHANGED <<app, memory, counter, kind, resets, clock, searched, faults>>

\* add_processed_id for one item after the other; an error is only logged.
Marked(i) ==
    \E part \in SUBSET hand[i] :
      /\ IF part = hand[i] THEN NoFault ELSE Fault("unmarked")
      /\ IF Hunting(app[i], kind[i]).byName
         THEN /\ misfiled' = [misfiled EXCEPT ![i] = @ \union part]
              /\ processed' = processed
         ELSE /\ processed' = [processed EXCEPT ![i] = @ \union part]
              /\ misfiled' = misfiled

MarkFirst(i) ==
    /\ at[i] = "markFirst"
    /\ Marked(i)
    /\ Goto(i, "search")
    /\ UNCHANGED <<app, lock, globalLock, known, counter, kind, todo, hand,
                   resets, clock, searched>>

MarkThen(i) ==
    /\ at[i] = "markThen"
    /\ Marked(i)
    /\ known' = [known EXCEPT ![i] = @ \union (hand[i] \intersect processed'[i])]
    /\ Goto(i, "count")
    /\ UNCHANGED <<app, lock, globalLock, counter, kind, todo, hand, resets,
                   clock, searched>>

\* The *arr application searches for the items in hand.
Searches(i) ==
    /\ searched' = [searched EXCEPT ![i] = @ \union hand[i]]
    /\ known' = [known EXCEPT ![i] =
                    @ \union (hand[i] \intersect (processed[i] \union misfiled[i]))]
    /\ made' = [made EXCEPT ![i] = UpTo(@ + 1)]

Search(i) ==
    /\ at[i] = "search"
    /\ Searches(i) /\ NoFault
    /\ Goto(i, IF Hunting(app[i], kind[i]).first THEN "count"
               ELSE IF Hunting(app[i], kind[i]).waits THEN "wait" ELSE "markThen")
    /\ UNCHANGED <<app, processed, misfiled, lock, globalLock, hits, fresh,
                   kind, todo, hand, resets, clock>>

\* No command id: on to the next item.
SearchFails(i) ==
    /\ at[i] = "search"
    /\ \/ /\ Fault("refused")
          /\ UNCHANGED <<searched, known, made>>
       \/ Fault("lost") /\ Searches(i)
    /\ hand' = [hand EXCEPT ![i] = {}]
    /\ Goto(i, "check")
    /\ UNCHANGED <<app, processed, misfiled, lock, globalLock, hits, fresh,
                   kind, todo, resets, clock>>

\* wait_for_command: complete, or given up after command_wait_attempts.
Waited(i) ==
    /\ at[i] = "wait"
    /\ \/ Goto(i, "markThen") /\ hand' = hand
       \/ Goto(i, "check") /\ hand' = [hand EXCEPT ![i] = {}]
    /\ UNCHANGED <<app, memory, counter, kind, todo, resets, clock, searched,
                   faults>>

-----------------------------------------------------------------------------
(* increment_hourly_cap, in the worker; and the counters' reset. *)

\* Every counter is zeroed; searches still to be counted stay made.
ZeroAll == /\ hits' = Zeroed
           /\ fresh' = [i \in Instances |-> TRUE]
           /\ made' = [i \in Instances |-> IF InFlight(i) THEN 1 ELSE 0]

\* check_hourly_reset: once in minute 0 of each hour.
CheckHour(i) ==
    /\ at[i] = "count"
    /\ Goto(i, IF ~checked /\ minute0 THEN "zero" ELSE "add")
    /\ UNCHANGED <<app, memory, counter, kind, todo, hand, resets, clock,
                   searched, faults>>

ZeroFirst(i) ==
    /\ at[i] = "zero"
    /\ ZeroAll
    /\ checked' = TRUE
    /\ Goto(i, "add")
    /\ UNCHANGED <<app, memory, kind, todo, hand, resets, minute0, owed,
                   searched, faults>>

\* The first count of an hour starts afresh.
Add(i) ==
    /\ at[i] = "add"
    /\ \/ /\ hits' = [hits EXCEPT ![i] = (IF fresh[i] THEN @ ELSE 0)
                                          + Cost(Hunting(app[i], kind[i]), hand[i])]
          /\ fresh' = [fresh EXCEPT ![i] = TRUE]
          /\ made' = [made EXCEPT ![i] = IF fresh[i] THEN @ ELSE 1]
          /\ NoFault
       \/ UNCHANGED <<hits, fresh, made>> /\ Fault("uncounted")
    /\ hand' = [hand EXCEPT ![i] = {}]
    /\ Goto(i, "check")
    /\ UNCHANGED <<app, memory, kind, todo, resets, clock, searched>>

\* hourly_cap_scheduler_loop: whenever it looks, every 30 seconds, in minute 0.
HourlyReset ==
    /\ minute0
    /\ ZeroAll
    /\ owed' = FALSE
    /\ UNCHANGED <<app, memory, work, resets, checked, minute0, searched,
                   faults>>

-----------------------------------------------------------------------------
(* check_expiration and reset_stateful_management of stateful_manager. *)

CheckGlobal ==
    /\ clearing = "idle"
    /\ \/ globalLock = "expired" /\ clearing' = "clear" /\ globalLock' = globalLock
       \/ globalLock = "none" /\ globalLock' = "valid" /\ clearing' = clearing
    /\ UNCHANGED <<app, processed, misfiled, lock, known, counter, work,
                   relocking, clock, searched, faults>>

ClearAll ==
    /\ clearing = "clear"
    /\ processed' = [i \in Instances |-> {}] /\ misfiled' = [i \in Instances |-> {}]
    /\ known' = [i \in Instances |-> {}]
    /\ lock' = [i \in Instances |-> "none"]
    /\ globalLock' = "none"
    /\ clearing' = "lock"
    /\ UNCHANGED <<app, counter, work, relocking, clock, searched, faults>>

LockAll ==
    /\ clearing = "lock"
    /\ globalLock' = "valid"
    /\ clearing' = "idle"
    /\ UNCHANGED <<app, processed, misfiled, lock, known, counter, work,
                   relocking, clock, searched, faults>>

\* POST /api/stateful/reset
UserForgetsAll ==
    /\ "forgetAll" \in Users
    /\ clearing = "idle"
    /\ clearing' = "clear"
    /\ UNCHANGED <<app, memory, counter, work, relocking, clock, searched,
                   faults>>

UserForgets(i) ==
    /\ "forget" \in Users
    /\ i \notin relocking
    /\ ClearIds(i)
    /\ relocking' = relocking \union {i}
    /\ UNCHANGED <<app, misfiled, lock, globalLock, counter, work, clearing,
                   clock, searched, faults>>

UserRelocks(i) ==
    /\ i \in relocking
    /\ SetLock(i)
    /\ relocking' = relocking \ {i}
    /\ UNCHANGED <<app, processed, misfiled, globalLock, known, counter, work,
                   clearing, clock, searched, faults>>

-----------------------------------------------------------------------------
(* Time and the process. *)

LockExpires(i) ==
    /\ lock[i] = "valid"
    /\ lock' = [lock EXCEPT ![i] = "expired"]
    /\ UNCHANGED <<app, processed, misfiled, globalLock, known, counter, work,
                   resets, clock, searched, faults>>

GlobalExpires ==
    /\ globalLock = "valid"
    /\ globalLock' = "expired"
    /\ UNCHANGED <<app, processed, misfiled, lock, known, counter, work, resets,
                   clock, searched, faults>>

NewHour ==
    /\ ~minute0
    /\ minute0' = TRUE /\ owed' = TRUE /\ checked' = FALSE
    /\ fresh' = [i \in Instances |-> FALSE]
    /\ UNCHANGED <<app, memory, hits, made, work, resets, searched, faults>>

\* At least one look falls into minute 0, unless the process was away.
MinutePasses ==
    /\ minute0
    /\ \/ ~owed /\ NoFault
       \/ owed /\ Fault("down")
    /\ minute0' = FALSE /\ owed' = FALSE
    /\ UNCHANGED <<app, memory, counter, work, resets, checked, searched>>

\* The process dies and is started again: stats_manager takes the hour for
\* checked, stateful_manager makes the global lock if there is none.
Crash ==
    /\ Fault("crash")
    /\ at' = [i \in Instances |-> "idle"]
    /\ todo' = [i \in Instances |-> {}] /\ hand' = [i \in Instances |-> {}]
    /\ clearing' = "idle" /\ relocking' = {} /\ checked' = TRUE
    /\ globalLock' = FirstLock(globalLock)
    /\ UNCHANGED <<app, processed, misfiled, lock, known, counter, kind,
                   minute0, owed, searched>>

-----------------------------------------------------------------------------
Worker(i) == \/ Initialize(i) \/ CheckExpiry(i) \/ Forget(i) \/ Relock(i) \/ Gate(i)
             \/ Select(i) \/ HuntEnds(i) \/ Take(i) \/ MarkFirst(i) \/ MarkThen(i)
             \/ Search(i) \/ Waited(i) \/ CheckHour(i) \/ ZeroFirst(i) \/ Add(i)

Disturbed(i) == StopSeen(i) \/ SearchFails(i) \/ UserForgets(i)

Background == CheckGlobal \/ ClearAll \/ LockAll \/ HourlyReset

Next == \/ \E i \in Instances : \/ Cycle(i) \/ Worker(i) \/ Disturbed(i)
                                \/ UserRelocks(i) \/ LockExpires(i)
        \/ Background \/ UserForgetsAll
        \/ GlobalExpires \/ NewHour \/ MinutePasses \/ Crash

Spec == Init /\ [][Next]_vars

(* The loop begins a cycle of each instance again and again and the threads *)
(* go on; an instance's lock expires and hours pass.  The global lock need  *)
(* not expire: stateful_management_hours may be far longer.                 *)
Fairness ==
    /\ \A i \in Instances : /\ WF_vars(Cycle(i)) /\ WF_vars(Worker(i))
                            /\ WF_vars(UserRelocks(i)) /\ WF_vars(LockExpires(i))
    /\ WF_vars(CheckGlobal \/ ClearAll \/ LockAll)
    /\ WF_vars(HourlyReset) /\ WF_vars(NewHour) /\ WF_vars(MinutePasses)
FairSpec == Spec /\ Fairness

-----------------------------------------------------------------------------
Locks == {"none", "valid", "expired"}
TypeOK ==
    /\ app \in [Instances -> Applications]
    /\ processed \in [Instances -> SUBSET Items]
    /\ misfiled \in [Instances -> SUBSET Items]
    /\ known \in [Instances -> SUBSET Items]
    /\ lock \in [Instances -> Locks] /\ globalLock \in Locks
    /\ hits \in [Instances -> Nat] /\ fresh \in [Instances -> BOOLEAN]
    /\ made \in [Instances -> 0..Cap + 1]
    /\ at \in [Instances -> Places]
    /\ kind \in [Instances -> {"missing", "upgrade"}]
    /\ todo \in [Instances -> SUBSET Items] /\ hand \in [Instances -> SUBSET Items]
    /\ clearing \in {"idle", "clear", "lock"} /\ relocking \subseteq Instances
    /\ checked \in BOOLEAN /\ minute0 \in BOOLEAN /\ owed \in BOOLEAN
    /\ searched \in [Instances -> SUBSET Items]
    /\ faults \in 0..MaxFaults

\* An item that was searched for and is remembered is not searched for again,
\* in either hunt, before the memory is cleared (filter_unprocessed).
NotAgain ==
    \A i \in Instances : at[i] = "search" => hand[i] \intersect known[i] = {}

\* What Radarr and Sonarr remember was searched for: an item whose search
\* could not be triggered is found again by a later cycle.
MarkedWasSearched ==
    \A i \in Instances :
        app[i] \in {"radarr", "sonarr"} => processed[i] \subseteq searched[i]

\* The counter passes hourly_cap by no more than one search, however the cap
\* is checked, counted and reset.
UsageBounded ==
    \A i \in Instances : hits[i] < Cap + MaxCost

\* From one zeroing of its counter to the next an instance makes at most
\* hourly_cap searches.
CapKept ==
    \A i \in Instances : made[i] <= Cap

\* The counter tells the searches made: "so the API bar matches
\* searches/upgrades".
BarMatches ==
    \A i \in Instances :
        /\ hits[i] <= made[i]
        /\ made[i] <= hits[i] + (IF InFlight(i) THEN 1 ELSE 0)

\* Nothing is remembered for ever: whatever is reset, by whom and when, the
\* lock of an instance is there to expire and clear its memory.
MemoryExpires ==
    \A i \in Instances, x \in Items : x \in processed[i] ~> x \notin processed[i]

\* The cap is a pause: no instance is held back for ever.
CapReleases == \A i \in Instances : []<>(~Reached(i))
=============================================================================
