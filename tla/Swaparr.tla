------------------------------ MODULE Swaparr ------------------------------
(***************************************************************************)
(* Swaparr, the strike system of apps/swaparr: run_swaparr walks the       *)
(* download queues of the instances of one *arr application, strikes the   *)
(* downloads that make no progress and removes those with enough strikes.  *)
(* It runs in the Swaparr thread and, for POST /api/swaparr/run, in a      *)
(* request thread, with nothing between the two; POST /api/swaparr/reset   *)
(* clears what they stored meanwhile.  The *arr applications own the       *)
(* queues, and give no id of a queue record twice.                         *)
(*                                                                         *)
(* A download stands for its name and size (generate_item_hash); the id of *)
(* its queue record is the *arr's, unique within an instance.  Of time, a  *)
(* strike entry knows what the code tests: whether it was made longer ago  *)
(* than max_download_time (or max_age_days, for "aged"); a removal is      *)
(* remembered for seven days.                                              *)
(***************************************************************************)
EXTENDS Naturals

CONSTANTS
    Downloads,   \* what may be downloaded
    Instances,   \* the instances of the application with Swaparr on
    Home,        \* the instance a download belongs to
    Ids,         \* queue ids
    Runners,     \* the threads that may execute run_swaparr
    Loop,        \* the Swaparr thread, one of them
    NoItem,      \* no item in hand
    Conditions,  \* the conditions downloads may be in, a subset of AllConditions
    Faults,      \* the faults that may happen, a subset of FaultKinds
    Users,       \* what users do, a subset of UserKinds
    MaxStrikes,  \* the setting max_strikes
    MaxFaults    \* bound on the faults of a behaviour

\* "ignored": too large, or status delay, paused, or queued (strike_queued is
\* off, as by default; switched on, the item is watched like a stalled one);
\* "rejected": status completed, kept in the queue by a failed import;
\* "malicious": malicious, blocked quality or obfuscated and to be deleted;
\* "failed": failed import; "aged": fine, if not for age_based_removal;
\* "healthy": progressing, usenet at 0%, or complete and left alone;
\* "stalled": no progress, or an eta too long; "metadata": stuck on metadata.
AllConditions == {"ignored", "rejected", "malicious", "failed", "aged",
                  "healthy", "stalled", "metadata"}
\* "crash" of the process; "raise": an exception while items are processed;
\* "deny": DELETE fails; "lost": it works and its answer is lost; "page": the
\* queue is fetched in part; "unread", "unsaved": a load or a save of the
\* state fails, which the handler logs and forgets.
FaultKinds == {"crash", "raise", "deny", "lost", "page", "unread", "unsaved"}
UserKinds == {"settings", "reset"}

\* A queue record.
Items == [what : Downloads, id : Ids, cond : Conditions]

ASSUME HomeAssumption == Home \in [Downloads -> Instances]
ASSUME LoopAssumption == Loop \in Runners
ASSUME NoItemAssumption == NoItem \notin Items
ASSUME StrikesAssumption == MaxStrikes \in Nat \ {0}
ASSUME KindsAssumption == /\ Conditions \subseteq AllConditions
                          /\ Faults \subseteq FaultKinds
                          /\ Users \subseteq UserKinds
                          /\ MaxFaults \in Nat

VARIABLES
    enabled, dryRun,  \* settings of Swaparr
    strikes,          \* swaparr_state "strikes", by queue id
    removed,          \* swaparr_state "removed_items" of the last seven days
    forgetting,       \* a reset has its removed items still to clear
    queue,            \* the download queues of the instances
    at,               \* where a runner is
    insts,            \* instances it has not visited yet
    todo,             \* queue_items it has not processed yet
    item,             \* the item in hand
    reason,           \* why it is being removed
    dry,              \* dry_run in the settings the runner works with
    myStrikes,        \* strike_data, the runner's copy
    myRemoved,        \* removed_items, the runner's copy
    \* history
    used,             \* queue ids an instance has given out
    earned,           \* strikes a queued download got, up to MaxStrikes
    gone,             \* removed by Swaparr in the last seven days
    late,             \* of those, what a runner need not have saved yet
    unseen,           \* of those, what its copy of the list may lack
    unsure,           \* of those, what may be forgotten
    faults            \* faults that happened so far

settings == <<enabled, dryRun>>
database == <<strikes, removed, forgetting>>
copies   == <<myStrikes, myRemoved>>
inHand   == <<item, reason>>
removals == <<gone, late, unseen, unsure>>
history  == <<used, earned, removals>>
vars == <<settings, database, queue, at, insts, todo, inHand, dry, copies,
          history, faults>>

\* strikes is counted up to MaxStrikes, the only value it is compared with.
Entries == [strikes : 0..MaxStrikes, first : {"never", "recent", "long"}]
NoEntry == [strikes |-> 0, first |-> "never"]
Nothing == [i \in Ids |-> NoEntry]
Places  == {"idle", "pick", "fetch", "loadStrikes", "loadRemoved", "items",
            "delete", "record", "saveStrikes", "saveRemoved"}
Reasons == {"none", "again", "malicious", "failed", "strikes"}

OneMore(n)  == IF n < MaxStrikes THEN n + 1 ELSE n
Queued(d, i) == \E q \in queue : q.what = d /\ q.id = i
Queue(x)    == {q \in queue : Home[q.what] = x}
Without(d)  == {q \in queue : q.what # d}

Fault(kind) == kind \in Faults /\ faults < MaxFaults /\ faults' = faults + 1
NoFault == faults' = faults

-----------------------------------------------------------------------------
(* Variants for the mutation runs; no action uses them. *)
MoreAlways(r)       == enabled
StruckTwice(e, c)   == [e EXCEPT !.strikes = OneMore(OneMore(@))]
EnoughEarly(e)      == e.strikes + 1 >= MaxStrikes
EnoughNever(e)      == FALSE
RememberOnly(r)     == {item[r].what}
SavedAtOnceFew      == {"malicious"}

\* Whether the run goes on to another instance.
MoreInstances(r) == enabled /\ insts[r] # {}

\* An entry is made the first time an item is examined.
Track(e) == IF e.first = "never" THEN [e EXCEPT !.first = "recent"] ELSE e

\* Metadata is struck at once, no progress after max_download_time.
ToStrike(e, c) == c = "metadata" \/ (c = "stalled" /\ e.first = "long")
Struck(e, c) == IF ToStrike(e, c) THEN [e EXCEPT !.strikes = OneMore(@)] ELSE e

Enough(e) == e.strikes >= MaxStrikes

\* The items for which an entry is made or looked at.
Examined(r, q) == /\ q.what \notin myRemoved[r]
                  /\ q.cond \notin {"ignored", "rejected", "malicious"}

\* Why an item is to be removed; e is its entry with this run's strike.
Verdict(r, q, e) ==
    CASE q.what \in myRemoved[r] -> "again"
      [] q.what \notin myRemoved[r] /\ q.cond = "malicious" -> "malicious"
      [] Examined(r, q) /\ q.cond = "failed" -> "failed"
      [] Examined(r, q) /\ q.cond = "aged" /\ e.first = "long" -> "failed"
      [] Examined(r, q) /\ ToStrike(e, q.cond) /\ Enough(e) -> "strikes"
      [] OTHER -> "none"

\* removed_items with the item that was just deleted.
Remember(r) == myRemoved[r] \union {item[r].what}

Init ==
    /\ enabled = TRUE /\ dryRun = FALSE
    /\ strikes = Nothing /\ removed = {} /\ forgetting = FALSE
    /\ queue = {}
    /\ at = [r \in Runners |-> "idle"]
    /\ insts = [r \in Runners |-> {}]
    /\ todo = [r \in Runners |-> {}]
    /\ item = [r \in Runners |-> NoItem]
    /\ reason = [r \in Runners |-> "none"]
    /\ dry = [r \in Runners |-> FALSE]
    /\ myStrikes = [r \in Runners |-> Nothing]
    /\ myRemoved = [r \in Runners |-> {}]
    /\ used = [x \in Instances |-> {}]
    /\ earned = [d \in Downloads |-> 0]
    /\ gone = {} /\ unsure = {} /\ faults = 0
    /\ late = [r \in Runners |-> {}]
    /\ unseen = [r \in Runners |-> {}]

-----------------------------------------------------------------------------
(* run_swaparr and process_stalled_downloads, in runner r.                 *)

Goto(r, place) == at' = [at EXCEPT ![r] = place]

\* History: the runner is through with the list, and lost may be forgotten.
Through(r, lost) == /\ unsure' = unsure \union lost
                    /\ late' = [late EXCEPT ![r] = {}]
                    /\ unseen' = [unseen EXCEPT ![r] = {}]
                    /\ gone' = gone

\* The local variables of process_stalled_downloads are dropped.
Return(r) == /\ Goto(r, "pick")
             /\ todo' = [todo EXCEPT ![r] = {}]
             /\ item' = [item EXCEPT ![r] = NoItem]
             /\ reason' = [reason EXCEPT ![r] = "none"]
             /\ myStrikes' = [myStrikes EXCEPT ![r] = Nothing]
             /\ myRemoved' = [myRemoved EXCEPT ![r] = {}]

Start(r) ==
    /\ at[r] = "idle" /\ enabled
    /\ insts' = [insts EXCEPT ![r] = Instances]
    /\ Goto(r, "pick")
    /\ UNCHANGED <<settings, database, queue, todo, inHand, dry, copies, history, faults>>

\* The settings are read again before each instance; these are used for it.
PickInstance(r) ==
    /\ at[r] = "pick"
    /\ IF MoreInstances(r)
       THEN /\ Goto(r, "fetch")
            /\ dry' = [dry EXCEPT ![r] = dryRun]
            /\ insts' = insts
       ELSE /\ Goto(r, "idle")
            /\ insts' = [insts EXCEPT ![r] = {}]
            /\ dry' = dry
    /\ UNCHANGED <<settings, database, queue, todo, inHand, copies, history, faults>>

\* A later page may fail: what was fetched is processed.
Fetch(r) ==
    /\ at[r] = "fetch"
    /\ \E x \in insts[r] :
         /\ insts' = [insts EXCEPT ![r] = @ \ {x}]
         /\ \/ todo' = [todo EXCEPT ![r] = IF enabled THEN Queue(x) ELSE {}] /\ NoFault
            \/ /\ enabled /\ Fault("page")
               /\ \E part \in SUBSET Queue(x) : todo' = [todo EXCEPT ![r] = part]
    /\ Goto(r, IF todo'[r] = {} THEN "pick" ELSE "loadStrikes")
    /\ UNCHANGED <<settings, database, queue, inHand, dry, copies, history>>

LoadStrikes(r) ==
    /\ at[r] = "loadStrikes"
    /\ \/ myStrikes' = [myStrikes EXCEPT ![r] = strikes] /\ NoFault
       \/ myStrikes' = myStrikes /\ Fault("unread")
    /\ Goto(r, "loadRemoved")
    /\ UNCHANGED <<settings, database, queue, insts, todo, inHand, dry, myRemoved, history>>

LoadRemoved(r) ==
    /\ at[r] = "loadRemoved"
    /\ \/ /\ myRemoved' = [myRemoved EXCEPT ![r] = removed] /\ NoFault
          /\ unseen' = [unseen EXCEPT ![r] = UNION {late[s] : s \in Runners}]
       \/ /\ myRemoved' = myRemoved /\ Fault("unread")
          /\ unseen' = [unseen EXCEPT ![r] = gone]
    /\ Goto(r, "items")
    /\ UNCHANGED <<settings, database, queue, insts, todo, inHand, dry, myStrikes, used,
                   earned, gone, late, unsure>>

\* One item, up to the decision to delete it.  A strike counts in a dry run.
Item(r) ==
    /\ at[r] = "items"
    /\ \E q \in todo[r] :
        LET tracked == Track(myStrikes[r][q.id])
            struck  == Struck(tracked, q.cond)
            why     == Verdict(r, q, struck)
        IN /\ todo' = [todo EXCEPT ![r] = @ \ {q}]
           /\ myStrikes' = IF Examined(r, q)
                           THEN [myStrikes EXCEPT ![r][q.id] = struck] ELSE myStrikes
           /\ earned' = IF Examined(r, q) /\ ToStrike(tracked, q.cond) /\ Queued(q.what, q.id)
                        THEN [earned EXCEPT ![q.what] = OneMore(@)] ELSE earned
           /\ IF why # "none" /\ ~dry[r]
              THEN /\ item' = [item EXCEPT ![r] = q]
                   /\ reason' = [reason EXCEPT ![r] = why]
                   /\ Goto(r, "delete")
              ELSE UNCHANGED <<item, reason, at>>
    /\ UNCHANGED <<settings, database, queue, insts, dry, myRemoved, used, removals,
                   faults>>

\* All items are processed, or Swaparr was disabled (seen every ten items).
ItemsDone(r) ==
    /\ at[r] = "items" /\ (todo[r] = {} \/ ~enabled)
    /\ todo' = [todo EXCEPT ![r] = {}]
    /\ Goto(r, "saveStrikes")
    /\ UNCHANGED <<settings, database, queue, insts, inHand, dry, copies, history, faults>>

\* An exception ends the instance: nothing of it is saved.
ItemsRaise(r) ==
    /\ at[r] = "items" /\ Fault("raise")
    /\ Return(r) /\ Through(r, late[r])
    /\ UNCHANGED <<settings, database, queue, insts, dry, used, earned>>

\* DELETE of the queue record; a record that is gone is an error too.
Delete(r) ==
    /\ at[r] = "delete"
    /\ LET q == item[r]
           Deleted == queue' = Without(q.what) /\ gone' = gone \union {q.what}
           Failed  == /\ Goto(r, "items")
                      /\ item' = [item EXCEPT ![r] = NoItem]
                      /\ reason' = [reason EXCEPT ![r] = "none"]
       IN \/ /\ Queued(q.what, q.id)
             /\ Deleted /\ NoFault /\ Goto(r, "record")
             /\ late' = [late EXCEPT ![r] = @ \union {q.what}]
             /\ unseen' = [s \in Runners |-> IF s = r THEN unseen[s] \ {q.what}
                                                      ELSE unseen[s] \union {q.what}]
             /\ unsure' = unsure \ {q.what}
             /\ UNCHANGED inHand
          \/ /\ Queued(q.what, q.id) /\ Fault("lost") /\ Deleted /\ Failed
             /\ unsure' = unsure \union {q.what} /\ UNCHANGED <<late, unseen>>
          \/ /\ \/ ~Queued(q.what, q.id) /\ NoFault
                \/ Fault("deny")
             /\ Failed /\ UNCHANGED <<queue, removals>>
    /\ UNCHANGED <<settings, database, insts, todo, dry, copies, used, earned>>

\* Only these removals are saved at once; the others are at the end.
SavedAtOnce == {"malicious", "failed"}

\* History: the list is stored now, if it has to be for such a removal; what
\* the copy lacks is overwritten.
Stored(r) == /\ late' = [late EXCEPT ![r] = {}]
             /\ unsure' = unsure \union unseen[r]
             /\ UNCHANGED <<gone, unseen>>
ToStore(r) == IF reason[r] \in {"malicious", "failed"} THEN Stored(r)
                                                       ELSE UNCHANGED removals

Record(r) ==
    /\ at[r] = "record"
    /\ myRemoved' = [myRemoved EXCEPT ![r] = Remember(r)]
    /\ \/ /\ reason[r] \in SavedAtOnce
          /\ \/ removed' = Remember(r) /\ NoFault /\ ToStore(r)
             \/ removed' = removed /\ Fault("unsaved") /\ UNCHANGED removals
       \/ reason[r] \notin SavedAtOnce /\ removed' = removed /\ NoFault /\ ToStore(r)
    /\ item' = [item EXCEPT ![r] = NoItem]
    /\ reason' = [reason EXCEPT ![r] = "none"]
    /\ Goto(r, "items")
    /\ UNCHANGED <<settings, strikes, forgetting, queue, insts, todo, dry, myStrikes, used,
                   earned>>

SaveStrikes(r) ==
    /\ at[r] = "saveStrikes"
    /\ \/ strikes' = myStrikes[r] /\ NoFault
       \/ strikes' = strikes /\ Fault("unsaved")
    /\ Goto(r, "saveRemoved")
    /\ UNCHANGED <<settings, removed, forgetting, queue, insts, todo, inHand, dry, copies, history>>

SaveRemoved(r) ==
    /\ at[r] = "saveRemoved"
    /\ \/ removed' = myRemoved[r] /\ NoFault /\ Through(r, unseen[r])
       \/ removed' = removed /\ Fault("unsaved") /\ Through(r, late[r])
    /\ Return(r)
    /\ UNCHANGED <<settings, strikes, forgetting, queue, insts, dry, used, earned>>

-----------------------------------------------------------------------------
(* The *arr applications, time, the users and the process.                 *)

Arrive(d, i, c) ==
    /\ \A q \in queue : q.what # d
    /\ i \notin used[Home[d]]
    /\ queue' = queue \union {[what |-> d, id |-> i, cond |-> c]}
    /\ used' = [used EXCEPT ![Home[d]] = @ \union {i}]
    /\ earned' = [earned EXCEPT ![d] = 0]
    /\ UNCHANGED <<settings, database, at, insts, todo, inHand, dry, copies, removals,
                   faults>>

\* It is finished, or a user removes it.
Leave(d) ==
    /\ \E q \in queue : q.what = d
    /\ queue' = Without(d)
    /\ UNCHANGED <<settings, database, at, insts, todo, inHand, dry, copies, history, faults>>

Change(d, c) ==
    /\ \E q \in queue : q.what = d /\ q.cond # c
    /\ queue' = {IF q.what = d THEN [q EXCEPT !.cond = c] ELSE q : q \in queue}
    /\ UNCHANGED <<settings, database, at, insts, todo, inHand, dry, copies, history, faults>>

\* The entry of i is older than max_download_time from now on.
Aged(e) == IF e.first = "recent" THEN [e EXCEPT !.first = "long"] ELSE e
TimePasses(i) ==
    /\ \/ strikes[i].first = "recent"
       \/ \E r \in Runners : myStrikes[r][i].first = "recent"
    /\ strikes' = [strikes EXCEPT ![i] = Aged(@)]
    /\ myStrikes' = [r \in Runners |-> [myStrikes[r] EXCEPT ![i] = Aged(@)]]
    /\ UNCHANGED <<settings, removed, forgetting, queue, at, insts, todo, inHand, dry,
                   myRemoved, history, faults>>

\* The removal of d is seven days ago.
WeekPasses(d) ==
    /\ d \in gone \union removed
    /\ removed' = removed \ {d}
    /\ myRemoved' = [r \in Runners |-> myRemoved[r] \ {d}]
    /\ gone' = gone \ {d} /\ unsure' = unsure \ {d}
    /\ late' = [r \in Runners |-> late[r] \ {d}]
    /\ unseen' = [r \in Runners |-> unseen[r] \ {d}]
    /\ UNCHANGED <<settings, strikes, forgetting, queue, at, insts, todo, inHand, dry,
                   myStrikes, used, earned, faults>>

ChangeSettings ==
    /\ "settings" \in Users
    /\ \/ enabled' = ~enabled /\ dryRun' = dryRun
       \/ dryRun' = ~dryRun /\ enabled' = enabled
    /\ UNCHANGED <<database, queue, at, insts, todo, inHand, dry, copies, history, faults>>

\* reset_strikes, two writes; after it no download has a strike.
ResetStrikes(resetRemoved) ==
    /\ "reset" \in Users /\ ~forgetting
    /\ strikes' = Nothing
    /\ earned' = [d \in Downloads |-> 0]
    /\ forgetting' = resetRemoved
    /\ UNCHANGED <<settings, removed, queue, at, insts, todo, inHand, dry, copies,
                   used, removals, faults>>

ResetRemoved ==
    /\ forgetting
    /\ removed' = {} /\ gone' = {} /\ unsure' = {} /\ forgetting' = FALSE
    /\ late' = [r \in Runners |-> {}] /\ unseen' = [r \in Runners |-> {}]
    /\ UNCHANGED <<settings, strikes, queue, at, insts, todo, inHand, dry, copies,
                   used, earned, faults>>

\* The process dies and starts again.
Crash ==
    /\ Fault("crash")
    /\ at' = [r \in Runners |-> "idle"]
    /\ insts' = [r \in Runners |-> {}]
    /\ todo' = [r \in Runners |-> {}]
    /\ item' = [r \in Runners |-> NoItem]
    /\ reason' = [r \in Runners |-> "none"]
    /\ dry' = [r \in Runners |-> FALSE]
    /\ myStrikes' = [r \in Runners |-> Nothing]
    /\ myRemoved' = [r \in Runners |-> {}]
    /\ forgetting' = FALSE
    /\ unsure' = unsure \union UNION {late[r] : r \in Runners}
    /\ late' = [r \in Runners |-> {}] /\ unseen' = [r \in Runners |-> {}]
    /\ UNCHANGED <<settings, strikes, removed, queue, used, earned, gone>>

Step(r) == \/ PickInstance(r) \/ Fetch(r) \/ LoadStrikes(r) \/ LoadRemoved(r)
           \/ Item(r) \/ ItemsDone(r) \/ ItemsRaise(r) \/ Delete(r) \/ Record(r)
           \/ SaveStrikes(r) \/ SaveRemoved(r)
World   == \/ \E d \in Downloads : Leave(d) \/ WeekPasses(d)
           \/ \E d \in Downloads, c \in Conditions : Change(d, c)
           \/ \E d \in Downloads, i \in Ids, c \in Conditions : Arrive(d, i, c)
           \/ \E i \in Ids : TimePasses(i)
UserActs == \/ ChangeSettings
            \/ \E also \in BOOLEAN : ResetStrikes(also)
            \/ ResetRemoved
Next == (\E r \in Runners : Start(r) \/ Step(r)) \/ World \/ UserActs \/ Crash

Spec == Init /\ [][Next]_vars

(* The loop starts a run every sleep_duration, a run that has started goes *)
(* on (its requests time out), and time passes.  Nothing is asked of the   *)
(* applications, of users or of manual runs that were not made.            *)
Fairness == /\ WF_vars(Start(Loop))
            /\ \A r \in Runners : WF_vars(Step(r))
            /\ \A i \in Ids : WF_vars(TimePasses(i))
FairSpec == Spec /\ Fairness

-----------------------------------------------------------------------------
TypeOK ==
    /\ enabled \in BOOLEAN /\ dryRun \in BOOLEAN /\ forgetting \in BOOLEAN
    /\ strikes \in [Ids -> Entries] /\ removed \subseteq Downloads
    /\ queue \subseteq Items
    /\ at \in [Runners -> Places]
    /\ insts \in [Runners -> SUBSET Instances]
    /\ todo \in [Runners -> SUBSET Items]
    /\ item \in [Runners -> Items \union {NoItem}]
    /\ reason \in [Runners -> Reasons]
    /\ dry \in [Runners -> BOOLEAN]
    /\ myStrikes \in [Runners -> [Ids -> Entries]]
    /\ myRemoved \in [Runners -> SUBSET Downloads]
    /\ used \in [Instances -> SUBSET Ids]
    /\ earned \in [Downloads -> 0..MaxStrikes]
    /\ gone \subseteq Downloads /\ unsure \subseteq Downloads
    /\ late \in [Runners -> SUBSET Downloads]
    /\ unseen \in [Runners -> SUBSET Downloads]
    /\ faults \in 0..MaxFaults
    /\ \A r \in Runners : /\ at[r] \in {"delete", "record"} => item[r] \in Items
                          /\ at[r] = "fetch" => insts[r] # {}

\* No queued download has more strikes in the database than it was given
\* since it was queued or a user reset them: whatever runs overlap, fail or
\* die, the entry of its queue id is its own (generate_item_hash, load and
\* save of strike_data).
StrikesEarned ==
    \A q \in queue : strikes[q.id].strikes <= earned[q.what]

\* A download is deleted for its strikes only after max_strikes of them.
NoEarlyRemoval ==
    \A r \in Runners :
        at[r] = "delete" /\ reason[r] = "strikes" /\ Queued(item[r].what, item[r].id)
            => earned[item[r].what] = MaxStrikes

\* What Swaparr removed in the last seven days is on the stored list of
\* removed items, or a run that still has to save the list knows it.  Only
\* these may be forgotten: a removal whose run ended by an exception, a crash
\* or a failed save before the list was saved, unless it was malicious or
\* failed and saved at once; one whose DELETE seemed to fail; and one that a
\* run which had loaded the list earlier overwrote (load_removed_items and
\* save_removed_items, with nothing between the loop and a manual run).
RemovedRemembered ==
    \A d \in gone \ unsure :
        \/ d \in removed
        \/ \E r \in Runners : \/ d \in myRemoved[r]
                              \/ at[r] = "record" /\ item[r].what = d

\* Swaparr keeps its promise to whoever leaves it on and no longer resets its
\* strikes: no download stays stalled in the queue for ever.
StaysQueued(d, c) == \E q \in queue : q.what = d /\ q.cond = c
StalledRemoved ==
    <>[](enabled /\ ~dryRun) /\ <>[][\A also \in BOOLEAN : ~ResetStrikes(also)]_vars =>
        \A d \in Downloads : ~<>[](StaysQueued(d, "stalled"))
=============================================================================
