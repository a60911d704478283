--------------------------- MODULE Swaparr_proofs ---------------------------
(***************************************************************************)
(* TypeOK of Swaparr for every value of the constants; and, for one        *)
(* instance without resets, whatever runs overlap and whatever fails, that *)
(* no queued download has strikes it was not given and none is deleted for *)
(* strikes before max_strikes of them; and, for any runs and faults, which  *)
(* removals are remembered.                                                *)
(***************************************************************************)
EXTENDS Swaparr, TLAPS

LEMMA NoStrikes == NoEntry \in Entries /\ Nothing \in [Ids -> Entries]
BY StrikesAssumption DEF StrikesAssumption, NoEntry, Nothing, Entries

LEMMA ItemFields ==
    ASSUME NEW q \in Items
    PROVE  q.what \in Downloads /\ q.id \in Ids /\ q.cond \in Conditions
BY DEF Items

LEMMA ChangedItem ==
    ASSUME NEW q \in Items, NEW c \in Conditions
    PROVE  [q EXCEPT !.cond = c] \in Items
BY DEF Items

\* What examining an item does to its entry.
LEMMA EntrySteps ==
    ASSUME NEW e \in Entries, NEW c
    PROVE  /\ Track(e) \in Entries /\ Track(e).strikes = e.strikes
           /\ Struck(e, c) \in Entries
           /\ Struck(e, c).strikes = IF ToStrike(e, c) THEN OneMore(e.strikes) ELSE e.strikes
           /\ Aged(e) \in Entries /\ Aged(e).strikes = e.strikes
<1>1. OneMore(e.strikes) \in 0..MaxStrikes
  BY StrikesAssumption DEF OneMore, StrikesAssumption, Entries
<1> QED BY <1>1 DEF Track, Struck, Aged, Entries

LEMMA CountsUp ==
    ASSUME NEW m \in 0..MaxStrikes, NEW n \in 0..MaxStrikes, m <= n
    PROVE  OneMore(m) <= OneMore(n) /\ m <= OneMore(n) /\ OneMore(n) \in 0..MaxStrikes
BY StrikesAssumption DEF OneMore, StrikesAssumption

LEMMA VerdictType ==
    ASSUME NEW r, NEW q, NEW e
    PROVE  Verdict(r, q, e) \in Reasons
BY DEF Verdict, Reasons

LEMMA FaultBounded ==
    ASSUME faults \in 0..MaxFaults, NEW kind, Fault(kind) \/ NoFault
    PROVE  faults' \in 0..MaxFaults
BY KindsAssumption DEF KindsAssumption, Fault, NoFault

\* The variables hold values of their types (the state of run_swaparr, the
\* two swaparr_state rows and the queues), and an item is in hand whenever
\* one is being deleted or recorded.
THEOREM TypeCorrect == Spec => []TypeOK
<1>1. Init => TypeOK
  <2> SUFFICES ASSUME Init PROVE TypeOK
    OBVIOUS
  <2>1. earned \in [Downloads -> 0..MaxStrikes] /\ faults \in 0..MaxFaults
    BY StrikesAssumption, KindsAssumption DEF Init, StrikesAssumption, KindsAssumption
  <2>2. strikes \in [Ids -> Entries] /\ myStrikes \in [Runners -> [Ids -> Entries]]
    BY NoStrikes DEF Init
  <2> QED BY <2>1, <2>2 DEF Init, TypeOK, Places, Reasons
<1>2. TypeOK /\ [Next]_vars => TypeOK'
  <2> SUFFICES ASSUME TypeOK, [Next]_vars PROVE TypeOK'
    OBVIOUS
  <2> USE DEF TypeOK, settings, database, copies, inHand, history, removals, Places
  <2>1. ASSUME NEW r \in Runners, Start(r) PROVE TypeOK'
    BY <2>1 DEF Start, Goto
  <2>2. ASSUME NEW r \in Runners, PickInstance(r) PROVE TypeOK'
    BY <2>2 DEF PickInstance, MoreInstances, Goto
  <2>3. ASSUME NEW r \in Runners, Fetch(r) PROVE TypeOK'
    <3>1. faults' \in 0..MaxFaults
      BY <2>3, FaultBounded DEF Fetch
    <3> QED BY <2>3, <3>1 DEF Fetch, Goto, Queue
  <2>4. ASSUME NEW r \in Runners, LoadStrikes(r) PROVE TypeOK'
    <3>1. faults' \in 0..MaxFaults
      BY <2>4, FaultBounded DEF LoadStrikes
    <3> QED BY <2>4, <3>1 DEF LoadStrikes, Goto
  <2>5. ASSUME NEW r \in Runners, LoadRemoved(r) PROVE TypeOK'
    <3>1. faults' \in 0..MaxFaults
      BY <2>5, FaultBounded DEF LoadRemoved
    <3>2. UNION {late[s] : s \in Runners} \in SUBSET Downloads
      OBVIOUS
    <3>3. unseen' \in [Runners -> SUBSET Downloads]
      BY <2>5, <3>2 DEF LoadRemoved
    <3>4. myRemoved' \in [Runners -> SUBSET Downloads] /\ at' \in [Runners -> Places]
      BY <2>5 DEF LoadRemoved, Goto
    <3> QED BY <2>5, <3>1, <3>3, <3>4 DEF LoadRemoved, Goto
  <2>6. ASSUME NEW r \in Runners, Item(r) PROVE TypeOK'
    <3>1. PICK q \in todo[r] :
            LET tracked == Track(myStrikes[r][q.id])
                struck  == Struck(tracked, q.cond)
                why     == Verdict(r, q, struck)
            IN /\ todo' = [todo EXCEPT ![r] = @ \ {q}]
               /\ myStrikes' = IF Examined(r, q)
                               THEN [myStrikes EXCEPT ![r][q.id] = struck] ELSE myStrikes
               /\ earned' = IF Examined(r, q) /\ ToStrike(tracked, q.cond) /\ Queued(q.what, q.id)
                            THEN [earned EXCEPT ![q.what] = OneMore(@)] ELSE earned
               /\ IF why # "none" /\ ~dry[r]
                  THEN /\ item' = [item EXCEPT ![r] = q]
                       /\ reason' = [reason EXCEPT ![r] = why]
                       /\ Goto(r, "delete")
                  ELSE UNCHANGED <<item, reason, at>>
      BY <2>6 DEF Item
    <3> DEFINE tracked == Track(myStrikes[r][q.id])
               struck  == Struck(tracked, q.cond)
    <3>2. q \in Items /\ q.id \in Ids /\ q.what \in Downloads
      BY <2>6, <3>1, ItemFields DEF Item
    <3>3. struck \in Entries
      <4>1. myStrikes[r][q.id] \in Entries
        BY <3>2
      <4>2. tracked \in Entries
        BY <4>1, EntrySteps
      <4> HIDE DEF tracked
      <4> QED BY <4>2, EntrySteps
    <3>4. Verdict(r, q, struck) \in Reasons
      BY VerdictType
    <3>5. myStrikes' \in [Runners -> [Ids -> Entries]]
      <4> HIDE DEF struck
      <4> QED BY <3>1, <3>2, <3>3 DEF struck
    <3>6. earned' \in [Downloads -> 0..MaxStrikes]
      <4>1. OneMore(earned[q.what]) \in 0..MaxStrikes
        BY <3>2, StrikesAssumption DEF OneMore, StrikesAssumption
      <4> QED BY <3>1, <3>2, <4>1
    <3>7. todo' \in [Runners -> SUBSET Items] /\ insts' = insts
      BY <2>6, <3>1 DEF Item
    <3>8. /\ item' \in [Runners -> Items \union {NoItem}]
          /\ reason' \in [Runners -> Reasons]
          /\ at' \in [Runners -> Places]
          /\ \A s \in Runners : /\ at'[s] \in {"delete", "record"} => item'[s] \in Items
                                /\ at'[s] = "fetch" => insts'[s] # {}
      <4>1. CASE item' = item /\ reason' = reason /\ at' = at
        BY <4>1, <3>7
      <4>2. CASE /\ item' = [item EXCEPT ![r] = q]
                 /\ reason' = [reason EXCEPT ![r] = Verdict(r, q, struck)]
                 /\ at' = [at EXCEPT ![r] = "delete"]
        BY <4>2, <3>1, <3>4, <3>7
      <4> QED BY <3>1, <4>1, <4>2 DEF Goto
    <3> QED BY <2>6, <3>5, <3>6, <3>7, <3>8 DEF Item
  <2>7. ASSUME NEW r \in Runners, ItemsDone(r) PROVE TypeOK'
    BY <2>7 DEF ItemsDone, Goto
  <2>8. ASSUME NEW r \in Runners, ItemsRaise(r) PROVE TypeOK'
    <3>1. faults' \in 0..MaxFaults
      BY <2>8, FaultBounded DEF ItemsRaise
    <3> QED BY <2>8, <3>1, NoStrikes DEF Reasons, ItemsRaise, Through, Return, Goto
  <2>9. ASSUME NEW r \in Runners, Delete(r) PROVE TypeOK'
    <3>1. faults' \in 0..MaxFaults
      BY <2>9, FaultBounded DEF Delete
    <3>2. item[r] \in Items
      BY <2>9 DEF Delete
    <3>3. item[r].what \in Downloads
      BY <3>2, ItemFields
    <3>4. /\ gone' \subseteq Downloads /\ unsure' \subseteq Downloads
          /\ late' \in [Runners -> SUBSET Downloads]
      BY <2>9, <3>3 DEF Delete
    <3>7. unseen' \in [Runners -> SUBSET Downloads]
      BY <2>9, <3>3 DEF Delete
    <3>5. queue' \subseteq Items /\ at' \in [Runners -> Places]
      BY <2>9 DEF Delete, Without, Goto
    <3>6. /\ item' \in [Runners -> Items \union {NoItem}]
          /\ reason' \in [Runners -> Reasons]
          /\ \A s \in Runners : at'[s] \in {"delete", "record"} => item'[s] \in Items
      BY <2>9, <3>2 DEF Delete, Goto, Reasons
    <3> QED BY <2>9, <3>1, <3>4, <3>5, <3>6, <3>7 DEF Delete, Goto
  <2>10. ASSUME NEW r \in Runners, Record(r) PROVE TypeOK'
    <3>1. faults' \in 0..MaxFaults
      BY <2>10, FaultBounded DEF Record
    <3>2. Remember(r) \subseteq Downloads
      BY <2>10, ItemFields DEF Record, Remember
    <3> QED BY <2>10, <3>1, <3>2 DEF Record, ToStore, Stored, Goto, Reasons
  <2>11. ASSUME NEW r \in Runners, SaveStrikes(r) PROVE TypeOK'
    <3>1. faults' \in 0..MaxFaults
      BY <2>11, FaultBounded DEF SaveStrikes
    <3> QED BY <2>11, <3>1 DEF SaveStrikes, Goto
  <2>12. ASSUME NEW r \in Runners, SaveRemoved(r) PROVE TypeOK'
    <3>1. faults' \in 0..MaxFaults
      BY <2>12, FaultBounded DEF SaveRemoved
    <3> QED BY <2>12, <3>1, NoStrikes DEF Reasons, SaveRemoved, Through, Return, Goto
  <2>13. ASSUME NEW d \in Downloads, Leave(d) \/ WeekPasses(d) PROVE TypeOK'
    BY <2>13 DEF Leave, WeekPasses, Without
  <2>14. ASSUME NEW d \in Downloads, NEW c \in Conditions, Change(d, c) PROVE TypeOK'
    <3>1. \A q \in Items : [q EXCEPT !.cond = c] \in Items
      BY ChangedItem
    <3> QED BY <2>14, <3>1 DEF Change
  <2>15. ASSUME NEW d \in Downloads, NEW i \in Ids, NEW c \in Conditions, Arrive(d, i, c)
         PROVE TypeOK'
    <3>1. [what |-> d, id |-> i, cond |-> c] \in Items
      BY DEF Items
    <3>2. 0 \in 0..MaxStrikes
      BY StrikesAssumption DEF StrikesAssumption
    <3> QED BY <2>15, <3>1, <3>2 DEF Arrive
  <2>16. ASSUME NEW i \in Ids, TimePasses(i) PROVE TypeOK'
    <3>1. /\ Aged(strikes[i]) \in Entries
          /\ \A r \in Runners : Aged(myStrikes[r][i]) \in Entries
      BY EntrySteps
    <3> QED BY <2>16, <3>1 DEF TimePasses
  <2>17. ASSUME UserActs PROVE TypeOK'
    <3>1. 0 \in 0..MaxStrikes
      BY StrikesAssumption DEF StrikesAssumption
    <3>2. CASE ChangeSettings
      BY <3>2 DEF ChangeSettings
    <3>3. ASSUME NEW also \in BOOLEAN, ResetStrikes(also) PROVE TypeOK'
      BY <3>1, <3>3, NoStrikes DEF ResetStrikes
    <3>4. CASE ResetRemoved
      BY <3>4 DEF ResetRemoved
    <3> QED BY <2>17, <3>2, <3>3, <3>4 DEF UserActs
  <2>18. ASSUME Crash PROVE TypeOK'
    <3>1. faults' \in 0..MaxFaults
      BY <2>18, FaultBounded DEF Crash
    <3>2. UNION {late[s] : s \in Runners} \in SUBSET Downloads
      OBVIOUS
    <3>3. unsure' \subseteq Downloads
      BY <2>18, <3>2 DEF Crash
    <3>4. /\ myStrikes' \in [Runners -> [Ids -> Entries]]
          /\ reason' \in [Runners -> Reasons] /\ at' \in [Runners -> Places]
      BY <2>18, NoStrikes DEF Crash, Reasons
    <3> QED BY <2>18, <3>1, <3>3, <3>4 DEF Crash
  <2>19. CASE UNCHANGED vars
    BY <2>19 DEF vars
  <2> QED
    BY <2>1, <2>2, <2>3, <2>4, <2>5, <2>6, <2>7, <2>8, <2>9, <2>10, <2>11, <2>12,
       <2>13, <2>14, <2>15, <2>16, <2>17, <2>18, <2>19
    DEF Next, Step, World
<1> QED BY <1>1, <1>2, PTL DEF Spec
-----------------------------------------------------------------------------
(* The inductive invariant behind StrikesEarned and NoEarlyRemoval, of one *)
(* instance: ids are not reused, so whatever is counted under an id, in    *)
(* the database or in a run's copy, was counted for one download.          *)
IdsUsed ==
    /\ \A q \in queue : q.id \in used[Home[q.what]]
    /\ \A r \in Runners, q \in Items :
           q \in todo[r] \/ item[r] = q => q.id \in used[Home[q.what]]
OneOwner ==
    /\ \A p, q \in queue : p.id = q.id => p.what = q.what
    /\ \A r \in Runners, p \in queue, q \in Items :
           (q \in todo[r] \/ item[r] = q) /\ p.id = q.id => p.what = q.what
NewUnstruck ==
    \A i \in Ids : (\A x \in Instances : i \notin used[x]) =>
        strikes[i].strikes = 0 /\ \A r \in Runners : myStrikes[r][i].strikes = 0
CopiesEarned ==
    \A r \in Runners, q \in queue : myStrikes[r][q.id].strikes <= earned[q.what]

\* The invariant, apart from TypeOK.  Most steps count no strike and queue no
\* download: they only move counts and items around, and every moved one was
\* covered before.
Owned == /\ IdsUsed /\ OneOwner /\ NewUnstruck
         /\ StrikesEarned /\ CopiesEarned /\ NoEarlyRemoval

Known(i) == {0, strikes[i].strikes} \union {myStrikes[r][i].strikes : r \in Runners}
SameRecord(p, q) == p.what = q.what /\ p.id = q.id

LEMMA MovesKeep ==
    ASSUME TypeOK, TypeOK', Owned, used' = used, earned' = earned,
           \A q \in queue' : \E p \in queue : SameRecord(p, q),
           \A r \in Runners : \A q \in todo'[r] : q \in todo[r] \/ q \in queue,
           \A r \in Runners : item'[r] = item[r] \/ item'[r] = NoItem,
           \A i \in Ids : strikes'[i].strikes \in Known(i),
           \A i \in Ids, r \in Runners : myStrikes'[r][i].strikes \in Known(i),
           \A r \in Runners : at'[r] = "delete" =>
               at[r] = "delete" /\ reason'[r] = reason[r] /\ item'[r] = item[r]
    PROVE  Owned'
<1> USE DEF Owned, SameRecord
<1>1. \A q \in queue' : q \in Items /\ q.what \in Downloads /\ q.id \in Ids
  BY ItemFields DEF TypeOK
<1>2. \A q \in queue : q \in Items /\ q.what \in Downloads /\ q.id \in Ids
  BY ItemFields DEF TypeOK
<1>3. IdsUsed'
  BY <1>1, <1>2, NoItemAssumption DEF IdsUsed, NoItemAssumption
<1>4. OneOwner'
  BY <1>1, <1>2, NoItemAssumption DEF OneOwner, NoItemAssumption
<1>5. NewUnstruck'
  BY DEF NewUnstruck, Known
<1>6. \A q \in queue : \A n \in Known(q.id) : n <= earned[q.what]
  <2>1. \A d \in Downloads : earned[d] >= 0
    BY DEF TypeOK
  <2> QED BY <1>2, <2>1 DEF Known, StrikesEarned, CopiesEarned
<1>7. \A q \in queue' : \A n \in Known(q.id) : n <= earned[q.what]
  BY <1>1, <1>6
<1>8. StrikesEarned' /\ CopiesEarned'
  BY <1>1, <1>7 DEF StrikesEarned, CopiesEarned
<1>9. NoEarlyRemoval'
  BY DEF NoEarlyRemoval, Queued
<1> QED BY <1>3, <1>4, <1>5, <1>8, <1>9
\* A strike is counted in the copy and, if the download is still queued,
\* for the download: the only one with that id.
LEMMA ItemKeeps ==
    ASSUME TypeOK, TypeOK', Owned, NEW r \in Runners, Item(r)
    PROVE  Owned'
<1> USE DEF Owned
<1>1. PICK q \in todo[r] :
        LET tracked == Track(myStrikes[r][q.id])
            struck  == Struck(tracked, q.cond)
            why     == Verdict(r, q, struck)
        IN /\ todo' = [todo EXCEPT ![r] = @ \ {q}]
           /\ myStrikes' = IF Examined(r, q)
                           THEN [myStrikes EXCEPT ![r][q.id] = struck] ELSE myStrikes
           /\ earned' = IF Examined(r, q) /\ ToStrike(tracked, q.cond) /\ Queued(q.what, q.id)
                        THEN [earned EXCEPT ![q.what] = OneMore(@)] ELSE earned
           /\ IF why # "none" /\ ~dry[r]
              THEN /\ item' = [item EXCEPT ![r] = q]
                   /\ reason' = [reason EXCEPT ![r] = why]
                   /\ Goto(r, "delete")
              ELSE UNCHANGED <<item, reason, at>>
  BY DEF Item
<1> DEFINE tracked == Track(myStrikes[r][q.id])
           struck  == Struck(tracked, q.cond)
           why     == Verdict(r, q, struck)
           counted == Examined(r, q) /\ ToStrike(tracked, q.cond)
<1>2. q \in Items /\ q.id \in Ids /\ q.what \in Downloads
  BY <1>1, ItemFields DEF TypeOK
<1>3. /\ UNCHANGED <<queue, used, strikes>>
      /\ \A p \in queue : p \in Items /\ p.id \in Ids /\ p.what \in Downloads
  BY ItemFields DEF Item, TypeOK, database
<1>4. /\ struck \in Entries /\ tracked.strikes = myStrikes[r][q.id].strikes
      /\ struck.strikes = IF ToStrike(tracked, q.cond)
                          THEN OneMore(myStrikes[r][q.id].strikes)
                          ELSE myStrikes[r][q.id].strikes
  BY <1>2, EntrySteps DEF TypeOK
<1>5. /\ \A s \in Runners, i \in Ids :
             myStrikes'[s][i].strikes =
                 IF s = r /\ i = q.id /\ counted THEN OneMore(myStrikes[s][i].strikes)
                                                ELSE myStrikes[s][i].strikes
      /\ \A d \in Downloads :
             earned'[d] = IF d = q.what /\ counted /\ Queued(q.what, q.id)
                          THEN OneMore(earned[d]) ELSE earned[d]
  <2> HIDE DEF struck, tracked
  <2> QED BY <1>1, <1>2, <1>4 DEF TypeOK, struck, tracked
<1>6. IdsUsed'
  BY <1>1, <1>2, <1>3 DEF IdsUsed, TypeOK
<1>7. OneOwner'
  BY <1>1, <1>2, <1>3 DEF OneOwner, TypeOK
<1>8. NewUnstruck'
  <2>1. q.id \in used[Home[q.what]] /\ Home[q.what] \in Instances
    BY <1>1, <1>2, HomeAssumption DEF IdsUsed, HomeAssumption
  <2> QED BY <1>3, <1>5, <2>1 DEF NewUnstruck
<1>9. \A d \in Downloads : earned[d] <= earned'[d]
  <2> SUFFICES ASSUME NEW d \in Downloads PROVE earned[d] <= earned'[d]
    OBVIOUS
  <2>1. earned[d] \in 0..MaxStrikes /\ earned[d] <= earned[d]
    BY DEF TypeOK
  <2>2. earned[d] <= OneMore(earned[d])
    BY <2>1, CountsUp
  <2> QED BY <1>5, <2>1, <2>2
<1>10. StrikesEarned'
  <2>1. \A p \in queue : strikes[p.id].strikes \in Nat /\ earned[p.what] \in Nat
                            /\ earned'[p.what] \in Nat
    BY <1>3, StrikesAssumption DEF TypeOK, Entries, StrikesAssumption
  <2>2. \A p \in queue : earned[p.what] <= earned'[p.what]
    BY <1>3, <1>9
  <2> QED BY <1>3, <2>1, <2>2 DEF StrikesEarned
<1>11. CopiesEarned'
  <2> SUFFICES ASSUME NEW s \in Runners, NEW p \in queue
               PROVE  myStrikes'[s][p.id].strikes <= earned'[p.what]
    BY <1>3 DEF CopiesEarned
  <2>1. /\ myStrikes[s][p.id].strikes \in 0..MaxStrikes
        /\ earned[p.what] \in 0..MaxStrikes
        /\ myStrikes[s][p.id].strikes <= earned[p.what]
    BY <1>3 DEF TypeOK, Entries, CopiesEarned
  <2>2. CASE s = r /\ p.id = q.id /\ counted
    <3>1. p.what = q.what /\ Queued(q.what, q.id)
      BY <1>1, <1>2, <2>2 DEF OneOwner, Queued
    <3> QED BY <1>3, <1>5, <2>1, <2>2, <3>1, CountsUp
  <2>3. CASE ~(s = r /\ p.id = q.id /\ counted)
    BY <1>3, <1>5, <2>1, <2>3, CountsUp
  <2> QED BY <2>2, <2>3
<1>12. NoEarlyRemoval'
  <2> SUFFICES ASSUME NEW s \in Runners, at'[s] = "delete", reason'[s] = "strikes",
                      Queued(item'[s].what, item'[s].id)
               PROVE  earned'[item'[s].what] = MaxStrikes
    BY <1>3 DEF NoEarlyRemoval, Queued
  <2>1. item'[s] \in Items /\ item'[s].what \in Downloads /\ item'[s].id \in Ids
    BY ItemFields DEF TypeOK
  <2>2. earned'[item'[s].what] \in 0..MaxStrikes
    BY <2>1 DEF TypeOK
  <2>3. CASE at[s] = "delete" /\ reason'[s] = reason[s] /\ item'[s] = item[s]
    <3>1. earned[item[s].what] = MaxStrikes
      BY <2>3 DEF NoEarlyRemoval
    <3> QED BY <1>9, <2>1, <2>2, <2>3, <3>1, StrikesAssumption DEF StrikesAssumption
  <2>4. CASE s = r /\ item'[s] = q /\ why = "strikes"
    <3>1. counted /\ struck.strikes >= MaxStrikes
      BY <2>4, <1>4 DEF Verdict, Enough, ToStrike, Struck, Track
    <3>2. myStrikes'[r][q.id].strikes <= earned'[q.what]
      BY <1>3, <1>11, <2>4 DEF CopiesEarned, Queued
    <3>3. myStrikes'[r][q.id].strikes = struck.strikes
      BY <1>2, <1>4, <1>5, <3>1
    <3>4. struck.strikes \in 0..MaxStrikes
      BY <1>4 DEF Entries
    <3> QED BY <2>2, <2>4, <3>1, <3>2, <3>3, <3>4, StrikesAssumption DEF StrikesAssumption
  <2> QED BY <1>1, <2>3, <2>4 DEF Goto, TypeOK
<1> QED BY <1>6, <1>7, <1>8, <1>10, <1>11, <1>12
\* A new download comes with an id that nothing is counted under.
LEMMA ArriveKeeps ==
    ASSUME TypeOK, TypeOK', Owned, NEW x, Instances = {x},
           NEW d \in Downloads, NEW i \in Ids, NEW c \in Conditions, Arrive(d, i, c)
    PROVE  Owned'
<1> USE DEF Owned
<1> DEFINE new == [what |-> d, id |-> i, cond |-> c]
<1>1. /\ \A p \in queue : p \in Items /\ p.id \in Ids /\ p.what \in Downloads /\ p.what # d
      /\ \A e \in Downloads : Home[e] = x
      /\ new.what = d /\ new.id = i /\ queue' = queue \union {new}
      /\ UNCHANGED <<at, todo, item, reason, strikes, myStrikes>>
  BY ItemFields, HomeAssumption
  DEF Arrive, TypeOK, HomeAssumption, inHand, database, copies
<1>2. /\ i \notin used[x] /\ used'[x] = used[x] \union {i}
      /\ \A e \in Downloads : earned'[e] = IF e = d THEN 0 ELSE earned[e]
  BY <1>1 DEF Arrive, TypeOK
<1> HIDE DEF new
<1>3. \A r \in Runners, q \in Items : q \in todo[r] \/ item[r] = q => q.id \in used[x]
  BY <1>1, ItemFields DEF IdsUsed
<1>4. \A p \in queue : p.id \in used[x]
  BY <1>1 DEF IdsUsed
<1>5. IdsUsed'
  BY <1>1, <1>2, <1>3, <1>4, ItemFields DEF IdsUsed
<1>6. OneOwner'
  <2>1. (\A p, q \in queue : p.id = q.id => p.what = q.what)'
    BY <1>1, <1>2, <1>4 DEF OneOwner
  <2> QED BY <1>1, <1>2, <1>3, <2>1 DEF OneOwner
<1>7. NewUnstruck'
  BY <1>1, <1>2 DEF NewUnstruck
<1>8. strikes[i].strikes = 0 /\ \A r \in Runners : myStrikes[r][i].strikes = 0
  BY <1>2 DEF NewUnstruck
<1>9. StrikesEarned' /\ CopiesEarned'
  BY <1>1, <1>2, <1>8 DEF StrikesEarned, CopiesEarned
<1>10. NoEarlyRemoval'
  <2> SUFFICES ASSUME NEW r \in Runners, at[r] = "delete", reason[r] = "strikes",
                      NEW p \in queue', p.what = item[r].what, p.id = item[r].id
               PROVE  earned'[item[r].what] = MaxStrikes
    BY <1>1 DEF NoEarlyRemoval, Queued
  <2>1. item[r] \in Items /\ item[r].what \in Downloads /\ item[r].id \in used[x]
    BY <1>3, ItemFields DEF TypeOK
  <2>2. p \in queue
    BY <1>1, <1>2, <2>1
  <2> QED BY <1>1, <1>2, <2>1, <2>2 DEF NoEarlyRemoval, Queued
<1> QED BY <1>5, <1>6, <1>7, <1>9, <1>10

\* The inductive invariant of the strikes: the ids of one instance are not
\* reused, so each belongs to one download, an id not given out yet has no
\* strikes, and neither the database nor the copy of any run counts more
\* strikes under an id than its download was given (strike_data in
\* process_stalled_downloads, generate_item_hash).
LEMMA StrikesInvariant ==
    ASSUME NEW x, Instances = {x}, "reset" \notin Users
    PROVE  Spec => [](TypeOK /\ Owned)
<1>1. Init => Owned
  BY NoItemAssumption DEF NoItemAssumption, Init, Owned, IdsUsed, OneOwner, NewUnstruck, StrikesEarned, CopiesEarned,
         NoEarlyRemoval, Nothing, NoEntry
<1>2. TypeOK /\ TypeOK' /\ Owned /\ [Next]_vars => Owned'
  <2> SUFFICES ASSUME TypeOK, TypeOK', Owned, [Next]_vars PROVE Owned'
    OBVIOUS
  <2> USE DEF settings, database, copies, inHand, history, removals, SameRecord
  <2> DEFINE Still == /\ UNCHANGED <<used, earned>>
                      /\ \A r \in Runners : at'[r] = "delete" =>
                             at[r] = "delete" /\ reason'[r] = reason[r] /\ item'[r] = item[r]
                      /\ \A r \in Runners : item'[r] = item[r] \/ item'[r] = NoItem
             Moved == /\ \A q \in queue' : \E p \in queue : SameRecord(p, q)
                      /\ \A r \in Runners : \A q \in todo'[r] : q \in todo[r] \/ q \in queue
             Told  == /\ \A i \in Ids : strikes'[i].strikes \in Known(i)
                      /\ \A i \in Ids, r \in Runners : myStrikes'[r][i].strikes \in Known(i)
  <2>1. Still /\ Moved /\ Told => Owned'
    BY MovesKeep
  <2>2. UNCHANGED <<strikes, myStrikes>> => Told
    BY DEF Known
  <2>3. UNCHANGED <<queue, todo>> => Moved
    OBVIOUS
  <2>4. ASSUME NEW r \in Runners, Start(r) \/ PickInstance(r) \/ LoadRemoved(r) \/ Record(r)
        PROVE Owned'
    <3>1. Still
      BY <2>4 DEF Start, PickInstance, LoadRemoved, Record, Goto, TypeOK
    <3>2. UNCHANGED <<queue, todo, strikes, myStrikes>>
      BY <2>4 DEF Start, PickInstance, LoadRemoved, Record
    <3> QED BY <3>1, <3>2, <2>1, <2>2, <2>3
  <2>5. ASSUME NEW r \in Runners, Fetch(r) PROVE Owned'
    <3>1. Still /\ UNCHANGED <<strikes, myStrikes>>
      BY <2>5 DEF Fetch, Goto, TypeOK
    <3>2. UNCHANGED queue /\ todo' \in [Runners -> SUBSET Items]
      BY <2>5 DEF Fetch, TypeOK
    <3>3. PICK y \in insts[r] : \E part \in SUBSET Queue(y) : todo' = [todo EXCEPT ![r] = part]
      <4>1. PICK y \in insts[r] :
              \/ todo' = [todo EXCEPT ![r] = IF enabled THEN Queue(y) ELSE {}]
              \/ \E part \in SUBSET Queue(y) : todo' = [todo EXCEPT ![r] = part]
        BY <2>5 DEF Fetch
      <4> HIDE DEF Queue
      <4>2. (IF enabled THEN Queue(y) ELSE {}) \in SUBSET Queue(y)
        OBVIOUS
      <4> QED BY <4>1, <4>2
    <3>4. \A s \in Runners : todo'[s] = todo[s] \/ todo'[s] \subseteq queue
      BY <3>3 DEF Queue, TypeOK
    <3>5. Moved
      BY <3>2, <3>4
    <3> QED BY <3>1, <3>5, <2>1, <2>2
  <2>6. ASSUME NEW r \in Runners, LoadStrikes(r) PROVE Owned'
    <3>1. Still /\ UNCHANGED <<queue, todo>>
      BY <2>6 DEF LoadStrikes, Goto, TypeOK
    <3>2. Told
      BY <2>6 DEF LoadStrikes, Known, TypeOK
    <3> QED BY <3>1, <3>2, <2>1, <2>3
  <2>7. ASSUME NEW r \in Runners, Item(r) PROVE Owned'
    BY <2>7, ItemKeeps
  <2>8. ASSUME NEW r \in Runners, ItemsDone(r) \/ ItemsRaise(r) \/ SaveRemoved(r)
        PROVE Owned'
    <3>1. Still /\ Moved
      BY <2>8 DEF ItemsDone, ItemsRaise, SaveRemoved, Through, Return, Goto, TypeOK
    <3>2. Told
      BY <2>8 DEF ItemsDone, ItemsRaise, SaveRemoved, Through, Return, Known, Nothing, NoEntry, TypeOK
    <3> QED BY <3>1, <3>2, <2>1
  <2>9. ASSUME NEW r \in Runners, Delete(r) PROVE Owned'
    <3>1. Still /\ UNCHANGED <<strikes, myStrikes>>
      BY <2>9 DEF Delete, Goto, TypeOK
    <3>2. Moved
      BY <2>9 DEF Delete, Without
    <3> QED BY <3>1, <3>2, <2>1, <2>2
  <2>10. ASSUME NEW r \in Runners, SaveStrikes(r) PROVE Owned'
    <3>1. Still /\ UNCHANGED <<queue, todo>>
      BY <2>10 DEF SaveStrikes, Goto, TypeOK
    <3>2. Told
      BY <2>10 DEF SaveStrikes, Known
    <3> QED BY <3>1, <3>2, <2>1, <2>3
  <2>11. ASSUME NEW d \in Downloads, Leave(d) \/ WeekPasses(d) PROVE Owned'
    <3>1. Still /\ Moved /\ UNCHANGED <<strikes, myStrikes>>
      BY <2>11 DEF Leave, WeekPasses, Without
    <3> QED BY <3>1, <2>1, <2>2
  <2>12. ASSUME NEW d \in Downloads, NEW c \in Conditions, Change(d, c) PROVE Owned'
    <3>1. Still /\ UNCHANGED <<strikes, myStrikes>>
      BY <2>12 DEF Change
    <3>2. \A q \in queue : SameRecord(q, [q EXCEPT !.cond = c])
      BY DEF TypeOK, Items
    <3>3. Moved
      BY <2>12, <3>2 DEF Change
    <3> QED BY <3>1, <3>3, <2>1, <2>2
  <2>13. ASSUME NEW d \in Downloads, NEW i \in Ids, NEW c \in Conditions, Arrive(d, i, c)
         PROVE Owned'
    BY <2>13, ArriveKeeps
  <2>14. ASSUME NEW i \in Ids, TimePasses(i) PROVE Owned'
    <3>1. Still /\ UNCHANGED <<queue, todo>>
      BY <2>14 DEF TimePasses
    <3>2. \A j \in Ids : /\ strikes'[j].strikes = strikes[j].strikes
                         /\ \A r \in Runners : myStrikes'[r][j].strikes = myStrikes[r][j].strikes
      <4>1. /\ Aged(strikes[i]).strikes = strikes[i].strikes
            /\ \A r \in Runners : Aged(myStrikes[r][i]).strikes = myStrikes[r][i].strikes
        <5>1. /\ strikes[i] \in Entries
              /\ \A r \in Runners : myStrikes[r][i] \in Entries
          BY DEF TypeOK
        <5> QED BY <5>1, EntrySteps
      <4>2. /\ \A j \in Ids : strikes'[j] = IF j = i THEN Aged(strikes[i]) ELSE strikes[j]
            /\ \A r \in Runners, j \in Ids :
                   myStrikes'[r][j] = IF j = i THEN Aged(myStrikes[r][i]) ELSE myStrikes[r][j]
        BY <2>14 DEF TimePasses, TypeOK
      <4> QED BY <4>1, <4>2
    <3>3. Told
      BY <3>2 DEF Known
    <3> QED BY <3>1, <3>3, <2>1, <2>3
  <2>15. CASE UserActs
    <3>1. Still /\ UNCHANGED <<queue, todo, strikes, myStrikes>>
      BY <2>15 DEF UserActs, ChangeSettings, ResetStrikes, ResetRemoved
    <3> QED BY <3>1, <2>1, <2>2, <2>3
  <2>16. CASE Crash
    <3>1. Still /\ Moved
      BY <2>16 DEF Crash
    <3>2. Told
      BY <2>16 DEF Crash, Known, Nothing, NoEntry
    <3> QED BY <3>1, <3>2, <2>1
  <2>17. CASE UNCHANGED vars
    BY <2>17, <2>1, <2>2, <2>3 DEF vars
  <2> QED
    BY <2>4, <2>5, <2>6, <2>7, <2>8, <2>9, <2>10, <2>11, <2>12, <2>13, <2>14,
       <2>15, <2>16, <2>17
    DEF Next, Step, World
<1> QED BY <1>1, <1>2, TypeCorrect, PTL DEF Spec

\* With one instance and no reset by a user, every strike a queued download
\* has in the database was given to it, for any number of runs that overlap
\* (the loop and manual runs) and any faults.
THEOREM EveryStrikeEarned ==
    ASSUME NEW x, Instances = {x}, "reset" \notin Users
    PROVE  Spec => []StrikesEarned
<1>1. Owned => StrikesEarned
  BY DEF Owned
<1> QED BY <1>1, StrikesInvariant, PTL

\* Then no download is deleted for its strikes before it got max_strikes.
THEOREM NoneRemovedEarly ==
    ASSUME NEW x, Instances = {x}, "reset" \notin Users
    PROVE  Spec => []NoEarlyRemoval
<1>1. Owned => NoEarlyRemoval
  BY DEF Owned
<1> QED BY <1>1, StrikesInvariant, PTL

-----------------------------------------------------------------------------
(* What Swaparr removed.  A run that has loaded the list holds, in its copy *)
(* or in hand, every sure removal but those it cannot have seen: this is    *)
(* what makes it safe, but for those, to write the copy over the list.      *)
Loaded(r) == at[r] \in {"items", "delete", "record", "saveStrikes", "saveRemoved"}
Holds(r, d) == d \in myRemoved[r] \/ (at[r] = "record" /\ item[r].what = d)
Sure(d) == d \in gone /\ d \notin unsure
CopyInv == \A r \in Runners, d \in Downloads :
               Loaded(r) /\ Sure(d) => Holds(r, d) \/ d \in unseen[r]
LateInv == \A r \in Runners, d \in Downloads :
               d \in late[r] => Loaded(r) /\ Holds(r, d)
ListInv == \A d \in Downloads :
               Sure(d) => d \in removed \/ \E r \in Runners : d \in late[r]
Remembered == CopyInv /\ LateInv /\ ListInv

\* A step that touches neither the list, its copies nor the removals, and
\* takes no run to or from the part that works with the list.
LEMMA ElsewhereKeeps ==
    ASSUME Remembered, UNCHANGED <<removed, myRemoved, gone, late, unseen, unsure>>,
           \A r \in Runners : /\ Loaded(r)' <=> Loaded(r)
                              /\ at'[r] = "record" <=> at[r] = "record"
                              /\ at[r] = "record" => item'[r] = item[r]
    PROVE  Remembered'
BY DEF Remembered, CopyInv, LateInv, ListInv, Loaded, Holds, Sure

LEMMA LoadRemovedKeeps ==
    ASSUME TypeOK, Remembered, NEW r \in Runners, LoadRemoved(r)
    PROVE  Remembered'
<1> USE DEF Remembered, Loaded, Holds, Sure
<1>1. /\ at[r] = "loadRemoved" /\ at' = [at EXCEPT ![r] = "items"]
      /\ UNCHANGED <<item, removed, gone, late, unsure>>
      /\ at \in [Runners -> Places] /\ unseen \in [Runners -> SUBSET Downloads]
      /\ myRemoved \in [Runners -> SUBSET Downloads]
  BY DEF LoadRemoved, Goto, TypeOK, database, inHand
<1>2. LateInv'
  <2>1. \A d \in Downloads : d \notin late[r]
    BY <1>1 DEF LateInv
  <2>2. \A s \in Runners : s # r => myRemoved'[s] = myRemoved[s]
    BY <1>1 DEF LoadRemoved
  <2> QED BY <1>1, <2>1, <2>2 DEF LateInv
<1>3. ListInv'
  BY <1>1 DEF ListInv
<1>4. CopyInv'
  <2>1. \A s \in Runners : s # r => myRemoved'[s] = myRemoved[s] /\ unseen'[s] = unseen[s]
    BY <1>1 DEF LoadRemoved
  <2>2. ASSUME NEW d \in Downloads, Sure(d)
        PROVE  d \in myRemoved'[r] \/ d \in unseen'[r]
    <3>1. CASE /\ myRemoved' = [myRemoved EXCEPT ![r] = removed]
               /\ unseen' = [unseen EXCEPT ![r] = UNION {late[s] : s \in Runners}]
      BY <1>1, <2>2, <3>1 DEF ListInv
    <3>2. CASE unseen' = [unseen EXCEPT ![r] = gone]
      BY <1>1, <2>2, <3>2
    <3> QED BY <3>1, <3>2 DEF LoadRemoved
  <2> QED BY <1>1, <2>1, <2>2 DEF CopyInv
<1> QED BY <1>2, <1>3, <1>4

LEMMA DeleteKeeps ==
    ASSUME TypeOK, Remembered, NEW r \in Runners, Delete(r)
    PROVE  Remembered'
<1> USE DEF Remembered, Loaded, Holds, Sure
<1> DEFINE d0 == item[r].what
<1>1. /\ at[r] = "delete" /\ UNCHANGED <<removed, myRemoved>>
      /\ at' = [at EXCEPT ![r] = "record"] \/ at' = [at EXCEPT ![r] = "items"]
      /\ \A s \in Runners : s # r => item'[s] = item[s]
      /\ at \in [Runners -> Places] /\ unseen \in [Runners -> SUBSET Downloads]
      /\ late \in [Runners -> SUBSET Downloads]
      /\ item \in [Runners -> Items \union {NoItem}]
  BY DEF Delete, Goto, TypeOK, database, copies, inHand
<1>2. CASE /\ at' = [at EXCEPT ![r] = "record"] /\ item' = item
           /\ gone' = gone \union {d0} /\ unsure' = unsure \ {d0}
           /\ late' = [late EXCEPT ![r] = @ \union {d0}]
           /\ unseen' = [s \in Runners |-> IF s = r THEN unseen[s] \ {d0}
                                                    ELSE unseen[s] \union {d0}]
  <2> HIDE DEF d0
  <2>1. CopyInv'
    BY <1>1, <1>2 DEF CopyInv, d0
  <2>2. LateInv'
    BY <1>1, <1>2 DEF LateInv, d0
  <2>3. ListInv'
    BY <1>1, <1>2 DEF ListInv
  <2> QED BY <2>1, <2>2, <2>3
<1>3. CASE /\ at' = [at EXCEPT ![r] = "items"] /\ UNCHANGED <<late, unseen>>
           /\ \/ gone' = gone \union {d0} /\ unsure' = unsure \union {d0}
              \/ UNCHANGED <<gone, unsure>>
  BY <1>1, <1>3 DEF CopyInv, LateInv, ListInv
<1> QED BY <1>1, <1>2, <1>3 DEF Delete, inHand, removals, Goto

LEMMA RecordKeeps ==
    ASSUME TypeOK, Remembered, NEW r \in Runners, Record(r)
    PROVE  Remembered'
<1> USE DEF Remembered, Loaded, Holds, Sure
<1>1. /\ at[r] = "record" /\ at' = [at EXCEPT ![r] = "items"]
      /\ myRemoved' = [myRemoved EXCEPT ![r] = Remember(r)]
      /\ \A s \in Runners : s # r => item'[s] = item[s]
      /\ UNCHANGED <<gone, unseen>>
      /\ at \in [Runners -> Places] /\ late \in [Runners -> SUBSET Downloads]
      /\ myRemoved \in [Runners -> SUBSET Downloads]
  BY DEF Record, ToStore, Stored, removals, Goto, TypeOK
<1>2. \A d \in Downloads : d \in Remember(r) <=> Holds(r, d)
  BY <1>1 DEF Remember
<1>3. CASE removed' = Remember(r) /\ Stored(r)
  BY <1>1, <1>2, <1>3 DEF Stored, CopyInv, LateInv, ListInv
<1>4. CASE UNCHANGED <<removed, late, unsure>>
  BY <1>1, <1>2, <1>4 DEF CopyInv, LateInv, ListInv
<1> QED BY <1>1, <1>3, <1>4 DEF Record, ToStore, SavedAtOnce, removals

\* The end of an instance: its list saved, or lost with what was not saved.
LEMMA ThroughKeeps ==
    ASSUME TypeOK, Remembered, NEW r \in Runners, Loaded(r), at[r] # "record", Return(r),
           \/ removed' = myRemoved[r] /\ Through(r, unseen[r])
           \/ removed' = removed /\ Through(r, late[r])
    PROVE  Remembered'
<1> USE DEF Remembered, Loaded, Holds, Sure
<1>1. /\ at' = [at EXCEPT ![r] = "pick"] /\ late' = [late EXCEPT ![r] = {}]
      /\ unseen' = [unseen EXCEPT ![r] = {}] /\ gone' = gone
      /\ \A s \in Runners : s # r => item'[s] = item[s] /\ myRemoved'[s] = myRemoved[s]
      /\ at \in [Runners -> Places] /\ unseen \in [Runners -> SUBSET Downloads]
      /\ late \in [Runners -> SUBSET Downloads]
  BY DEF Through, Return, Goto, TypeOK
<1>2. \A d \in Downloads : Sure(d)' => Sure(d)
  BY <1>1 DEF Through
<1>3. CopyInv' /\ LateInv'
  BY <1>1, <1>2 DEF CopyInv, LateInv
<1>4. CASE removed' = myRemoved[r] /\ Through(r, unseen[r])
  BY <1>1, <1>3, <1>4 DEF Through, CopyInv, ListInv
<1>5. CASE removed' = removed /\ Through(r, late[r])
  BY <1>1, <1>3, <1>5 DEF Through, ListInv
<1> QED BY <1>4, <1>5

LEMMA WorldKeeps ==
    ASSUME TypeOK, Remembered,
           (\E d \in Downloads : WeekPasses(d)) \/ ResetRemoved \/ Crash
    PROVE  Remembered'
<1> USE DEF Remembered, Loaded, Holds, Sure, TypeOK
<1>1. ASSUME NEW d \in Downloads, WeekPasses(d) PROVE Remembered'
  BY <1>1 DEF WeekPasses, CopyInv, LateInv, ListInv, inHand
<1>2. ASSUME ResetRemoved PROVE Remembered'
  BY <1>2 DEF ResetRemoved, CopyInv, LateInv, ListInv
<1>3. ASSUME Crash PROVE Remembered'
  BY <1>3 DEF Crash, CopyInv, LateInv, ListInv
<1> QED BY <1>1, <1>2, <1>3

\* What Swaparr deleted in the last seven days is on the stored list of removed
\* items, or a run has it in its copy or in hand, except what was cut off by a
\* fault before its save was due or overwritten by a run that had loaded the
\* list earlier (load_removed_items, save_removed_items, and the list written
\* at once after a malicious or failed download): for any runs that overlap,
\* any faults and any resets.
THEOREM RemovedKept == Spec => []RemovedRemembered
<1>1. Init => Remembered
  BY DEF Init, Remembered, CopyInv, LateInv, ListInv, Loaded, Sure
<1>2. TypeOK /\ Remembered /\ [Next]_vars => Remembered'
  <2> SUFFICES ASSUME TypeOK, Remembered, [Next]_vars PROVE Remembered'
    OBVIOUS
  <2> USE DEF settings, database, copies, inHand, history, removals, Goto
  <2>1. at \in [Runners -> Places]
    BY DEF TypeOK
  <2>2. ASSUME NEW r \in Runners, Start(r) \/ PickInstance(r) PROVE Remembered'
    BY <2>1, <2>2, ElsewhereKeeps DEF Start, PickInstance, Loaded
  <2>3. ASSUME NEW r \in Runners, Fetch(r) \/ LoadStrikes(r) PROVE Remembered'
    BY <2>1, <2>3, ElsewhereKeeps DEF Fetch, LoadStrikes, Loaded
  <2>4. ASSUME NEW r \in Runners, LoadRemoved(r) PROVE Remembered'
    BY <2>4, LoadRemovedKeeps
  <2>5. ASSUME NEW r \in Runners, Item(r) PROVE Remembered'
    <3>1. /\ at' = at \/ at' = [at EXCEPT ![r] = "delete"]
          /\ at[r] = "items" /\ UNCHANGED <<removed, myRemoved, removals>>
          /\ item' = item \/ \E q \in Items : item' = [item EXCEPT ![r] = q]
      BY <2>5 DEF Item, TypeOK
    <3>2. \A s \in Runners : at[s] = "record" => item'[s] = item[s]
      BY <3>1 DEF TypeOK
    <3> QED BY <2>1, <3>1, <3>2, ElsewhereKeeps DEF Loaded
  <2>6. ASSUME NEW r \in Runners, ItemsDone(r) \/ SaveStrikes(r) PROVE Remembered'
    BY <2>1, <2>6, ElsewhereKeeps DEF ItemsDone, SaveStrikes, Loaded
  <2>7. ASSUME NEW r \in Runners, ItemsRaise(r) \/ SaveRemoved(r) PROVE Remembered'
    BY <2>7, ThroughKeeps DEF ItemsRaise, SaveRemoved, Loaded
  <2>8. ASSUME NEW r \in Runners, Delete(r) PROVE Remembered'
    BY <2>8, DeleteKeeps
  <2>9. ASSUME NEW r \in Runners, Record(r) PROVE Remembered'
    BY <2>9, RecordKeeps
  <2>10. CASE (\E d \in Downloads : WeekPasses(d)) \/ ResetRemoved \/ Crash
    BY <2>10, WorldKeeps
  <2>11. ASSUME \/ \E d \in Downloads : Leave(d)
                \/ \E d \in Downloads, c \in Conditions : Change(d, c)
                \/ \E d \in Downloads, i \in Ids, c \in Conditions : Arrive(d, i, c)
                \/ ChangeSettings
                \/ \E also \in BOOLEAN : ResetStrikes(also)
                \/ UNCHANGED vars
         PROVE  Remembered'
    <3>1. UNCHANGED <<at, item, removed, myRemoved, gone, late, unseen, unsure>>
      BY <2>11 DEF Leave, Change, Arrive, ChangeSettings, ResetStrikes, vars
    <3> QED BY <3>1, ElsewhereKeeps DEF Loaded
  <2>12. ASSUME NEW i \in Ids, TimePasses(i) PROVE Remembered'
    BY <2>12, ElsewhereKeeps DEF TimePasses, Loaded
  <2> QED
    BY <2>2, <2>3, <2>4, <2>5, <2>6, <2>7, <2>8, <2>9, <2>10, <2>11, <2>12
    DEF Next, Step, World, UserActs
<1>3. TypeOK /\ Remembered => RemovedRemembered
  BY DEF TypeOK, Remembered, LateInv, ListInv, Holds, Sure, RemovedRemembered
<1> QED BY <1>1, <1>2, <1>3, TypeCorrect, PTL DEF Spec
=============================================================================
