---------------------------- MODULE Hunt_proofs ----------------------------
(* Proofs about Hunt: type correctness, that hourly_cap is passed by no more
   than one search, that nothing remembered is searched for again, when a mark
   means a search, and when the API bar tells the searches made, for any
   instances, items, sizes and bounds. *)
EXTENDS Hunt, FiniteSetTheorems, TLAPS

\* The tuples of variables that the actions leave alone.
USE DEF vars, memory, counter, work, resets, clock

Kinds == {"missing", "upgrade"}
\* A worker that has an item in hand.
InHand == {"markFirst", "search", "wait", "markThen", "count", "zero", "add"}

-----------------------------------------------------------------------------
(* What the styles of the applications have in common. *)
LEMMA Styles ==
    ASSUME NEW a \in Applications, NEW k \in Kinds
    PROVE  /\ Hunting(a, k).cost \in Nat \ {0} /\ Hunting(a, k).cost <= MaxCost
           /\ Hunting(a, k).each => HuntSize <= MaxCost
           /\ ~Hunting(a, k).capped => k = "missing" /\ Hunting(a, k).atOnce
<1> USE AppAssumption, SizesAssumption DEF AppAssumption, SizesAssumption, Apps
<1>1. /\ Missing(a).cost \in Nat \ {0} /\ Upgrade(a).cost \in Nat \ {0}
      /\ Upgrade(a).capped /\ (~Missing(a).capped => Missing(a).atOnce)
  BY DEF Missing, Upgrade, Plain, Season, Early, Wary, Batch,
         RadarrMissing, RadarrUpgrade, SonarrMissing, SonarrUpgrade, LidarrMissing,
         LidarrUpgrade, ReadarrMissing, ReadarrUpgrade, WhisparrMissing, WhisparrUpgrade,
         ErosMissing, ErosUpgrade, SportarrMissing, SportarrUpgrade
<1>2. QED
  BY <1>1, CostAssumption DEF CostAssumption, Hunting, Kinds

\* Eros alone marks under the display name; Radarr and Sonarr mark only what
\* was searched for; Sonarr alone waits for the command.
LEMMA StyleOfApp ==
    ASSUME NEW a \in Applications, NEW k \in Kinds
    PROVE  /\ a # "eros" => ~Hunting(a, k).byName
           /\ a \in {"radarr", "sonarr"} => ~Hunting(a, k).first
           /\ a # "sonarr" => ~Hunting(a, k).waits
<1> USE AppAssumption DEF AppAssumption, Apps
<1>1. /\ a # "eros" => ~Missing(a).byName /\ ~Upgrade(a).byName
      /\ a \in {"radarr", "sonarr"} => ~Missing(a).first /\ ~Upgrade(a).first
      /\ a # "sonarr" => ~Missing(a).waits /\ ~Upgrade(a).waits
  BY DEF Missing, Upgrade, Plain, Season, Early, Wary, Batch,
         RadarrMissing, RadarrUpgrade, SonarrMissing, SonarrUpgrade, LidarrMissing,
         LidarrUpgrade, ReadarrMissing, ReadarrUpgrade, WhisparrMissing, WhisparrUpgrade,
         ErosMissing, ErosUpgrade, SportarrMissing, SportarrUpgrade
<1>2. QED
  BY <1>1 DEF Hunting, Kinds

\* No step changes which application an instance is of.
LEMMA AppKept ==
    ASSUME [Next]_vars
    PROVE  app' = app
BY DEF Next, Worker, Disturbed, Background, Cycle, Initialize, CheckExpiry, Forget, Relock,
       Gate, Select, HuntEnds, Take, MarkFirst, MarkThen, Search, Waited, CheckHour, ZeroFirst,
       Add, StopSeen, SearchFails, UserForgets, UserRelocks, LockExpires, CheckGlobal,
       ClearAll, LockAll, HourlyReset, UserForgetsAll, GlobalExpires, NewHour, MinutePasses,
       Crash

\* A search of a few selected items counts something, and no more than MaxCost.
LEMMA CostBounded ==
    ASSUME NEW a \in Applications, NEW k \in Kinds,
           NEW s \in SUBSET Items, s # {}, Cardinality(s) <= HuntSize
    PROVE  Cost(Hunting(a, k), s) \in Nat \ {0} /\ Cost(Hunting(a, k), s) <= MaxCost
<1>1. IsFiniteSet(s)
  BY ItemsAssumption, FS_Subset DEF ItemsAssumption
<1>2. Cardinality(s) \in Nat \ {0}
  BY <1>1, FS_CardinalityType, FS_EmptySet
<1>3. QED
  BY <1>2, Styles, SizesAssumption, CostAssumption
  DEF Cost, SizesAssumption, CostAssumption

LEMMA CostType ==
    ASSUME NEW a \in Applications, NEW k \in Kinds, NEW s \in SUBSET Items
    PROVE  Cost(Hunting(a, k), s) \in Nat
<1>1. IsFiniteSet(s)
  BY ItemsAssumption, FS_Subset DEF ItemsAssumption
<1>2. QED
  BY <1>1, FS_CardinalityType, Styles DEF Cost

LEMMA FaultBounded ==
    ASSUME faults \in 0..MaxFaults, NEW k, Fault(k) \/ NoFault
    PROVE  faults' \in 0..MaxFaults
BY KindsAssumption DEF KindsAssumption, Fault, NoFault

LEMMA UpToBounded ==
    ASSUME NEW n \in 0..Cap + 1
    PROVE  UpTo(n + 1) \in 0..Cap + 1 /\ UpTo(n + 1) <= n + 1
BY SizesAssumption DEF UpTo, SizesAssumption

-----------------------------------------------------------------------------
\* The variables hold values of their types: what the tables, the worker's
\* locals and the control flow of the hunts can be.
THEOREM TypeCorrect == Spec => []TypeOK
<1> USE DEF TypeOK, Places, Locks, Over, Goto
<1>1. Init => TypeOK
  <2> SUFFICES ASSUME Init PROVE TypeOK
    OBVIOUS
  <2>1. 0 \in 0..Cap + 1 /\ 0 \in 0..MaxFaults
    BY SizesAssumption, KindsAssumption DEF SizesAssumption, KindsAssumption
  <2>2. QED
    BY <2>1 DEF Init
<1>2. TypeOK /\ [Next]_vars => TypeOK'
  <2> SUFFICES ASSUME TypeOK, [Next]_vars PROVE TypeOK'
    OBVIOUS
  <2>1. ASSUME NEW i \in Instances,
               Cycle(i) \/ Initialize(i) \/ CheckExpiry(i) \/ Forget(i) \/ Relock(i) \/ Gate(i)
        PROVE  TypeOK'
    BY <2>1 DEF Cycle, Initialize, FirstLock, CheckExpiry, Forget, ClearIds, Relock, SetLock, Gate
  <2>2. ASSUME NEW i \in Instances, Select(i) \/ HuntEnds(i) \/ StopSeen(i)
        PROVE  TypeOK'
    BY <2>2 DEF Select, Unprocessed, HuntEnds, StopSeen
  <2>3. ASSUME NEW i \in Instances, Take(i) PROVE TypeOK'
    <3>1. PICK s \in SUBSET todo[i] : /\ hand' = [hand EXCEPT ![i] = s]
                                      /\ todo' = [todo EXCEPT ![i] = @ \ s]
      BY <2>3 DEF Take
    <3>2. s \subseteq Items /\ todo[i] \ s \subseteq Items
      OBVIOUS
    <3>3. QED
      BY <2>3, <3>1, <3>2 DEF Take
  <2>4. ASSUME NEW i \in Instances, Marked(i)
        PROVE  /\ processed' \in [Instances -> SUBSET Items]
               /\ misfiled' \in [Instances -> SUBSET Items]
               /\ faults' \in 0..MaxFaults
    BY <2>4, FaultBounded DEF Marked
  <2>5. ASSUME NEW i \in Instances, MarkFirst(i) PROVE TypeOK'
    BY <2>4, <2>5 DEF MarkFirst
  <2>6. ASSUME NEW i \in Instances, MarkThen(i) PROVE TypeOK'
    BY <2>4, <2>6 DEF MarkThen
  <2>7. ASSUME NEW i \in Instances, Searches(i)
        PROVE  /\ searched' \in [Instances -> SUBSET Items]
               /\ known' \in [Instances -> SUBSET Items]
               /\ made' \in [Instances -> 0..Cap + 1]
    BY <2>7, UpToBounded DEF Searches
  <2>8. ASSUME NEW i \in Instances, Search(i) PROVE TypeOK'
    BY <2>7, <2>8, FaultBounded DEF Search
  <2>9. ASSUME NEW i \in Instances, SearchFails(i) PROVE TypeOK'
    BY <2>7, <2>9, FaultBounded DEF SearchFails
  <2>10. ASSUME NEW i \in Instances, Waited(i) \/ CheckHour(i) PROVE TypeOK'
    BY <2>10 DEF Waited, CheckHour
  <2>11. ASSUME ZeroAll
         PROVE  /\ hits' \in [Instances -> Nat] /\ fresh' \in [Instances -> BOOLEAN]
                /\ made' \in [Instances -> 0..Cap + 1]
    BY <2>11, SizesAssumption DEF ZeroAll, Zeroed, SizesAssumption
  <2>12. ASSUME NEW i \in Instances, ZeroFirst(i) PROVE TypeOK'
    <3>1. ZeroAll
      BY <2>12 DEF ZeroFirst
    <3>2. QED
      BY <2>11, <2>12, <3>1 DEF ZeroFirst
  <2>13. ASSUME NEW i \in Instances, Add(i) PROVE TypeOK'
    <3>1. kind[i] \in Kinds /\ hand[i] \in SUBSET Items
      BY DEF Kinds
    <3>2. Cost(Hunting(app[i], kind[i]), hand[i]) \in Nat
      BY <3>1, CostType
    <3>3. hits' \in [Instances -> Nat]
      BY <2>13, <3>2 DEF Add
    <3>4. made' \in [Instances -> 0..Cap + 1] /\ fresh' \in [Instances -> BOOLEAN]
      <4>1. 1 \in 0..Cap + 1
        BY SizesAssumption DEF SizesAssumption
      <4>2. /\ made' = [made EXCEPT ![i] = IF fresh[i] THEN @ ELSE 1] \/ made' = made
            /\ fresh' = [fresh EXCEPT ![i] = TRUE] \/ fresh' = fresh
        BY <2>13 DEF Add
      <4>3. made[i] \in 0..Cap + 1
        OBVIOUS
      <4>4. QED
        BY <4>1, <4>2, <4>3
    <3>5. QED
      BY <2>13, <3>3, <3>4, FaultBounded DEF Add
  <2>14. CASE HourlyReset
    <3>1. ZeroAll
      BY <2>14 DEF HourlyReset
    <3>2. QED
      BY <2>11, <2>14, <3>1 DEF HourlyReset
  <2>15. CASE CheckGlobal \/ ClearAll \/ LockAll \/ UserForgetsAll \/ GlobalExpires
    <3>1. CASE CheckGlobal
      BY <3>1 DEF CheckGlobal
    <3>2. CASE ClearAll
      BY <3>2 DEF ClearAll
    <3>3. CASE LockAll \/ UserForgetsAll \/ GlobalExpires
      BY <3>3 DEF LockAll, UserForgetsAll, GlobalExpires
    <3>4. QED
      BY <2>15, <3>1, <3>2, <3>3
  <2>16. ASSUME NEW i \in Instances, UserForgets(i) \/ UserRelocks(i) \/ LockExpires(i)
         PROVE  TypeOK'
    BY <2>16 DEF UserForgets, ClearIds, UserRelocks, SetLock, LockExpires
  <2>17. CASE NewHour
    <3>1. 0 \in 0..Cap + 1
      BY SizesAssumption DEF SizesAssumption
    <3>2. QED
      BY <2>17, <3>1 DEF NewHour
  <2>18. CASE MinutePasses
    BY <2>18, FaultBounded DEF MinutePasses
  <2>19. CASE Crash
    BY <2>19, FaultBounded DEF Crash, FirstLock
  <2>20. CASE UNCHANGED vars
    BY <2>20
  <2>21. QED
    BY <2>1, <2>2, <2>3, <2>5, <2>6, <2>8, <2>9, <2>10, <2>12, <2>13, <2>14,
       <2>15, <2>16, <2>17, <2>18, <2>19, <2>20
    DEF Next, Worker, Disturbed, Background
<1>3. QED
  BY <1>1, <1>2, PTL DEF Spec

-----------------------------------------------------------------------------
(* The cap.  A worker that has an item in hand passed the cap's test and     *)
(* nobody else counts for its instance; an application that does not test    *)
(* the cap in its loop (Lidarr) makes one search after the gate's test.      *)
Room(i) ==
    /\ hits[i] < Cap + MaxCost
    /\ at[i] \in InHand => hits[i] < Cap
    /\ at[i] = "select" /\ kind[i] = "missing" => hits[i] < Cap
    /\ at[i] = "check" /\ ~Hunting(app[i], kind[i]).capped /\ todo[i] # {} => hits[i] < Cap

Few(i) ==
    /\ at[i] \in InHand <=> hand[i] # {}
    /\ Cardinality(todo[i]) <= HuntSize /\ Cardinality(hand[i]) <= HuntSize
    /\ at[i] \in InHand /\ Hunting(app[i], kind[i]).atOnce => todo[i] = {}

LEMMA Smaller ==
    ASSUME NEW s \in SUBSET Items, NEW t \in SUBSET s, Cardinality(s) <= HuntSize
    PROVE  Cardinality(t) <= HuntSize
<1>1. IsFiniteSet(s)
  BY ItemsAssumption, FS_Subset DEF ItemsAssumption
<1>2. /\ Cardinality(s) \in Nat /\ Cardinality(t) \in Nat
      /\ Cardinality(t) <= Cardinality(s)
  BY <1>1, FS_Subset, FS_CardinalityType
<1>3. QED
  BY <1>2, SizesAssumption DEF SizesAssumption

LEMMA FewInvariant == Spec => [](\A i \in Instances : Few(i))
<1> USE DEF Few, InHand, Over, Goto
<1>e. Cardinality({}) <= HuntSize
  BY FS_EmptySet, SizesAssumption DEF SizesAssumption
<1>1. Init => \A i \in Instances : Few(i)
  BY <1>e DEF Init
<1>2. TypeOK /\ (\A i \in Instances : Few(i)) /\ [Next]_vars
        => (\A i \in Instances : Few(i))'
  <2> SUFFICES ASSUME TypeOK, \A i \in Instances : Few(i), [Next]_vars,
                      NEW j \in Instances
               PROVE  Few(j)'
    OBVIOUS
  <2>a. app' = app
    BY AppKept
  <2> USE <1>e, <2>a DEF TypeOK
  <2>1. ASSUME NEW i \in Instances,
               Cycle(i) \/ Initialize(i) \/ CheckExpiry(i) \/ Forget(i) \/ Relock(i) \/ Gate(i)
        PROVE  Few(j)'
    BY <2>1 DEF Cycle, Initialize, CheckExpiry, Forget, Relock, Gate
  <2>2. ASSUME NEW i \in Instances, Select(i) PROVE Few(j)'
    <3>1. PICK chosen \in SUBSET Items :
                 /\ Cardinality(chosen) <= HuntSize
                 /\ todo' = [todo EXCEPT ![i] = chosen]
      BY <2>2 DEF Select, Unprocessed
    <3>2. /\ at[i] = "select" /\ hand' = hand
          /\ at' = [at EXCEPT ![i] = at'[i]] /\ kind' = [kind EXCEPT ![i] = kind'[i]]
          /\ at'[i] \in {"select", "idle", "check"}
      BY <2>2 DEF Select
    <3>3. QED
      BY <3>1, <3>2
  <2>3. ASSUME NEW i \in Instances, HuntEnds(i) \/ StopSeen(i) PROVE Few(j)'
    <3>1. CASE HuntEnds(i)
      <4>1. /\ at[i] = "check" /\ hand' = hand /\ todo' = [todo EXCEPT ![i] = {}]
            /\ at' = [at EXCEPT ![i] = at'[i]] /\ kind' = [kind EXCEPT ![i] = kind'[i]]
            /\ at'[i] \in {"select", "idle"}
        BY <3>1 DEF HuntEnds
      <4>2. QED
        BY <4>1
    <3>2. CASE StopSeen(i)
      BY <3>2 DEF StopSeen
    <3>3. QED
      BY <2>3, <3>1, <3>2
  <2>4. ASSUME NEW i \in Instances, Take(i) PROVE Few(j)'
    <3>1. PICK s \in SUBSET todo[i] :
                 /\ IF Hunting(app[i], kind[i]).atOnce THEN s = todo[i]
                    ELSE \E x \in todo[i] : s = {x}
                 /\ hand' = [hand EXCEPT ![i] = s]
                 /\ todo' = [todo EXCEPT ![i] = @ \ s]
      BY <2>4 DEF Take
    <3>2. Cardinality(s) <= HuntSize /\ Cardinality(todo[i] \ s) <= HuntSize
      BY Smaller
    <3>3. s # {} /\ (Hunting(app[i], kind[i]).atOnce => todo[i] \ s = {})
      BY <2>4, <3>1 DEF Take
    <3>4. /\ at'[i] \in {"markFirst", "search"} /\ kind' = kind
          /\ at' = [at EXCEPT ![i] = at'[i]]
      BY <2>4 DEF Take
    <3>5. QED
      BY <3>1, <3>2, <3>3, <3>4
  <2>5. ASSUME NEW i \in Instances,
               MarkFirst(i) \/ MarkThen(i) \/ Search(i) \/ CheckHour(i) \/ ZeroFirst(i)
        PROVE  Few(j)'
    BY <2>5 DEF MarkFirst, MarkThen, Search, CheckHour, ZeroFirst
  <2>6. ASSUME NEW i \in Instances, SearchFails(i) \/ Waited(i) \/ Add(i) PROVE Few(j)'
    BY <2>6 DEF SearchFails, Waited, Add
  <2>7. CASE Background \/ UserForgetsAll \/ GlobalExpires \/ NewHour \/ MinutePasses
    BY <2>7 DEF Background, CheckGlobal, ClearAll, LockAll, HourlyReset, UserForgetsAll,
                GlobalExpires, NewHour, MinutePasses
  <2>8. ASSUME NEW i \in Instances, UserForgets(i) \/ UserRelocks(i) \/ LockExpires(i)
        PROVE  Few(j)'
    BY <2>8 DEF UserForgets, UserRelocks, LockExpires
  <2>9. CASE Crash
    BY <2>9 DEF Crash
  <2>10. CASE UNCHANGED vars
    BY <2>10
  <2>11. QED
    BY <2>1, <2>2, <2>3, <2>4, <2>5, <2>6, <2>7, <2>8, <2>9, <2>10
    DEF Next, Worker, Disturbed
<1>3. QED
  BY <1>1, <1>2, TypeCorrect, PTL DEF Spec

LEMMA RoomInvariant == Spec => [](\A i \in Instances : Room(i))
<1> USE DEF Room, InHand, Over, Goto
<1>1. Init => \A i \in Instances : Room(i)
  BY SizesAssumption, CostAssumption DEF Init, SizesAssumption, CostAssumption
<1>2. /\ TypeOK /\ TypeOK' /\ (\A i \in Instances : Few(i)) /\ (\A i \in Instances : Room(i))
      /\ [Next]_vars
      => (\A i \in Instances : Room(i))'
  <2> SUFFICES ASSUME TypeOK, TypeOK', \A i \in Instances : Few(i) /\ Room(i), [Next]_vars,
                      NEW j \in Instances
               PROVE  Room(j)'
    OBVIOUS
  <2>a. app' = app
    BY AppKept
  <2> USE <2>a DEF TypeOK
  <2>k. /\ \A i \in Instances : kind[i] \in Kinds
        /\ \A i \in Instances : kind'[i] \in Kinds
    BY DEF Kinds
  <2>1. ASSUME NEW i \in Instances,
               Cycle(i) \/ Initialize(i) \/ CheckExpiry(i) \/ Forget(i) \/ Relock(i)
        PROVE  Room(j)'
    BY <2>1 DEF Cycle, Initialize, CheckExpiry, Forget, Relock
  <2>2. ASSUME NEW i \in Instances, Gate(i) PROVE Room(j)'
    BY <2>2, SizesAssumption DEF Gate, Reached, SizesAssumption
  <2>3. ASSUME NEW i \in Instances, Select(i) PROVE Room(j)'
    <3>1. /\ hits' = hits /\ at[i] = "select"
          /\ at' = [at EXCEPT ![i] = at'[i]] /\ kind' = [kind EXCEPT ![i] = kind'[i]]
          /\ \/ at'[i] = "check" /\ kind' = kind
             \/ at'[i] = "idle"
             \/ at'[i] = "select" /\ kind'[i] = "upgrade"
          /\ \A h \in Instances : h # i => todo'[h] = todo[h]
      BY <2>3 DEF Select
    <3>2. ~Hunting(app[i], kind[i]).capped => kind[i] = "missing"
      BY <2>k, Styles
    <3>3. QED
      BY <3>1, <3>2
  <2>4. ASSUME NEW i \in Instances, HuntEnds(i) \/ StopSeen(i) PROVE Room(j)'
    <3>1. CASE HuntEnds(i)
      <4>1. /\ hits' = hits /\ todo' = [todo EXCEPT ![i] = {}]
            /\ at' = [at EXCEPT ![i] = at'[i]] /\ kind' = [kind EXCEPT ![i] = kind'[i]]
            /\ at'[i] = "idle" \/ (at'[i] = "select" /\ kind'[i] = "upgrade")
        BY <3>1 DEF HuntEnds
      <4>2. QED
        BY <4>1
    <3>2. CASE StopSeen(i)
      BY <3>2 DEF StopSeen
    <3>3. QED
      BY <2>4, <3>1, <3>2
  <2>5. ASSUME NEW i \in Instances, Take(i) PROVE Room(j)'
    <3>1. hits[i] < Cap
      BY <2>5, SizesAssumption DEF Take, Reached, SizesAssumption
    <3>2. /\ hits' = hits /\ kind' = kind
          /\ at' = [at EXCEPT ![i] = at'[i]] /\ at'[i] \in {"markFirst", "search"}
          /\ \A h \in Instances : h # i => todo'[h] = todo[h]
      BY <2>5 DEF Take
    <3>3. QED
      BY <3>1, <3>2
  <2>6. ASSUME NEW i \in Instances, MarkFirst(i) \/ MarkThen(i) \/ Search(i) \/ CheckHour(i)
        PROVE  Room(j)'
    BY <2>6 DEF MarkFirst, MarkThen, Search, CheckHour
  <2>7. ASSUME NEW i \in Instances, SearchFails(i) \/ Waited(i) PROVE Room(j)'
    BY <2>7 DEF SearchFails, Waited
  <2>8. ASSUME ZeroAll, kind' = kind, todo' = todo,
               \A h \in Instances : at'[h] = at[h] \/ (at[h] \in InHand /\ at'[h] \in InHand)
        PROVE  Room(j)'
    <3>1. hits'[j] = 0
      BY <2>8 DEF ZeroAll, Zeroed
    <3>2. QED
      BY <3>1, SizesAssumption, CostAssumption DEF SizesAssumption, CostAssumption
  <2>9. ASSUME NEW i \in Instances, ZeroFirst(i) PROVE Room(j)'
    BY <2>8, <2>9 DEF ZeroFirst
  <2>10. ASSUME NEW i \in Instances, Add(i) PROVE Room(j)'
    <3>1. /\ hits[i] < Cap /\ hits[i] \in Nat
          /\ hand[i] \in SUBSET Items /\ hand[i] # {} /\ Cardinality(hand[i]) <= HuntSize
      BY <2>10 DEF Add, Few
    <3>2. /\ Cost(Hunting(app[i], kind[i]), hand[i]) \in Nat
          /\ Cost(Hunting(app[i], kind[i]), hand[i]) <= MaxCost
      BY <2>k, <3>1, CostBounded
    <3>3. /\ at' = [at EXCEPT ![i] = "check"] /\ kind' = kind /\ todo' = todo
          /\ \A h \in Instances : h # i => hits'[h] = hits[h]
          /\ \/ hits'[i] = hits[i]
             \/ hits'[i] = (IF fresh[i] THEN hits[i] ELSE 0)
                              + Cost(Hunting(app[i], kind[i]), hand[i])
      BY <2>10 DEF Add
    <3>4. hits'[i] < Cap + MaxCost
      <4>1. hits'[i] = hits[i] => hits'[i] < Cap + MaxCost
        OBVIOUS
      <4>2. QED
        BY <3>1, <3>2, <3>3, <4>1, SizesAssumption, CostAssumption
        DEF SizesAssumption, CostAssumption
    <3>5. ~Hunting(app[i], kind[i]).capped => todo[i] = {}
      BY <2>k, <2>10, Styles DEF Few, Add
    <3>6. QED
      BY <3>3, <3>4, <3>5
  <2>11. CASE HourlyReset
    BY <2>8, <2>11 DEF HourlyReset
  <2>12. CASE CheckGlobal \/ ClearAll \/ LockAll \/ UserForgetsAll \/ GlobalExpires
              \/ NewHour \/ MinutePasses
    BY <2>12 DEF CheckGlobal, ClearAll, LockAll, UserForgetsAll, GlobalExpires, NewHour,
                 MinutePasses
  <2>13. ASSUME NEW i \in Instances, UserForgets(i) \/ UserRelocks(i) \/ LockExpires(i)
         PROVE  Room(j)'
    BY <2>13 DEF UserForgets, UserRelocks, LockExpires
  <2>14. CASE Crash
    BY <2>14, SizesAssumption, CostAssumption DEF Crash, SizesAssumption, CostAssumption
  <2>15. CASE UNCHANGED vars
    BY <2>15
  <2>16. QED
    BY <2>1, <2>2, <2>3, <2>4, <2>5, <2>6, <2>7, <2>9, <2>10, <2>11, <2>12, <2>13,
       <2>14, <2>15
    DEF Next, Worker, Disturbed, Background
<1>3. QED
  BY <1>1, <1>2, TypeCorrect, FewInvariant, PTL DEF Spec

\* The counter passes hourly_cap by no more than one search: whatever is
\* checked, counted and reset when, whichever the application, with any fault.
THEOREM CapPassedByOneSearch == Spec => []UsageBounded
<1>1. (\A i \in Instances : Room(i)) => UsageBounded
  BY DEF Room, UsageBounded
<1>2. QED
  BY <1>1, RoomInvariant, PTL

(* The counter against the searches made since it was zeroed. *)
Counted(i) ==
    /\ at[i] # "wait" /\ made[i] <= Cap
    /\ made[i] <= hits[i] + (IF InFlight(i) THEN 1 ELSE 0)

\* The steps that touch neither counter nor the place where a search in
\* flight shows.
Quiet == /\ UNCHANGED <<hits, made>>
         /\ \A i \in Instances : /\ at'[i] # "wait" \/ at'[i] = at[i]
                                 /\ InFlight(i)' = InFlight(i)

LEMMA CountedInvariant ==
    ASSUME "sonarr" \notin Applications, Faults \intersect {"crash", "lost", "uncounted"} = {}
    PROVE  Spec => [](\A i \in Instances : Counted(i))
<1> USE DEF Counted, InFlight, Over, Goto
<1>1. Init => \A i \in Instances : Counted(i)
  BY SizesAssumption DEF Init, SizesAssumption
<1>2. /\ TypeOK /\ TypeOK' /\ (\A i \in Instances : Few(i)) /\ (\A i \in Instances : Room(i))
      /\ (\A i \in Instances : Counted(i)) /\ [Next]_vars
      => (\A i \in Instances : Counted(i))'
  <2> SUFFICES ASSUME TypeOK, TypeOK', \A i \in Instances : Few(i), \A i \in Instances : Room(i),
                      \A i \in Instances : Counted(i), [Next]_vars,
                      NEW j \in Instances
               PROVE  Counted(j)'
    OBVIOUS
  <2>a. app' = app
    BY AppKept
  <2> USE <2>a DEF TypeOK
  <2>q. ASSUME Quiet PROVE Counted(j)'
    BY <2>q DEF Quiet
  <2>1. ASSUME NEW i \in Instances,
               \/ Cycle(i) \/ Initialize(i) \/ CheckExpiry(i) \/ Forget(i) \/ Relock(i)
               \/ Gate(i) \/ MarkFirst(i) \/ MarkThen(i) \/ CheckHour(i)
        PROVE  Quiet
    BY <2>1 DEF Quiet, Cycle, Initialize, CheckExpiry, Forget, Relock, Gate, MarkFirst, MarkThen,
                CheckHour
  <2>2. ASSUME NEW i \in Instances, Select(i) \/ HuntEnds(i) \/ Take(i) PROVE Quiet
    <3>1. /\ UNCHANGED <<hits, made>> /\ at[i] \in {"select", "check"}
          /\ at' = [at EXCEPT ![i] = at'[i]]
          /\ at'[i] \in {"select", "idle", "check", "markFirst", "search"}
      BY <2>2 DEF Select, HuntEnds, Take
    <3>2. QED
      BY <3>1 DEF Quiet
  <2>3. ASSUME NEW i \in Instances, StopSeen(i) PROVE Quiet
    <3>1. at[i] # "wait" /\ at[i] \in {"check", "search", "wait"}
      BY <2>3 DEF StopSeen
    <3>2. UNCHANGED <<hits, made>> /\ at' = [at EXCEPT ![i] = "idle"]
      BY <2>3 DEF StopSeen
    <3>3. QED
      BY <3>1, <3>2 DEF Quiet
  <2>4. ASSUME NEW i \in Instances, Search(i) PROVE Counted(j)'
    <3>1. ~Hunting(app[i], kind[i]).waits
      BY StyleOfApp DEF Kinds
    <3>2. /\ hits' = hits /\ at[i] = "search" /\ made' = [made EXCEPT ![i] = UpTo(@ + 1)]
          /\ at' = [at EXCEPT ![i] = at'[i]] /\ at'[i] \in {"count", "markThen"}
      BY <2>4, <3>1 DEF Search, Searches
    <3>3. hits[i] < Cap /\ made[i] <= hits[i]
      BY <3>2 DEF Room, InHand
    <3>4. made'[i] <= made[i] + 1
      BY <3>2, UpToBounded
    <3>5. QED
      BY <3>2, <3>3, <3>4, SizesAssumption DEF SizesAssumption
  <2>5. ASSUME NEW i \in Instances, SearchFails(i) PROVE Quiet
    BY <2>5 DEF Quiet, SearchFails, Fault
  <2>6. ASSUME NEW i \in Instances, Waited(i) PROVE FALSE
    BY <2>6 DEF Waited
  <2>7. ASSUME ZeroAll, \A h \in Instances : at'[h] = at[h] \/ (at[h] = "zero" /\ at'[h] = "add")
        PROVE  Counted(j)'
    <3>1. hits'[j] = 0 /\ made'[j] = (IF InFlight(j) THEN 1 ELSE 0)
      BY <2>7 DEF ZeroAll, Zeroed
    <3>2. QED
      BY <2>7, <3>1, SizesAssumption DEF SizesAssumption
  <2>8. ASSUME NEW i \in Instances, ZeroFirst(i) PROVE Counted(j)'
    BY <2>7, <2>8 DEF ZeroFirst
  <2>9. ASSUME NEW i \in Instances, Add(i) PROVE Counted(j)'
    <3>1. /\ at[i] = "add" /\ at' = [at EXCEPT ![i] = "check"]
          /\ hits' = [hits EXCEPT ![i] = (IF fresh[i] THEN @ ELSE 0)
                                          + Cost(Hunting(app[i], kind[i]), hand[i])]
          /\ made' = [made EXCEPT ![i] = IF fresh[i] THEN @ ELSE 1]
      BY <2>9 DEF Add, Fault
    <3>2. hand[i] \in SUBSET Items /\ hand[i] # {} /\ Cardinality(hand[i]) <= HuntSize
      BY <3>1 DEF Few, InHand
    <3>3. Cost(Hunting(app[i], kind[i]), hand[i]) \in Nat \ {0}
      BY <3>2, CostBounded DEF Kinds
    <3>4. made'[i] <= hits'[i] /\ made'[i] <= Cap
      <4>1. PICK c \in Nat \ {0} : hits'[i] = (IF fresh[i] THEN hits[i] ELSE 0) + c
        BY <3>1, <3>3
      <4>2. made'[i] = IF fresh[i] THEN made[i] ELSE 1
        BY <3>1
      <4>3. /\ made[i] <= hits[i] + 1 /\ made[i] <= Cap
            /\ made[i] \in Nat /\ hits[i] \in Nat
        BY <3>1
      <4>4. QED
        BY <4>1, <4>2, <4>3, SizesAssumption DEF SizesAssumption
    <3>5. QED
      BY <3>1, <3>4
  <2>10. CASE HourlyReset
    BY <2>7, <2>10 DEF HourlyReset
  <2>11. CASE CheckGlobal \/ ClearAll \/ LockAll \/ UserForgetsAll \/ GlobalExpires
              \/ NewHour \/ MinutePasses
    BY <2>11 DEF CheckGlobal, ClearAll, LockAll, UserForgetsAll, GlobalExpires, NewHour,
                 MinutePasses
  <2>12. ASSUME NEW i \in Instances, UserForgets(i) \/ UserRelocks(i) \/ LockExpires(i)
         PROVE  Quiet
    BY <2>12 DEF Quiet, UserForgets, UserRelocks, LockExpires
  <2>13. ASSUME Crash PROVE FALSE
    BY <2>13 DEF Crash, Fault
  <2>14. CASE UNCHANGED vars
    BY <2>14
  <2>15. QED
    BY <2>q, <2>1, <2>2, <2>3, <2>4, <2>5, <2>6, <2>8, <2>9, <2>10, <2>11, <2>12,
       <2>13, <2>14
    DEF Next, Worker, Disturbed, Background
<1>3. QED
  BY <1>1, <1>2, TypeCorrect, FewInvariant, RoomInvariant, PTL DEF Spec

\* From one zeroing of its counter to the next an instance makes at most
\* hourly_cap searches, if no search is lost between the command and the
\* count: no crash, no lost answer, no failed write, no wait (Sonarr).
THEOREM CapIsKept ==
    ASSUME "sonarr" \notin Applications, Faults \intersect {"crash", "lost", "uncounted"} = {}
    PROVE  Spec => []CapKept
<1>1. (\A i \in Instances : Counted(i)) => CapKept
  BY DEF Counted, CapKept
<1>2. QED
  BY <1>1, CountedInvariant, PTL

(* The applications of which a search counts as one.                         *)
Single == {"radarr", "readarr", "whisparr"}

LEMMA CountsOne ==
    ASSUME NEW a \in Applications, a \in Single, NEW k \in Kinds, NEW s
    PROVE  Cost(Hunting(a, k), s) = 1
BY DEF Single, Kinds, Hunting, Missing, Upgrade, Plain, Early, Wary, Batch, Cost,
       RadarrMissing, RadarrUpgrade, ReadarrMissing, ReadarrUpgrade,
       WhisparrMissing, WhisparrUpgrade

\* Each search made is in the counter, or in flight to it.
Exact(i) == made[i] = hits[i] + (IF InFlight(i) THEN 1 ELSE 0)

\* The counter an instance shows in the API bar tells the searches made since
\* it was zeroed, but for the one on its way to be counted: for Radarr, Readarr
\* and Whisparr, whichever thread zeroes the counters and when, whatever users
\* stop or forget, if no search is lost between the command and the count (no
\* crash, no lost answer, no failed write).
THEOREM BarTellsSearches ==
    ASSUME Applications \subseteq Single, Faults \intersect {"crash", "lost", "uncounted"} = {}
    PROVE  Spec => []BarMatches
<1> USE DEF Exact, InFlight, Over, Goto
<1>0. "sonarr" \notin Applications
  BY DEF Single
<1>1. Init => \A i \in Instances : Exact(i)
  BY DEF Init
<1>2. /\ TypeOK /\ (\A i \in Instances : Room(i)) /\ (\A i \in Instances : Counted(i))
      /\ (\A i \in Instances : Exact(i)) /\ [Next]_vars
      => (\A i \in Instances : Exact(i))'
  <2> SUFFICES ASSUME TypeOK, \A i \in Instances : Room(i), \A i \in Instances : Counted(i),
                      \A i \in Instances : Exact(i), [Next]_vars,
                      NEW j \in Instances
               PROVE  Exact(j)'
    OBVIOUS
  <2>a. app' = app
    BY AppKept
  <2> USE <2>a DEF TypeOK
  <2>q. ASSUME Quiet PROVE Exact(j)'
    BY <2>q DEF Quiet
  <2>1. ASSUME NEW i \in Instances,
               \/ Cycle(i) \/ Initialize(i) \/ CheckExpiry(i) \/ Forget(i) \/ Relock(i)
               \/ Gate(i) \/ MarkFirst(i) \/ MarkThen(i) \/ CheckHour(i)
        PROVE  Quiet
    BY <2>1 DEF Quiet, Cycle, Initialize, CheckExpiry, Forget, Relock, Gate, MarkFirst, MarkThen,
                CheckHour
  <2>2. ASSUME NEW i \in Instances, Select(i) \/ HuntEnds(i) \/ Take(i) PROVE Quiet
    <3>1. /\ UNCHANGED <<hits, made>> /\ at[i] \in {"select", "check"}
          /\ at' = [at EXCEPT ![i] = at'[i]]
          /\ at'[i] \in {"select", "idle", "check", "markFirst", "search"}
      BY <2>2 DEF Select, HuntEnds, Take
    <3>2. QED
      BY <3>1 DEF Quiet
  <2>3. ASSUME NEW i \in Instances, StopSeen(i) PROVE Quiet
    <3>1. at[i] \in {"check", "search"} /\ UNCHANGED <<hits, made>>
          /\ at' = [at EXCEPT ![i] = "idle"]
      BY <2>3 DEF StopSeen, Counted
    <3>2. QED
      BY <3>1 DEF Quiet
  <2>4. ASSUME NEW i \in Instances, Search(i) PROVE Exact(j)'
    <3>1. ~Hunting(app[i], kind[i]).waits
      BY <1>0, StyleOfApp DEF Kinds
    <3>2. /\ hits' = hits /\ at[i] = "search" /\ made' = [made EXCEPT ![i] = UpTo(@ + 1)]
          /\ at' = [at EXCEPT ![i] = at'[i]] /\ at'[i] \in {"count", "markThen"}
      BY <2>4, <3>1 DEF Search, Searches
    <3>3. hits[i] < Cap /\ made[i] = hits[i]
      BY <3>2 DEF Room, InHand
    <3>4. made'[i] = made[i] + 1
      BY <3>2, <3>3, SizesAssumption DEF UpTo, SizesAssumption
    <3>5. QED
      BY <3>2, <3>3, <3>4
  <2>5. ASSUME NEW i \in Instances, SearchFails(i) PROVE Quiet
    BY <2>5 DEF Quiet, SearchFails, Fault
  <2>6. ASSUME NEW i \in Instances, Waited(i) PROVE FALSE
    BY <2>6 DEF Waited, Counted
  <2>7. ASSUME ZeroAll, \A h \in Instances : at'[h] = at[h] \/ (at[h] = "zero" /\ at'[h] = "add")
        PROVE  Exact(j)'
    BY <2>7 DEF ZeroAll, Zeroed
  <2>8. ASSUME NEW i \in Instances, ZeroFirst(i) PROVE Exact(j)'
    BY <2>7, <2>8 DEF ZeroFirst
  <2>9. ASSUME NEW i \in Instances, Add(i) PROVE Exact(j)'
    <3>1. Cost(Hunting(app[i], kind[i]), hand[i]) = 1
      BY CountsOne DEF Kinds
    <3>2. /\ at[i] = "add" /\ at' = [at EXCEPT ![i] = "check"]
          /\ hits' = [hits EXCEPT ![i] = (IF fresh[i] THEN @ ELSE 0) + 1]
          /\ made' = [made EXCEPT ![i] = IF fresh[i] THEN @ ELSE 1]
      BY <2>9, <3>1 DEF Add, Fault
    <3>3. QED
      BY <3>2
  <2>10. CASE HourlyReset
    BY <2>7, <2>10 DEF HourlyReset
  <2>11. CASE CheckGlobal \/ ClearAll \/ LockAll \/ UserForgetsAll \/ GlobalExpires
              \/ NewHour \/ MinutePasses
    BY <2>11 DEF CheckGlobal, ClearAll, LockAll, UserForgetsAll, GlobalExpires, NewHour,
                 MinutePasses
  <2>12. ASSUME NEW i \in Instances, UserForgets(i) \/ UserRelocks(i) \/ LockExpires(i)
         PROVE  Quiet
    BY <2>12 DEF Quiet, UserForgets, UserRelocks, LockExpires
  <2>13. ASSUME Crash PROVE FALSE
    BY <2>13 DEF Crash, Fault
  <2>14. CASE UNCHANGED vars
    BY <2>14
  <2>15. QED
    BY <2>q, <2>1, <2>2, <2>3, <2>4, <2>5, <2>6, <2>8, <2>9, <2>10, <2>11, <2>12,
       <2>13, <2>14
    DEF Next, Worker, Disturbed, Background
<1>3. TypeOK /\ (\A i \in Instances : Exact(i)) => BarMatches
  BY DEF BarMatches, TypeOK
<1>4. Spec => [](\A i \in Instances : Counted(i))
  BY <1>0, CountedInvariant
<1>5. QED
  BY <1>1, <1>2, <1>3, <1>4, TypeCorrect, RoomInvariant, PTL DEF Spec

-----------------------------------------------------------------------------
(* Memory.  The selected items were not remembered, and what a worker        *)
(* searches for leaves its selection, so that what it has come to know stays *)
(* out of the rest of the selection.  Users may clear the memory meanwhile.  *)
Apart(i) ==
    /\ known[i] \subseteq processed[i] /\ misfiled[i] = {}
    /\ at[i] \notin InHand => hand[i] = {}
    /\ todo[i] \intersect hand[i] = {} /\ todo[i] \intersect known[i] = {}
    /\ at[i] \in {"markFirst", "search"} => hand[i] \intersect known[i] = {}

\* An item that was searched for and is remembered is not searched for again,
\* whatever is cleared, refused or lost: except by Eros, whose upgrades are
\* remembered under a name that filter_unprocessed does not look under.
THEOREM NoneSearchedAgain ==
    ASSUME "eros" \notin Applications
    PROVE  Spec => []NotAgain
<1> USE DEF Apart, InHand, Over, Goto
<1>1. Init => \A i \in Instances : Apart(i)
  BY DEF Init
<1>2. /\ TypeOK /\ (\A i \in Instances : Apart(i)) /\ [Next]_vars
      => (\A i \in Instances : Apart(i))'
  <2> SUFFICES ASSUME TypeOK, \A i \in Instances : Apart(i), [Next]_vars,
                      NEW j \in Instances
               PROVE  Apart(j)'
    OBVIOUS
  <2>a. app' = app
    BY AppKept
  <2> USE <2>a DEF TypeOK
  <2>1. ASSUME NEW i \in Instances,
               Cycle(i) \/ Initialize(i) \/ CheckExpiry(i) \/ Relock(i) \/ Gate(i)
        PROVE  Apart(j)'
    BY <2>1 DEF Cycle, Initialize, CheckExpiry, Relock, Gate
  <2>2. ASSUME NEW i \in Instances, Forget(i) PROVE Apart(j)'
    BY <2>2 DEF Forget, ClearIds
  <2>3. ASSUME NEW i \in Instances, Select(i) PROVE Apart(j)'
    <3>1. PICK chosen \in SUBSET (Items \ processed[i]) :
                 todo' = [todo EXCEPT ![i] = chosen]
      BY <2>3 DEF Select, Unprocessed
    <3>2. /\ at[i] = "select" /\ UNCHANGED <<processed, misfiled, known, hand>>
          /\ at' = [at EXCEPT ![i] = at'[i]] /\ at'[i] \in {"select", "idle", "check"}
      BY <2>3 DEF Select
    <3>3. QED
      BY <3>1, <3>2
  <2>4. ASSUME NEW i \in Instances, HuntEnds(i) \/ StopSeen(i) PROVE Apart(j)'
    <3>1. /\ UNCHANGED <<processed, misfiled, known>>
          /\ at' = [at EXCEPT ![i] = at'[i]] /\ at'[i] \in {"select", "idle"}
          /\ todo' = [todo EXCEPT ![i] = {}]
          /\ hand' = [hand EXCEPT ![i] = {}] \/ (at[i] = "check" /\ hand' = hand)
      BY <2>4 DEF HuntEnds, StopSeen
    <3>2. QED
      BY <3>1
  <2>5. ASSUME NEW i \in Instances, Take(i) PROVE Apart(j)'
    <3>1. PICK s \in SUBSET todo[i] : /\ hand' = [hand EXCEPT ![i] = s]
                                      /\ todo' = [todo EXCEPT ![i] = @ \ s]
      BY <2>5 DEF Take
    <3>2. /\ UNCHANGED <<processed, misfiled, known>>
          /\ at' = [at EXCEPT ![i] = at'[i]] /\ at'[i] \in {"markFirst", "search"}
      BY <2>5 DEF Take
    <3>3. QED
      BY <3>1, <3>2
  <2>6. ASSUME NEW i \in Instances, Marked(i)
        PROVE  /\ misfiled' = misfiled
               /\ \E part \in SUBSET hand[i] :
                      processed' = [processed EXCEPT ![i] = @ \union part]
    <3>1. kind[i] \in Kinds /\ app[i] \in Applications /\ app[i] # "eros"
      BY DEF Kinds
    <3>2. ~Hunting(app[i], kind[i]).byName
      BY <3>1, StyleOfApp
    <3>3. PICK part \in SUBSET hand[i] :
                 /\ processed' = [processed EXCEPT ![i] = @ \union part]
                 /\ misfiled' = misfiled
      BY <2>6, <3>2, Zenon DEF Marked
    <3>4. QED
      BY <3>3
  <2>7. ASSUME NEW i \in Instances, MarkFirst(i) PROVE Apart(j)'
    <3>1. /\ Marked(i) /\ UNCHANGED <<known, todo, hand>> /\ at[i] = "markFirst"
          /\ at' = [at EXCEPT ![i] = "search"]
      BY <2>7 DEF MarkFirst
    <3>2. QED
      BY <2>6, <3>1
  <2>8. ASSUME NEW i \in Instances, MarkThen(i) PROVE Apart(j)'
    <3>1. /\ Marked(i) /\ UNCHANGED <<todo, hand>> /\ at[i] = "markThen"
          /\ at' = [at EXCEPT ![i] = "count"]
          /\ known' = [known EXCEPT ![i] = @ \union (hand[i] \intersect processed'[i])]
      BY <2>8 DEF MarkThen
    <3>2. QED
      BY <2>6, <3>1
  <2>9. ASSUME NEW i \in Instances, Searches(i)
        PROVE  known' = [known EXCEPT ![i] = @ \union (hand[i] \intersect processed[i])]
    <3>1. processed[i] \union misfiled[i] = processed[i]
      OBVIOUS
    <3>2. QED
      BY <2>9, <3>1 DEF Searches
  <2>10. ASSUME NEW i \in Instances, Search(i) PROVE Apart(j)'
    <3>1. /\ Searches(i) /\ UNCHANGED <<processed, misfiled, todo, hand>> /\ at[i] = "search"
          /\ at' = [at EXCEPT ![i] = at'[i]] /\ at'[i] \in {"count", "wait", "markThen"}
      BY <2>10 DEF Search
    <3>2. QED
      BY <2>9, <3>1
  <2>11. ASSUME NEW i \in Instances, SearchFails(i) PROVE Apart(j)'
    <3>1. /\ Searches(i) \/ known' = known
          /\ UNCHANGED <<processed, misfiled, todo>>
          /\ hand' = [hand EXCEPT ![i] = {}] /\ at' = [at EXCEPT ![i] = "check"]
      BY <2>11 DEF SearchFails
    <3>2. QED
      BY <2>9, <3>1
  <2>12. ASSUME NEW i \in Instances, Waited(i) PROVE Apart(j)'
    BY <2>12 DEF Waited
  <2>13. ASSUME NEW i \in Instances, CheckHour(i) \/ ZeroFirst(i) PROVE Apart(j)'
    BY <2>13 DEF CheckHour, ZeroFirst
  <2>14. ASSUME NEW i \in Instances, Add(i) PROVE Apart(j)'
    BY <2>14 DEF Add
  <2>15. CASE HourlyReset \/ CheckGlobal \/ LockAll \/ UserForgetsAll \/ GlobalExpires
              \/ NewHour \/ MinutePasses
    BY <2>15 DEF HourlyReset, CheckGlobal, LockAll, UserForgetsAll, GlobalExpires, NewHour,
                 MinutePasses
  <2>16. CASE ClearAll
    BY <2>16 DEF ClearAll
  <2>17. ASSUME NEW i \in Instances, UserForgets(i) PROVE Apart(j)'
    BY <2>17 DEF UserForgets, ClearIds
  <2>18. ASSUME NEW i \in Instances, UserRelocks(i) \/ LockExpires(i) PROVE Apart(j)'
    BY <2>18 DEF UserRelocks, LockExpires
  <2>19. CASE Crash
    BY <2>19 DEF Crash
  <2>20. CASE UNCHANGED vars
    BY <2>20
  <2>21. QED
    BY <2>1, <2>2, <2>3, <2>4, <2>5, <2>7, <2>8, <2>10, <2>11, <2>12, <2>13, <2>14,
       <2>15, <2>16, <2>17, <2>18, <2>19, <2>20
    DEF Next, Worker, Disturbed, Background
<1>3. (\A i \in Instances : Apart(i)) => NotAgain
  BY DEF NotAgain
<1>4. QED
  BY <1>1, <1>2, <1>3, TypeCorrect, PTL DEF Spec

-----------------------------------------------------------------------------
(* Radarr and Sonarr mark an item only after its search. *)
SearchedFirst(i) ==
    app[i] \in {"radarr", "sonarr"} =>
        /\ at[i] # "markFirst"
        /\ processed[i] \subseteq searched[i]
        /\ at[i] \in {"wait", "markThen"} => hand[i] \subseteq searched[i]

\* What Radarr and Sonarr remember was searched for, whatever fails: an item
\* whose search was refused is found again by a later cycle.
THEOREM MarkMeansSearch == Spec => []MarkedWasSearched
<1> USE DEF SearchedFirst, Over, Goto
<1>1. Init => \A i \in Instances : SearchedFirst(i)
  BY DEF Init
<1>2. /\ TypeOK /\ (\A i \in Instances : SearchedFirst(i)) /\ [Next]_vars
      => (\A i \in Instances : SearchedFirst(i))'
  <2> SUFFICES ASSUME TypeOK, \A i \in Instances : SearchedFirst(i), [Next]_vars,
                      NEW j \in Instances
               PROVE  SearchedFirst(j)'
    OBVIOUS
  <2>a. app' = app
    BY AppKept
  <2> USE <2>a DEF TypeOK
  <2>1. ASSUME NEW i \in Instances,
               Cycle(i) \/ Initialize(i) \/ CheckExpiry(i) \/ Relock(i) \/ Gate(i)
        PROVE  SearchedFirst(j)'
    BY <2>1 DEF Cycle, Initialize, CheckExpiry, Relock, Gate
  <2>2. ASSUME NEW i \in Instances, Forget(i) PROVE SearchedFirst(j)'
    BY <2>2 DEF Forget, ClearIds
  <2>3. ASSUME NEW i \in Instances, Select(i) \/ HuntEnds(i) PROVE SearchedFirst(j)'
    <3>1. /\ UNCHANGED <<processed, searched, hand>>
          /\ at' = [at EXCEPT ![i] = at'[i]] /\ at'[i] \in {"select", "idle", "check"}
      BY <2>3 DEF Select, HuntEnds
    <3>2. QED
      BY <3>1
  <2>4. ASSUME NEW i \in Instances, StopSeen(i) PROVE SearchedFirst(j)'
    BY <2>4 DEF StopSeen
  <2>5. ASSUME NEW i \in Instances, Take(i) PROVE SearchedFirst(j)'
    <3>1. app[i] \in {"radarr", "sonarr"} => ~Hunting(app[i], kind[i]).first
      BY StyleOfApp DEF Kinds
    <3>2. /\ UNCHANGED <<processed, searched>>
          /\ at' = [at EXCEPT ![i] = at'[i]] /\ at'[i] \in {"markFirst", "search"}
          /\ at'[i] = "markFirst" => Hunting(app[i], kind[i]).first
          /\ \A h \in Instances : h # i => hand'[h] = hand[h]
      BY <2>5, <3>1 DEF Take
    <3>3. QED
      BY <3>1, <3>2
  <2>6. ASSUME NEW i \in Instances, MarkFirst(i) PROVE SearchedFirst(j)'
    BY <2>6 DEF MarkFirst, Marked
  <2>7. ASSUME NEW i \in Instances, MarkThen(i) PROVE SearchedFirst(j)'
    BY <2>7 DEF MarkThen, Marked
  <2>8. ASSUME NEW i \in Instances, Search(i) PROVE SearchedFirst(j)'
    <3>1. /\ processed' = processed /\ hand' = hand
          /\ searched' = [searched EXCEPT ![i] = @ \union hand[i]]
          /\ at' = [at EXCEPT ![i] = at'[i]] /\ at'[i] # "markFirst"
      BY <2>8 DEF Search, Searches
    <3>2. QED
      BY <3>1
  <2>9. ASSUME NEW i \in Instances, SearchFails(i) PROVE SearchedFirst(j)'
    BY <2>9 DEF SearchFails, Searches
  <2>10. ASSUME NEW i \in Instances, Waited(i) \/ CheckHour(i) \/ ZeroFirst(i) \/ Add(i)
         PROVE  SearchedFirst(j)'
    BY <2>10 DEF Waited, CheckHour, ZeroFirst, Add
  <2>11. CASE HourlyReset \/ CheckGlobal \/ LockAll \/ UserForgetsAll \/ GlobalExpires
              \/ NewHour \/ MinutePasses
    BY <2>11 DEF HourlyReset, CheckGlobal, LockAll, UserForgetsAll, GlobalExpires, NewHour,
                 MinutePasses
  <2>12. CASE ClearAll
    BY <2>12 DEF ClearAll
  <2>13. ASSUME NEW i \in Instances, UserForgets(i) \/ UserRelocks(i) \/ LockExpires(i)
         PROVE  SearchedFirst(j)'
    BY <2>13 DEF UserForgets, ClearIds, UserRelocks, LockExpires
  <2>14. CASE Crash
    BY <2>14 DEF Crash
  <2>15. CASE UNCHANGED vars
    BY <2>15
  <2>16. QED
    BY <2>1, <2>2, <2>3, <2>4, <2>5, <2>6, <2>7, <2>8, <2>9, <2>10, <2>11, <2>12,
       <2>13, <2>14, <2>15
    DEF Next, Worker, Disturbed, Background
<1>3. (\A i \in Instances : SearchedFirst(i)) => MarkedWasSearched
  BY DEF MarkedWasSearched
<1>4. QED
  BY <1>1, <1>2, <1>3, TypeCorrect, PTL DEF Spec
=============================================================================
