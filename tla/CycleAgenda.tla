---------------------------- MODULE CycleAgenda ----------------------------
(***************************************************************************)
(* What the hunting loop promises about manual resets, without threads,    *)
(* rows or sleeps.  A request is asked for, taken, and granted by making   *)
(* its instance due.  It is taken only while no cycle of the instance      *)
(* runs, so that the cycle it leads to is a new one, and no cycle begins   *)
(* before it is granted.  A due instance stays due until a cycle of it     *)
(* begins or ends.  A fault may cut cycles and drop the request taken at   *)
(* that moment, and no other.                                              *)
(***************************************************************************)
EXTENDS Naturals

CONSTANT Instances

VARIABLES
    asked,   \* instances with a request nobody took
    taken,   \* the one whose request is taken, if any
    due,     \* instances whose time has come
    running, \* instances a cycle of which runs
    faults   \* faults so far

vars == <<asked, taken, due, running, faults>>

Init == asked = {} /\ taken = {} /\ due = {} /\ running = {} /\ faults = 0

\* due may change for i.
DueChanges(i) == due' \in {due \ {i}, due \union {i}}

Ask(i) ==
    /\ asked' = asked \union {i}
    /\ UNCHANGED <<taken, due, running, faults>>

Take(i) ==
    /\ i \in asked \ running /\ taken = {}
    /\ asked' = asked \ {i} /\ taken' = {i}
    /\ UNCHANGED <<due, running, faults>>

Grant ==
    /\ taken # {}
    /\ due' = due \union taken /\ taken' = {}
    /\ UNCHANGED <<asked, running, faults>>

ComesDue(i) ==
    /\ due' = due \union {i}
    /\ UNCHANGED <<asked, taken, running, faults>>

Begin(i) ==
    /\ i \notin running /\ taken = {}
    /\ running' = running \union {i} /\ DueChanges(i)
    /\ faults' \in {faults, faults + 1}
    /\ UNCHANGED <<asked, taken>>

End(i) ==
    /\ i \in running
    /\ running' = running \ {i} /\ DueChanges(i)
    /\ UNCHANGED <<asked, taken, faults>>

Fails ==
    /\ faults' = faults + 1
    /\ taken' \subseteq taken /\ running' \subseteq running
    /\ UNCHANGED <<asked, due>>

Next == \/ \E i \in Instances : Ask(i) \/ Take(i) \/ ComesDue(i) \/ Begin(i) \/ End(i)
        \/ Grant \/ Fails

Spec == Init /\ [][Next]_vars
=============================================================================
