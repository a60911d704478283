---------------------------- MODULE MCHuntCycle ----------------------------
(* Two instances of one application, in the order of the settings. *)
EXTENDS HuntCycle

CONSTANTS i1, i2
MCInstances == {i1, i2}
MCPosition == [i \in MCInstances |-> IF i = i1 THEN 1 ELSE 2]

(* One instance, for faults in a row. *)
MCSolo == {i1}
MCSoloPosition == [i \in MCSolo |-> 1]
=============================================================================
