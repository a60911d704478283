------------------------------- MODULE MCLists -------------------------------
(* Instances of Lists for model checking.                                  *)
EXTENDS Lists, TLC

CONSTANTS k1, k2, a1, a2, b1, b2, new

MCKeys   == {k1, k2}
MCItems  == {a1, a2, b1, b2, new}
\* Three operations where an edit or a removal takes two.
MCMaxActs == [p \in Pages |-> IF p \in {"import_lists", "index_master"} THEN 3 ELSE 2]
MCStored == (k1 :> <<a1, a2>>) @@ (k2 :> <<b1>>)
=============================================================================
