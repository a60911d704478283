------------------------------- MODULE MCForms -------------------------------
(* Instances of Forms for model checking.                                  *)
EXTENDS Forms, TLC

CONSTANTS k1, k2, k3

MCKeys    == {k1, k2, k3}
MCStored  == <<k1, k2>>
\* Five operations: edit, save, edit, leave and another tab.  Fewer where the
\* page sends a request for each.
MCMaxActs == [p \in Pages |-> CASE p = "movie"              -> 3
                               [] p \in {"tv", "indexer"}  -> 4
                               [] OTHER                    -> 5]
=============================================================================
