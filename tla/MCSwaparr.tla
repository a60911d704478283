----------------------------- MODULE MCSwaparr -----------------------------
(* Two downloads in one instance, or one in each of two. *)
EXTENDS Swaparr, TLC

CONSTANTS d1, d2, q1, q2, x1, x2, loop, manual
MCDownloads == {d1, d2}
MCSoloDownload == {d1}
MCOne  == {x1}
MCTwo  == {x1, x2}
MCHomeOne == [d \in Downloads |-> x1]
MCHomeTwo == [d \in Downloads |-> IF d = d1 THEN x1 ELSE x2]
MCSymmetry == Permutations(Downloads) \union Permutations(Ids)
=============================================================================
