------------------------- MODULE MCServiceDistance -------------------------
(***************************************************************************)
(* Instance of ServiceDistance for TLC: positions 0, 1 and 3, of which 0-1 *)
(* is below the least segment and 0-3 too fast for one tick.               *)
(***************************************************************************)
EXTENDS ServiceDistance, TLC

Fix(pos, moving) == [pos |-> pos, moving |-> moving]

Symmetry == Permutations(Connections)

MCFixes == {Fix(0, TRUE), Fix(1, FALSE), Fix(3, FALSE), Fix(NULL, TRUE)}
MCHistories == {<<>>, <<Fix(3, TRUE), Fix(1, TRUE)>>}
=============================================================================
