---------------------------- MODULE MCCellSetup ----------------------------
(* CellSetup for TLC.  The six symmetries of a triangle stand for the      *)
(* transforms: the smallest group in which the order of a product matters. *)
EXTENDS CellSetup, TLC

CONSTANTS table, tray, pick, place, d1, d2

Symmetries == {t \in [1..3 -> 1..3] : IsInjective(t)}
Still == [i \in 1..3 |-> i]
Turn == (1 :> 2) @@ (2 :> 3) @@ (3 :> 1)
Flip == (1 :> 2) @@ (2 :> 1) @@ (3 :> 3)
Then(a, b) == [i \in 1..3 |-> a[b[i]]]
Back(a) == AntiFunction(a)

TurnOrFlip == {Turn, Flip}
OnlyTurn == {Turn}
OneToolTwoTcps == {[key |-> "gripper", values |-> Still], [key |-> "gripper", values |-> Turn]}
(* Nothing is said about one frame, pose or device and not the others. *)
Interchangeable ==
    Permutations({table, tray}) \cup Permutations({pick, place}) \cup Permutations({d1, d2})
=============================================================================
