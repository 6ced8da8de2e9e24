---------------------------- MODULE MC_CellSync -------------------------------
(* Instantiation of CellSync for TLC: two actors, three cells, one other   *)
(* player. Three cells give an actor a source cell, a destination under    *)
(* this host's authority and one under the other player's.                 *)
EXTENDS CellSync, TLC

CONSTANTS a1, a2, c1, c2, h2

MC_Actors == {a1, a2}
MC_Cells == {c1, c2}
MC_Others == {h2}
MC_ActorOrder == <<a1, a2>>
MC_CellOrder == <<c1, c2>>
MC_FrameDurations == {20, 30}

\* The state without the ActorList a pass last filled: no action of
\* CellSync reads it, so states that differ only there behave alike.
CellSyncView == <<[st EXCEPT !.actorList = EmptyActorList], phase>>

=============================================================================
