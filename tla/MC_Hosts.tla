------------------------------- MODULE MC_Hosts -------------------------------
(* Instantiation of Hosts for TLC: two players, two cells and one actor,  *)
(* enough for the actor to cross from one player's cell into the other's. *)
EXTENDS Hosts, TLC

CONSTANTS h1, h2, a1, c1, c2

MC_HostIds == {h1, h2}
MC_Actors == {a1}
MC_Cells == {c1, c2}
MC_ActorOrder == <<a1>>
MC_CellOrder == <<c1, c2>>
MC_FrameDurations == {20, 30}
MC_LongFrames == {30}

\* The players are interchangeable: nothing in Hosts names one of them.
MC_HostSymmetry == Permutations(MC_HostIds)

\* The state without the ActorList each client's last pass filled: the
\* relay reads only the list of a pass that has just run.
HostsView == <<[h \in HostIds |-> [hs[h] EXCEPT !.actorList = CL(h)!EmptyActorList]],
               phase, authority, chan, pos, where>>

=============================================================================
