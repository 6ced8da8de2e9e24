------------------------------ MODULE Ownership -------------------------------
(***************************************************************************)
(* What the actor synchronization promises, without cells' records,        *)
(* packets or frames (spec sections 2 and 8): every cell has one           *)
(* authoritative host; an actor is simulated by exactly one host, or is in *)
(* transit between two. The host simulating an actor may move it to any   *)
(* cell; once the actor is in a cell another host is authority of, the     *)
(* simulating host lets it go, and an actor in transit is taken up by the  *)
(* authority of the cell it went to.                                       *)
(***************************************************************************)
CONSTANTS
  HostIds,   \* the hosts
  Actors,    \* the actors
  Cells,     \* the cells
  NoHost     \* the holder of an actor in transit

VARIABLES
  owner,     \* owner[c]: the authority of cell c
  holder,    \* holder[a]: the host simulating actor a, or NoHost
  cellOf     \* cellOf[a]: the cell actor a is in

vars == <<owner, holder, cellOf>>

TypeOK ==
  /\ owner \in [Cells -> HostIds]
  /\ holder \in [Actors -> HostIds \cup {NoHost}]
  /\ cellOf \in [Actors -> Cells]

Init ==
  /\ owner \in [Cells -> HostIds]
  /\ cellOf \in [Actors -> Cells]
  /\ holder = [a \in Actors |-> owner[cellOf[a]]]

\* The simulating host moves actor a to cell d.
Move(a, d) ==
  /\ holder[a] # NoHost
  /\ d # cellOf[a]
  /\ cellOf' = [cellOf EXCEPT ![a] = d]
  /\ UNCHANGED <<owner, holder>>

\* Actors in S, each in a cell its simulating host is not authority of, are
\* given up together (one pass of that host finds them all).
Release(S) ==
  /\ S # {}
  /\ \A a \in S : holder[a] # NoHost /\ owner[cellOf[a]] # holder[a]
  /\ holder' = [a \in Actors |-> IF a \in S THEN NoHost ELSE holder[a]]
  /\ UNCHANGED <<owner, cellOf>>

\* Actors in S, in transit, are taken up by the authorities of the cells
\* they went to (one packet may carry several).
Acquire(S) ==
  /\ S # {}
  /\ \A a \in S : holder[a] = NoHost
  /\ holder' = [a \in Actors |-> IF a \in S THEN owner[cellOf[a]] ELSE holder[a]]
  /\ UNCHANGED <<owner, cellOf>>

ReleaseOf(a) == \E S \in SUBSET Actors : a \in S /\ Release(S)
AcquireOf(a) == \E S \in SUBSET Actors : a \in S /\ Acquire(S)

Next ==
  \/ \E a \in Actors, d \in Cells : Move(a, d)
  \/ \E S \in SUBSET Actors : Release(S) \/ Acquire(S)

Spec ==
  /\ Init /\ [][Next]_vars
  /\ \A a \in Actors : WF_vars(ReleaseOf(a)) /\ WF_vars(AcquireOf(a))

=============================================================================
