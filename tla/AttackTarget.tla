----------------------------- MODULE AttackTarget -----------------------------
(***************************************************************************)
(* How an attack's target is written on one host and resolved on another  *)
(* (MechanicsHelper.cpp). A Target names a player by RakNet guid, or an    *)
(* actor by its refNum index and mpNum. getTarget builds a fresh Target;   *)
(* assignAttackTarget and resetAttack write the fields of an Attack record *)
(* that persists from one attack to the next, and set only some of them.  *)
(* processAttack resolves a received Target to the victim.                 *)
(*                                                                         *)
(* Every host knows every player (its own and the DedicatedPlayers) and    *)
(* every actor (as a LocalActor or a DedicatedActor); the world Ptr of an  *)
(* entity is the entity itself. The guid of a host is the host, so the    *)
(* local player's and a DedicatedPlayer's branches write the same guid.    *)
(***************************************************************************)
EXTENDS Integers

CONSTANTS
  Hosts,        \* players, each on its own client; a player's guid
  RefNums,      \* refNum indices; 0 for a server-spawned object
  MpNums,       \* mpNums; 0 for an object of the game's data files
  ActorIds,     \* <<refNum, mpNum>> of the actors in the world
  Unassigned,   \* RakNet::RakNetGUID(), the guid of no player
  NoEntity,     \* an empty Ptr
  Attackers     \* the attack records: LocalPlayer::attack, LocalActor::attack

ASSUME ActorIds \subseteq (RefNums \X MpNums)
ASSUME Unassigned \notin Hosts /\ NoEntity \notin Hosts \cup ActorIds

Entities == Hosts \cup ActorIds

\* mwmp::Target, without the refId and name strings: refId is non-empty
\* exactly for a target written from a CellRef, which refIdSet records.
Targets == [isPlayer : BOOLEAN, guid : Hosts \cup {Unassigned},
            refIdSet : BOOLEAN, refNumIndex : RefNums \cup {-1},
            mpNum : MpNums \cup {-1}]

VARIABLES
  target,     \* target[r]: the target field of attack record r
  intended    \* intended[r]: the entity r's last write meant, or NoEntity

vars == <<target, intended>>

-----------------------------------------------------------------------------

\* clearTarget: isPlayer, refId, refNumIndex, mpNum and name; guid is kept.
ClearTarget(t) == [t EXCEPT !.isPlayer = FALSE, !.refIdSet = FALSE,
                            !.refNumIndex = -1, !.mpNum = -1]

\* getTarget(ptr): a default Target, cleared, then filled for the
\* local player, a DedicatedPlayer, or any other reference.
GetTarget(e) ==
  LET t == ClearTarget([isPlayer |-> FALSE, guid |-> Unassigned,
                        refIdSet |-> FALSE, refNumIndex |-> -1, mpNum |-> -1])
  IN CASE e = NoEntity -> t
       [] e \in Hosts  -> [t EXCEPT !.isPlayer = TRUE, !.guid = e]
       [] e \in ActorIds -> [t EXCEPT !.refIdSet = TRUE, !.refNumIndex = e[1],
                                    !.mpNum = e[2]]

\* A faulty assignAttackTarget whose player branches leave isPlayer as the
\* previous target had it.
AssignAttackTargetKeepsIsPlayer(t, e) ==
  IF e \in Hosts THEN [t EXCEPT !.guid = e]
  ELSE [t EXCEPT !.isPlayer = FALSE, !.refIdSet = TRUE,
                 !.refNumIndex = e[1], !.mpNum = e[2]]

\* assignAttackTarget(attack, ptr): the local player's guid or the
\* DedicatedPlayer's guid with isPlayer; otherwise isPlayer FALSE and the
\* CellRef's ids. Fields of the other kind keep their old values.
AssignAttackTarget(t, e) ==
  IF e \in Hosts THEN [t EXCEPT !.isPlayer = TRUE, !.guid = e]
  ELSE [t EXCEPT !.isPlayer = FALSE, !.refIdSet = TRUE,
                 !.refNumIndex = e[1], !.mpNum = e[2]]

\* resetAttack: guid, refId, refNumIndex and mpNum are reset; isPlayer is
\* not.
ResetAttack(t) == [t EXCEPT !.guid = Unassigned, !.refIdSet = FALSE,
                            !.refNumIndex = 0, !.mpNum = 0]


\* getPlayerPtr(target) on host k: the local player for k's own guid, else
\* the DedicatedPlayer with that guid, else an empty Ptr.
GetPlayerPtr(k, t) ==
  CASE t.guid = k      -> k
    [] t.guid \in Hosts -> t.guid
    [] OTHER           -> NoEntity

\* The victim processAttack finds on host k: a player by guid, or the
\* LocalActor or DedicatedActor with the target's refNum and mpNum.
ResolveVictim(k, t) ==
  IF t.isPlayer THEN GetPlayerPtr(k, t)
  ELSE IF <<t.refNumIndex, t.mpNum>> \in ActorIds
       THEN <<t.refNumIndex, t.mpNum>> ELSE NoEntity

-----------------------------------------------------------------------------

Init ==
  /\ target = [r \in Attackers |-> GetTarget(NoEntity)]
  /\ intended = [r \in Attackers |-> NoEntity]

\* Attacker r targets e; its record is written by assignAttackTarget.
Assign(r, e) ==
  /\ target' = [target EXCEPT ![r] = AssignAttackTarget(@, e)]
  /\ intended' = [intended EXCEPT ![r] = e]

\* r's target is replaced by a fresh one from getTarget (an empty Ptr too).
Build(r, e) ==
  /\ target' = [target EXCEPT ![r] = GetTarget(e)]
  /\ intended' = [intended EXCEPT ![r] = e]

\* r's attack is over and its record reset.
Reset(r) ==
  /\ target' = [target EXCEPT ![r] = ResetAttack(@)]
  /\ intended' = [intended EXCEPT ![r] = NoEntity]

Next ==
  \E r \in Attackers :
    \/ \E e \in Entities : Assign(r, e)
    \/ \E e \in Entities \cup {NoEntity} : Build(r, e)
    \/ Reset(r)

Spec == Init /\ [][Next]_vars

-----------------------------------------------------------------------------
(* Properties                                                              *)

\* Whatever the record held before, every host resolves the written target
\* to the entity it was written for, and a reset target to no victim: the
\* fields assignAttackTarget and resetAttack leave stale never decide.
TargetResolves ==
  \A r \in Attackers, k \in Hosts : ResolveVictim(k, target[r]) = intended[r]

=============================================================================
