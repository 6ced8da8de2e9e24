--------------------------- MODULE MechanicsHelper -----------------------------
(***************************************************************************)
(* The actor lookups of mwmp::MechanicsHelper and their two callers on a   *)
(* client: Cell::readAttack (processAttack finds the victim) and           *)
(* WeaponAnimation::releaseArrow (getLocalAttack / getDedicatedAttack find *)
(* the Attack record of the actor that shoots). Both go through the        *)
(* CellController's directories to a cell's map; the hit, the projectile   *)
(* and the attack data themselves are data of the records.                *)
(***************************************************************************)
EXTENDS Cell

\* An attacked or attacking actor's record is looked up through the local
\* directory first, then through the dedicated one; a lookup whose cell map
\* lacks the key throws from at().
LookUpActor(s, a) ==
  IF IsLocalActor(s, a)
  THEN [s EXCEPT !.crashed = @ \/ GetLocalActorThrows(s, a)]
  ELSE IF IsDedicatedActor(s, a)
  THEN [s EXCEPT !.crashed = @ \/ GetDedicatedActorThrows(s, a)]
  ELSE s

\* MechanicsHelper::processAttack for a non-player victim: the victim is
\* resolved with isLocalActor/getLocalActor, else with
\* isDedicatedActor/getDedicatedActor; the hit is then applied (data).
ProcessAttack(s, victim) == LookUpActor(s, victim)

\* WeaponAnimation::releaseArrow: getLocalAttack(actor), and when the actor
\* is not local, getDedicatedAttack(actor), each a directory lookup.
ReleaseArrow(s, a) == LookUpActor(s, a)

\* Cell::readAttack: every entry <<attacker, victim>> whose attacker has a
\* DedicatedActor in the cell is processed, in order, until one throws.
ReadAttack(s, c, batch) ==
  LET RECURSIVE Entries(_, _)
      Entries(t, i) ==
        IF i > Len(batch) \/ t.crashed THEN t
        ELSE Entries(IF batch[i][1] \in t.dedicatedActors[c]
                     THEN ProcessAttack(t, batch[i][2]) ELSE t, i + 1)
  IN Entries(s, 1)

=============================================================================
