---------------------------- MODULE WeaponAnimation ----------------------------
(***************************************************************************)
(* WeaponAnimation::attachArrow, detachArrow and releaseArrow              *)
(* (mwrender/weaponanimation.cpp) for one LocalPlayer or LocalActor, with  *)
(* the tes3mp additions that fill its mwmp::Attack for the next attack    *)
(* packet. The inventory is the CarriedRight and Ammunition slots and a    *)
(* count per item; inv.remove of the last one of an item empties its slot. *)
(* mAmmunition is whether an arrow part is attached. The scene graph is    *)
(* abstracted to whether the weapon node or the arrow's parental node      *)
(* paths are found, chosen at each release. Strength, orientation, speed,  *)
(* fatigue and sounds are data the properties do not tell apart.          *)
(*                                                                         *)
(* The packet itself is sent by LocalPlayer/LocalActor (not under src/):   *)
(* when shouldSend is set, the fields are sent and shouldSend is cleared.  *)
(* The ghost launched is the item the last release launched, if any.      *)
(*                                                                         *)
(* MechanicsHelper::processAttack's melee branch processes an attack      *)
(* packet of this actor on another host, against the actor's replica      *)
(* there, whose inventory the replicated releases and equipment keep equal *)
(* to this one. A hit packet comes for a projectile in the air or for a    *)
(* swing; projectiles of one item are not told apart. Damage, blocking,   *)
(* the casts and onHit are applied to the victim (data): the model keeps   *)
(* the weapon and projectile they are given.                              *)
(***************************************************************************)
EXTENDS Naturals

CONSTANTS
  Thrown,      \* weapons of class ESM::WeaponType::Thrown
  Ranged,      \* weapons of class ESM::WeaponType::Ranged (bows, crossbows)
  Ammo,        \* arrows and bolts
  Other,       \* items held in the right hand that are not ESM::Weapon
  None,        \* an empty slot; an empty refId ("")
  MaxCount     \* items of each kind in the inventory at start

Weapons == Thrown \cup Ranged
Items == Weapons \cup Ammo \cup Other

VARIABLES
  carriedRight,  \* inv.getSlot(Slot_CarriedRight)
  ammunition,    \* inv.getSlot(Slot_Ammunition)
  count,         \* the inventory's count of each item
  arrowAttached, \* mAmmunition holds a part
  attack,        \* the local mwmp::Attack: shouldSend, rangedWeaponId, rangedAmmoId
  launched,      \* ghost: the item the last releaseArrow launched, or None
  sent,          \* ghost: the last attack packet sent, with what was launched
  inAir,         \* items launched whose hit packet has not been processed
  hit            \* ghost: the last hit processAttack applied to a victim

vars == <<carriedRight, ammunition, count, arrowAttached, attack, launched, sent,
          inAir, hit>>

AttackRec == [shouldSend : BOOLEAN, rangedWeaponId : Weapons \cup {None},
              rangedAmmoId : Ammo \cup {None}]

TypeOK ==
  /\ carriedRight \in Items \cup {None}
  /\ ammunition \in Ammo \cup {None}
  /\ count \in [Items -> 0..MaxCount]
  /\ arrowAttached \in BOOLEAN
  /\ attack \in AttackRec
  /\ launched \in Items \cup {None}
  /\ sent \in [rangedWeaponId : Weapons \cup {None}, rangedAmmoId : Ammo \cup {None},
               launched : Items \cup {None}] \cup {None}
  /\ inAir \subseteq Weapons \cup Ammo
  /\ hit \in [of : Weapons \cup Ammo \cup {None}, weapon : Weapons \cup {None},
              projectile : Ammo \cup {None}] \cup {None}

Init ==
  /\ count = [i \in Items |-> MaxCount]
  /\ carriedRight \in Items \cup {None}
  /\ ammunition \in Ammo \cup {None}
  /\ arrowAttached = FALSE
  /\ attack = [shouldSend |-> FALSE, rangedWeaponId |-> None, rangedAmmoId |-> None]
  /\ launched = None
  /\ sent = None
  /\ inAir = {}
  /\ hit = None

-----------------------------------------------------------------------------
(* The player equips and unequips items between attacks.                   *)

EquipRight(i) ==
  /\ count[i] > 0
  /\ carriedRight' = i
  /\ UNCHANGED <<ammunition, count, arrowAttached, attack, launched, sent, inAir, hit>>

EquipAmmo(a) ==
  /\ count[a] > 0
  /\ ammunition' = a
  /\ UNCHANGED <<carriedRight, count, arrowAttached, attack, launched, sent, inAir, hit>>

UnequipAmmo ==
  /\ ammunition # None
  /\ ammunition' = None
  /\ UNCHANGED <<carriedRight, count, arrowAttached, attack, launched, sent, inAir, hit>>

-----------------------------------------------------------------------------

\* A faulty remove that leaves the slot holding an item whose last one is gone.
RemoveKeepsSlot(i) ==
  /\ count' = [count EXCEPT ![i] = @ - 1]
  /\ UNCHANGED <<carriedRight, ammunition>>

\* inv.remove(item, 1): the last one of an item leaves its slot empty.
Remove(i) ==
  /\ count' = [count EXCEPT ![i] = @ - 1]
  /\ carriedRight' = IF carriedRight = i /\ count[i] = 1 THEN None ELSE carriedRight
  /\ ammunition' = IF ammunition = i /\ count[i] = 1 THEN None ELSE ammunition

\* attachArrow: a thrown weapon is shown; a bow or crossbow gets the
\* ammunition's model as mAmmunition when the arrow bone exists and an
\* ammunition is equipped. The arrow bone is part of the actor's skeleton.
AttachArrow(hasArrowBone) ==
  /\ carriedRight \in Weapons
  /\ arrowAttached' = IF carriedRight \in Ranged /\ hasArrowBone /\ ammunition # None
                      THEN TRUE ELSE arrowAttached
  /\ UNCHANGED <<carriedRight, ammunition, count, attack, launched, sent, inAir, hit>>

\* detachArrow
DetachArrow ==
  /\ arrowAttached' = FALSE
  /\ UNCHANGED <<carriedRight, ammunition, count, attack, launched, sent, inAir, hit>>

\* The tes3mp block at the top of releaseArrow: the local attack records the
\* weapon and is marked for sending.
RecordAttack(w) ==
  [attack EXCEPT !.rangedWeaponId = w, !.shouldSend = TRUE]

\* A faulty thrown branch that clears rangedAmmoId only after the weapon
\* node is found.
ThrowWeaponClearsLate(rec, nodeFound) ==
  /\ IF nodeFound
     THEN /\ attack' = [rec EXCEPT !.rangedAmmoId = None]
          /\ launched' = carriedRight
          /\ Remove(carriedRight)
     ELSE /\ attack' = rec
          /\ launched' = None
          /\ UNCHANGED <<count, carriedRight, ammunition>>
  /\ UNCHANGED arrowAttached

\* The thrown branch: rangedAmmoId is cleared, then the release returns when
\* the weapon node or its node paths are missing; otherwise the weapon is
\* launched, hidden and removed.
ThrowWeapon(rec, nodeFound) ==
  /\ attack' = [rec EXCEPT !.rangedAmmoId = None]
  /\ IF nodeFound
     THEN /\ launched' = carriedRight
          /\ Remove(carriedRight)
     ELSE /\ launched' = None
          /\ UNCHANGED <<count, carriedRight, ammunition>>
  /\ UNCHANGED arrowAttached

\* The bow branch: it returns without an equipped ammunition or an attached
\* arrow; rangedAmmoId is recorded; it returns when the arrow has no node
\* paths; otherwise the ammunition is launched and removed and the arrow
\* part reset.
ShootAmmo(rec, nodeFound) ==
  IF ammunition = None \/ ~arrowAttached
  THEN /\ attack' = rec
       /\ launched' = None
       /\ UNCHANGED <<count, carriedRight, ammunition, arrowAttached>>
  ELSE /\ attack' = [rec EXCEPT !.rangedAmmoId = ammunition]
       /\ IF nodeFound
          THEN /\ launched' = ammunition
               /\ Remove(ammunition)
               /\ arrowAttached' = FALSE
          ELSE /\ launched' = None
               /\ UNCHANGED <<count, carriedRight, ammunition, arrowAttached>>

\* releaseArrow: it returns at once without a weapon in the right hand.
ReleaseArrow(nodeFound) ==
  /\ carriedRight \in Weapons
  /\ LET rec == RecordAttack(carriedRight)
     IN IF carriedRight \in Thrown THEN ThrowWeapon(rec, nodeFound)
        ELSE ShootAmmo(rec, nodeFound)
  /\ inAir' = IF launched' = None THEN inAir ELSE inAir \cup {launched'}
  /\ UNCHANGED <<sent, hit>>

\* The owner's update sends the attack packet and clears shouldSend.
SendAttack ==
  /\ attack.shouldSend
  /\ sent' = [rangedWeaponId |-> attack.rangedWeaponId,
              rangedAmmoId |-> attack.rangedAmmoId, launched |-> launched]
  /\ attack' = [attack EXCEPT !.shouldSend = FALSE]
  /\ UNCHANGED <<carriedRight, ammunition, count, arrowAttached, launched, inAir, hit>>

\* processAttack for a MELEE attack packet of this actor: weapon is the
\* CarriedRight item unless the slot is empty or holds a non-weapon, and
\* projectile the Ammunition item, both read when the packet is processed.
\* Only a victim found on the host gets the hit.
ProcessAttack(p, victimFound) ==
  LET weapon == IF carriedRight \in Weapons THEN carriedRight ELSE None
  IN /\ inAir' = inAir \ {p}
     /\ hit' = IF victimFound
               THEN [of |-> p, weapon |-> weapon, projectile |-> ammunition]
               ELSE hit
     /\ UNCHANGED <<carriedRight, ammunition, count, arrowAttached, attack,
                    launched, sent>>

Next ==
  \/ \E i \in Items : EquipRight(i)
  \/ \E a \in Ammo : EquipAmmo(a)
  \/ UnequipAmmo
  \/ \E b \in BOOLEAN : AttachArrow(b)
  \/ DetachArrow
  \/ \E b \in BOOLEAN : ReleaseArrow(b)
  \/ SendAttack
  \/ \E p \in inAir \cup {None}, b \in BOOLEAN : ProcessAttack(p, b)

Spec == Init /\ [][Next]_vars

-----------------------------------------------------------------------------
(* Properties                                                              *)

\* The projectile an attack packet names: the weapon for a thrown weapon,
\* the ammunition for a bow or crossbow.
Projectile(p) ==
  IF p.rangedWeaponId \in Thrown THEN p.rangedWeaponId ELSE p.rangedAmmoId

\* A packet sent for a thrown weapon never carries an ammunition id, even
\* when a bow shot came before and the throw found no weapon node:
\* releaseArrow clears rangedAmmoId before its early returns.
ThrownAttackCarriesNoAmmo ==
  sent # None /\ sent.rangedWeaponId \in Thrown => sent.rangedAmmoId = None

\* The comment at the top of releaseArrow: ranged attacks record the weapon
\* and ammo ids because several projectiles can be in the air; every attack
\* packet names the projectile its release launched.
SentAttackIsLaunched ==
  sent # None => /\ sent.launched # None
                 /\ Projectile(sent) = sent.launched

=============================================================================
