------------------------- MODULE MC_WeaponAnimation -------------------------
(***************************************************************************)
(* One actor's weapon animation with MechanicsHelper::unequipItemsByEffect *)
(* acting on the same two slots. A caller holds its (enchantmentType,     *)
(* effectId, attributeId, skillId) query and may unequip by it at any     *)
(* time, between attachArrow and releaseArrow included.                  *)
(*                                                                         *)
(* Items: a dart (thrown) and an arrow, enchanted with enchantments of    *)
(* different types, a bow and a torch without one; two of each, so the    *)
(* last arrow or dart can be used up and a bow shot can come before a     *)
(* throw.                                                                 *)
(***************************************************************************)
EXTENDS WeaponAnimation, Integers

CONSTANTS dart, bow, arrow, torch,
          EffectIds, AttrIds, EnchTypes, Enchantment, MaxEffects

VARIABLE query

\* Slot 0 is CarriedRight, slot 1 Ammunition.
EL == INSTANCE EffectLists WITH NoItem <- None, Slots <- 2

MC_AttrIds == {-1, 0}

MC_Enchantment ==
  [i \in {dart, bow, arrow, torch} |->
     CASE i = dart -> [type |-> 0, effects |-> <<[id |-> 1, attribute |-> 0, skill |-> -1],
                                                 [id |-> 2, attribute |-> -1, skill |-> 0]>>]
       [] i = arrow -> [type |-> 1, effects |-> <<[id |-> 2, attribute |-> 0, skill |-> 0]>>]
       [] OTHER -> None]

Equipment == [s \in 0..1 |-> IF s = 0 THEN carriedRight ELSE ammunition]

\* A caller of unequipItemsByEffect with its query: the slots it empties are
\* the actor's CarriedRight and Ammunition.
UnequipByEffect ==
  LET eq == EL!UnequipItemsByEffect(Equipment, query)
  IN /\ carriedRight' = eq[0]
     /\ ammunition' = eq[1]
     /\ UNCHANGED <<count, arrowAttached, attack, launched, sent, inAir, hit, query>>

MC_Init == Init /\ EL!CallerInit
MC_Next == (Next /\ UNCHANGED query) \/ UnequipByEffect
MC_Spec == MC_Init /\ [][MC_Next]_<<vars, query>>

\* States that differ only in the ghost hit, which no action and no checked
\* property reads, are explored once.
MC_View == <<carriedRight, ammunition, count, arrowAttached, attack, launched, sent,
             inAir, query>>

=============================================================================
