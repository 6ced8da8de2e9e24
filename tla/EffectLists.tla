------------------------------ MODULE EffectLists ------------------------------
(***************************************************************************)
(* MechanicsHelper::doesEffectListContainEffect and unequipItemsByEffect   *)
(* (MechanicsHelper.cpp): the search of an enchantment's effect list for   *)
(* an effect, with -1 as the wildcard for attribute and skill, and the     *)
(* loop over the equipment slots that unequips every item whose            *)
(* enchantment has the given type and contains the effect. Ids,           *)
(* attributes and skills are small integers; an item's enchantment is      *)
(* looked up by name, and every name an item carries exists in the store.  *)
(***************************************************************************)
EXTENDS Integers, Sequences, SequencesExt

CONSTANTS
  EffectIds,     \* magic effect ids
  AttrIds,       \* attribute and skill values an effect carries (-1: none)
  EnchTypes,     \* ESM::Enchantment::mData.mType values
  Items,         \* item references that can be equipped
  NoItem,        \* an empty slot (inventoryStore.end())
  Enchantment,   \* Enchantment[i]: the enchantment of item i, or NoItem
  Slots,         \* MWWorld::InventoryStore::Slots
  MaxEffects     \* bound on an effect list's length

Effect == [id : EffectIds, attribute : AttrIds, skill : AttrIds]
EffectList == BoundedSeq(Effect, MaxEffects)
EnchantmentRec == [type : EnchTypes, effects : EffectList]

ASSUME Enchantment \in [Items -> EnchantmentRec \cup {NoItem}]

\* The (enchantmentType, effectId, attributeId, skillId) a caller passes.
Query == [type : EnchTypes, id : EffectIds, attribute : AttrIds \cup {-1},
          skill : AttrIds \cup {-1}]

-----------------------------------------------------------------------------

\* The loop body's test of one effect.
EffectMatches(e, q) ==
  /\ e.id = q.id
  /\ q.attribute = -1 \/ e.attribute = q.attribute
  /\ q.skill = -1 \/ e.skill = q.skill

\* doesEffectListContainEffect: the effects in order; true at the first
\* match, false after the last.
RECURSIVE DoesEffectListContainEffect(_, _)
DoesEffectListContainEffect(l, q) ==
  IF l = <<>> THEN FALSE
  ELSE EffectMatches(Head(l), q) \/ DoesEffectListContainEffect(Tail(l), q)

\* unequipSlot(slot) for every slot in 0..Slots-1, in order, whose item is
\* enchanted with an enchantment of the type whose effects contain the effect.
RECURSIVE UnequipFrom(_, _, _)
UnequipFrom(eq, q, slot) ==
  IF slot >= Slots THEN eq
  ELSE LET item == eq[slot]
           ench == IF item = NoItem THEN NoItem ELSE Enchantment[item]
           hit  == /\ ench # NoItem
                   /\ ench.type = q.type
                   /\ DoesEffectListContainEffect(ench.effects, q)
       IN UnequipFrom(IF hit THEN [eq EXCEPT ![slot] = NoItem] ELSE eq, q, slot + 1)

UnequipItemsByEffect(eq, q) == UnequipFrom(eq, q, 0)

-----------------------------------------------------------------------------
(* A caller of both functions, with its (enchantmentType, effectId,        *)
(* attributeId, skillId).                                                  *)

VARIABLE query

CallerInit == query \in Query

=============================================================================
