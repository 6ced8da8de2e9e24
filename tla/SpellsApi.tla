------------------------------ MODULE SpellsApi --------------------------------
(***************************************************************************)
(* The spell functions of the server's script API (Spells.cpp): per-player *)
(* change buffers that a script fills and sends, or reads after a client's *)
(* packet filled them, and one process-wide buffer of active effects that  *)
(* AddSpellActiveEffect fills and the next AddSpellActive consumes.        *)
(*                                                                         *)
(* Scripts run on the server's single thread, one call at a time. Every    *)
(* function starts with GET_PLAYER, which returns at once when the pid has *)
(* no Player. An exception inside one of these noexcept functions calls    *)
(* std::terminate: the server stops. Spell, effect and display-name data   *)
(* are abstracted to ids; the Send functions only hand the buffers to the  *)
(* network and are not modelled.                                           *)
(***************************************************************************)
EXTENDS Naturals, Sequences, SequencesExt

CONSTANTS
  Pids,        \* player ids a script may pass
  SpellIds,    \* spell ids
  EffectIds,   \* effect ids of ESM::ActiveEffect
  Actions,     \* values of the changes' action field (SET, ADD, REMOVE)
  MaxChanges   \* bound on every buffer's length

ASSUME MaxChanges \in Nat \ {0}

VARIABLES
  players,              \* pids that have a Player (GET_PLAYER succeeds)
  spellbook,            \* spellbookChanges.spells per player
  spellbookAction,      \* spellbookChanges.action per player
  activeSpells,         \* spellsActiveChanges.activeSpells per player
  activeAction,         \* spellsActiveChanges.action per player
  storedActiveEffects,  \* the global std::vector<ESM::ActiveEffect>
  fault                 \* "none", or the accessor whose at() threw

vars == <<players, spellbook, spellbookAction, activeSpells, activeAction,
          storedActiveEffects, fault>>

\* An active spell: its id and the effects attached to it.
ActiveSpell == [id : SpellIds, effects : Seq(EffectIds)]

\* Indices a script may pass: every valid one and the first invalid one.
Indices == 0..MaxChanges

Running == fault = "none"

Init ==
  /\ players = Pids
  /\ spellbook = [p \in Pids |-> <<>>]
  /\ spellbookAction = [p \in Pids |-> CHOOSE x \in Actions : TRUE]
  /\ activeSpells = [p \in Pids |-> <<>>]
  /\ activeAction = [p \in Pids |-> CHOOSE x \in Actions : TRUE]
  /\ storedActiveEffects = <<>>
  /\ fault = "none"

-----------------------------------------------------------------------------
(* Players and their clients (the server outside Spells.cpp)               *)

\* A player disconnects: its Player, with its buffers, is destroyed.
PlayerDisconnects(p) ==
  /\ Running /\ p \in players
  /\ players' = players \ {p}
  /\ UNCHANGED <<spellbook, spellbookAction, activeSpells, activeAction,
                 storedActiveEffects, fault>>

\* A player connects under pid p: a new Player with empty buffers.
PlayerConnects(p) ==
  /\ Running /\ p \notin players
  /\ players' = players \cup {p}
  /\ spellbook' = [spellbook EXCEPT ![p] = <<>>]
  /\ activeSpells' = [activeSpells EXCEPT ![p] = <<>>]
  /\ UNCHANGED <<spellbookAction, activeAction, storedActiveEffects, fault>>

\* ID_PLAYER_SPELLS_ACTIVE from p's client: the packet's content replaces
\* spellsActiveChanges, and the script's handler then reads it.
ReceiveSpellsActive(p, spells) ==
  /\ Running /\ p \in players
  /\ activeSpells' = [activeSpells EXCEPT ![p] = spells]
  /\ UNCHANGED <<players, spellbook, spellbookAction, activeAction,
                 storedActiveEffects, fault>>

-----------------------------------------------------------------------------
(* Script calls. Each is a no-op when GET_PLAYER finds no Player.          *)

\* GET_PLAYER(pid, player, ...): the call goes on only for a Player.
Call(p, body) == Running /\ IF p \in players THEN body ELSE UNCHANGED vars

ClearSpellbookChanges(p) ==
  Call(p, /\ spellbook' = [spellbook EXCEPT ![p] = <<>>]
          /\ UNCHANGED <<players, spellbookAction, activeSpells, activeAction,
                         storedActiveEffects, fault>>)

ClearSpellsActiveChanges(p) ==
  Call(p, /\ activeSpells' = [activeSpells EXCEPT ![p] = <<>>]
          /\ UNCHANGED <<players, spellbook, spellbookAction, activeAction,
                         storedActiveEffects, fault>>)

SetSpellbookChangesAction(p, x) ==
  Call(p, /\ spellbookAction' = [spellbookAction EXCEPT ![p] = x]
          /\ UNCHANGED <<players, spellbook, activeSpells, activeAction,
                         storedActiveEffects, fault>>)

SetSpellsActiveChangesAction(p, x) ==
  Call(p, /\ activeAction' = [activeAction EXCEPT ![p] = x]
          /\ UNCHANGED <<players, spellbook, spellbookAction, activeSpells,
                         storedActiveEffects, fault>>)

AddSpell(p, id) ==
  Call(p, /\ Len(spellbook[p]) < MaxChanges
          /\ spellbook' = [spellbook EXCEPT ![p] = Append(@, id)]
          /\ UNCHANGED <<players, spellbookAction, activeSpells, activeAction,
                         storedActiveEffects, fault>>)

\* The new active spell takes a copy of the global effects, which are then
\* cleared; with no Player the effects stay for the next call.
AddSpellActive(p, id) ==
  Call(p, /\ Len(activeSpells[p]) < MaxChanges
          /\ activeSpells' = [activeSpells EXCEPT ![p] =
                Append(@, [id |-> id, effects |-> storedActiveEffects])]
          /\ storedActiveEffects' = <<>>
          /\ UNCHANGED <<players, spellbook, spellbookAction, activeAction,
                         fault>>)

\* The effect goes into the global buffer, whichever player p is.
AddSpellActiveEffect(p, e) ==
  Call(p, /\ Len(storedActiveEffects) < MaxChanges
          /\ storedActiveEffects' = Append(storedActiveEffects, e)
          /\ UNCHANGED <<players, spellbook, spellbookAction, activeSpells,
                         activeAction, fault>>)

-----------------------------------------------------------------------------
(* Accessors: they return a value and change nothing, unless at() throws.  *)

\* An accessor whose at() throws when throws holds, naming the fault.
Access(p, throws, name) ==
  Call(p, /\ fault' = IF throws THEN name ELSE fault
          /\ UNCHANGED <<players, spellbook, spellbookAction, activeSpells,
                         activeAction, storedActiveEffects>>)

\* std::vector::at(index) throws std::out_of_range.
AtThrows(seq, i) == i + 1 \notin DOMAIN seq

\* GetSpellId: index >= size() returns "invalid", else spells.at(index).
GetSpellId(p, i) ==
  Access(p, ~(i >= Len(spellbook[p])) /\ AtThrows(spellbook[p], i), "spellIndex")

\* GetSpellsActiveId and GetSpellsActiveDisplayName: index >= size()
\* returns "invalid", else activeSpells.at(index).
GetSpellsActiveId(p, i) ==
  Access(p, ~(i >= Len(activeSpells[p])) /\ AtThrows(activeSpells[p], i),
         "spellIndex")

\* GetSpellsActiveEffectCount: index >= size() returns 0, else the size of
\* activeSpells.at(index)'s effects.
GetSpellsActiveEffectCount(p, i) ==
  Access(p, ~(i >= Len(activeSpells[p])) /\ AtThrows(activeSpells[p], i),
         "spellIndex")

\* GetSpellsActiveEffectId, ...Arg, ...Magnitude, ...Duration, ...TimeLeft:
\* spellIndex >= size() returns 0; otherwise
\* activeSpells.at(spellIndex).params.mEffects.at(effectIndex), whose
\* effectIndex is never checked.
GetSpellsActiveEffect(p, i, j) ==
  LET spells == activeSpells[p]
      checked == ~(i >= Len(spells))
  IN Access(p, checked /\ (AtThrows(spells, i) \/ AtThrows(spells[i + 1].effects, j)),
            IF AtThrows(spells, i) THEN "spellIndex" ELSE "effectIndex")

-----------------------------------------------------------------------------

\* Contents of a client's ID_PLAYER_SPELLS_ACTIVE packet.
SpellsPackets ==
  BoundedSeq([id : SpellIds, effects : BoundedSeq(EffectIds, 1)], 1)

Next ==
  \/ \E p \in Pids :
       \/ PlayerDisconnects(p) \/ PlayerConnects(p)
       \/ ClearSpellbookChanges(p) \/ ClearSpellsActiveChanges(p)
       \/ \E x \in Actions :
            SetSpellbookChangesAction(p, x) \/ SetSpellsActiveChangesAction(p, x)
       \/ \E id \in SpellIds : AddSpell(p, id) \/ AddSpellActive(p, id)
       \/ \E e \in EffectIds : AddSpellActiveEffect(p, e)
       \/ \E i \in Indices :
            \/ GetSpellId(p, i) \/ GetSpellsActiveId(p, i)
            \/ GetSpellsActiveEffectCount(p, i)
            \/ \E j \in Indices : GetSpellsActiveEffect(p, i, j)
  \/ \E p \in Pids, s \in SpellsPackets : ReceiveSpellsActive(p, s)

Spec == Init /\ [][Next]_vars

-----------------------------------------------------------------------------
(* Properties                                                              *)

\* No accessor call stops the server: every out-of-range index, spell or
\* effect, yields the accessor's "not found" value (spec.md section 6).
NoFault == fault = "none"

=============================================================================
