-------------------------------- MODULE Cell ----------------------------------
(***************************************************************************)
(* The actor bookkeeping of one client host: mwmp::Cell (Cell.cpp) and the *)
(* parts of the CellController it calls.                                   *)
(*                                                                         *)
(* Every handler of Cell.cpp is an operator from a host state to a host    *)
(* state, so that CellSync can compose them into the frame loop of one     *)
(* host and a later module can run several hosts side by side.            *)
(*                                                                         *)
(* Data carried by the records (positions, stats, equipment, AI, sounds,   *)
(* spells) is abstracted away: a record is the presence of its key in a    *)
(* cell's localActors or dedicatedActors map. The first-data flags         *)
(* (hasSentData, hasPositionData, hasStatsDynamicData) only decide whether *)
(* data is applied or sent at once, so they go with the data.              *)
(***************************************************************************)
EXTENDS Naturals, Sequences, FiniteSets

CONSTANTS
  Actors,       \* actor references, i.e. the mapIndex keys
  Cells,        \* world cells (ESM::Cell descriptions)
  Self,         \* this host's RakNetGUID (LocalPlayer::guid)
  Others,       \* GUIDs of the other players
  NoCell,       \* absent entry of a CellController actor-to-cell map
  NoHost,       \* authorityGuid of a Cell before any authority packet
  ActorOrder,   \* the order of mapIndex strings, i.e. of std::map keys
  TimeoutMs     \* updateLocal's timeoutSec (0.025 s), in milliseconds

ASSUME Self \notin Others
ASSUME NoCell \notin Cells /\ NoHost \notin Others \cup {Self}
ASSUME ActorOrder \in Seq(Actors)
       /\ Len(ActorOrder) = Cardinality(Actors)
       /\ \A a \in Actors : \E i \in DOMAIN ActorOrder : ActorOrder[i] = a
ASSUME TimeoutMs \in Nat \ {0}

Hosts == Others \cup {Self}

(***************************************************************************)
(* The state of one host.                                                  *)
(*   active            cells the CellController has initialized            *)
(*   authority         Cell::authorityGuid per cell                        *)
(*   localActors       keys of Cell::localActors per cell                  *)
(*   dedicatedActors   keys of Cell::dedicatedActors per cell              *)
(*   updateTimer       Cell::updateTimer, in ms                            *)
(*   localActorsToCells, dedicatedActorsToCells                           *)
(*                     the CellController's actor -> cell directories      *)
(*   actorCell         the CellStore the world currently holds each actor *)
(*                     reference in (Ptr::getCell)                        *)
(*   disabled, deleted RefData::isEnabled / isDeleted of each reference    *)
(*   leaked            a map insertion overwrote an existing record        *)
(*                     pointer (the old record is never deleted)           *)
(*   overrun           an iterator was incremented past end()              *)
(*   crashed           std::out_of_range escaped a packet handler          *)
(*   actorList         the Networking's one ActorList that updateLocal     *)
(*                     fills and sends: the actors whose position it sends *)
(*                     and the <<actor, new cell>> entries of its          *)
(*                     ActorCellChange                                     *)
(***************************************************************************)
HostState ==
  [active : SUBSET Cells,
   authority : [Cells -> Hosts \cup {NoHost}],
   localActors : [Cells -> SUBSET Actors],
   dedicatedActors : [Cells -> SUBSET Actors],
   updateTimer : [Cells -> 0..(TimeoutMs - 1)],
   localActorsToCells : [Actors -> Cells \cup {NoCell}],
   dedicatedActorsToCells : [Actors -> Cells \cup {NoCell}],
   actorCell : [Actors -> Cells],
   disabled : SUBSET Actors,
   deleted : SUBSET Actors,
   leaked : BOOLEAN,
   overrun : BOOLEAN,
   crashed : BOOLEAN,
   actorList : [positions : SUBSET Actors, cellChange : Seq(Actors \X Cells)]]

\* ActorList::reset.
EmptyActorList == [positions |-> {}, cellChange |-> <<>>]

\* The keys of a std::map<std::string, ...> in iteration order.
MapKeys(S) == SelectSeq(ActorOrder, LAMBDA a : a \in S)

\* The actors named by a packet's baseActors, as a set.
Named(batch) == {batch[i] : i \in DOMAIN batch}

-----------------------------------------------------------------------------
(* CellController queries used by Cell.cpp.                                *)

\* Cell::hasLocalAuthority, reached through CellController::hasLocalAuthority,
\* which is false for a cell that is not initialized.
HasLocalAuthority(s, c) == c \in s.active /\ s.authority[c] = Self

\* MWWorld::CellStore::searchExact: the reference is found in the cell's store.
SearchExact(s, c, a) == s.actorCell[a] = c

-----------------------------------------------------------------------------
(* Record creation and destruction.                                        *)

\* Cell::initializeLocalActor: new LocalActor stored under its key and
\* recorded in the CellController directory.
InitializeLocalActor(s, c, a) ==
  [s EXCEPT !.leaked = @ \/ a \in s.localActors[c],
            !.localActors[c] = @ \cup {a},
            !.localActorsToCells[a] = c]

\* Cell::initializeLocalActors: every enabled, undeleted actor reference of
\* the cell's store that has no LocalActor yet gets one.
InitializeLocalActors(s, c) ==
  LET new == {a \in Actors : /\ s.actorCell[a] = c
                             /\ a \notin s.disabled \cup s.deleted
                             /\ a \notin s.localActors[c]}
  IN [s EXCEPT !.localActors[c] = @ \cup new,
               !.localActorsToCells =
                  [a \in Actors |-> IF a \in new THEN c ELSE @[a]]]

\* Cell::initializeDedicatedActors: every actor of the packet without a
\* DedicatedActor gets one if searchExact finds its reference in this cell.
InitializeDedicatedActors(s, c, batch) ==
  LET new == {a \in Named(batch) : /\ a \notin s.dedicatedActors[c]
                                   /\ SearchExact(s, c, a)}
  IN [s EXCEPT !.dedicatedActors[c] = @ \cup new,
               !.dedicatedActorsToCells =
                  [a \in Actors |-> IF a \in new THEN c ELSE @[a]]]

\* Cell::uninitializeLocalActors: every LocalActor of the cell is deleted
\* and its key erased from the directory, whatever cell the entry names.
UninitializeLocalActors(s, c) ==
  [s EXCEPT !.localActors[c] = {},
            !.localActorsToCells =
               [a \in Actors |-> IF a \in s.localActors[c] THEN NoCell ELSE @[a]]]

\* Cell::uninitializeDedicatedActors(): the same for DedicatedActors.
UninitializeDedicatedActors(s, c) ==
  [s EXCEPT !.dedicatedActors[c] = {},
            !.dedicatedActorsToCells =
               [a \in Actors |-> IF a \in s.dedicatedActors[c] THEN NoCell ELSE @[a]]]

\* Cell::uninitializeDedicatedActors(ActorList&): for each actor of the
\* packet, in order, the directory entry is erased and then
\* dedicatedActors.at(key) is deleted; at() throws std::out_of_range for a
\* key the map does not hold, which ends the handler.
RECURSIVE UninitializeDedicatedActorsOf(_, _, _)
UninitializeDedicatedActorsOf(s, c, batch) ==
  IF batch = <<>> THEN s
  ELSE LET a == Head(batch)
           s1 == [s EXCEPT !.dedicatedActorsToCells[a] = NoCell]
       IN IF a \notin s.dedicatedActors[c]
          THEN [s1 EXCEPT !.crashed = TRUE]
          ELSE UninitializeDedicatedActorsOf(
                 [s1 EXCEPT !.dedicatedActors[c] = @ \ {a}],
                 c, Tail(batch))

-----------------------------------------------------------------------------
(* Cell::updateLocal                                                       *)

\* A faulty move that stores the record in d but leaves the directory
\* entry naming c (setLocalActorRecord forgotten).
MoveLocalActorNoRecord(s, c, a, d) ==
  [s EXCEPT !.leaked = @ \/ a \in s.localActors[d],
            !.localActors = [@ EXCEPT ![d] = @ \cup {a}, ![c] = @ \ {a}]]

\* A LocalActor moves to cell d, still under our authority: stored in d's
\* map under its key (overwriting any record there) and re-recorded.
MoveLocalActor(s, c, a, d) ==
  [s EXCEPT !.leaked = @ \/ a \in s.localActors[d],
            !.localActors = [@ EXCEPT ![d] = @ \cup {a}, ![c] = @ \ {a}],
            !.localActorsToCells[a] = d]

\* A faulty delete that erases the directory entry but leaves the record in
\* the cell's map (localActors.erase forgotten).
DeleteLocalActorKeepsRecord(s, c, a) == [s EXCEPT !.localActorsToCells[a] = NoCell]

\* A LocalActor is deleted: directory entry erased, key erased from the map.
DeleteLocalActor(s, c, a) ==
  [s EXCEPT !.localActors[c] = @ \ {a},
            !.localActorsToCells[a] = NoCell]

\* The loop over localActors. keys is the map's content when the loop
\* starts; i is the position of the iterator. In the deleted branch the code
\* does localActors.erase(it++) and then falls through to ++it, so the
\* next key is skipped, and when the erased key was the last one the
\* iterator is incremented past end() (undefined behaviour: the model
\* records it and ends the loop, which is one of the outcomes).
RECURSIVE LocalPass(_, _, _, _)
LocalPass(s, c, keys, i) ==
  IF i > Len(keys) THEN s
  ELSE
    LET a == keys[i]
        newCell == s.actorCell[a]
    IN
    IF newCell # c
    \* actor->updateCell() adds the actor to the ActorCellChange list
    THEN LET s1 == [s EXCEPT !.actorList.cellChange = Append(@, <<a, newCell>>)]
         IN IF HasLocalAuthority(s, newCell)
            THEN LocalPass(MoveLocalActor(s1, c, a, newCell), c, keys, i + 1)
            ELSE LocalPass(DeleteLocalActor(s1, c, a), c, keys, i + 1)
    ELSE IF a \in s.disabled
    THEN LocalPass(s, c, keys, i + 1)
    ELSE IF a \in s.deleted
    THEN IF i = Len(keys)
         THEN [DeleteLocalActor(s, c, a) EXCEPT !.overrun = TRUE]
         ELSE LocalPass(DeleteLocalActor(s, c, a), c, keys, i + 2)
    \* actor->update(...) adds the actor's data, its position among it, to
    \* the ActorList
    ELSE LocalPass([s EXCEPT !.actorList.positions = @ \cup {a}], c, keys, i + 1)

\* A faulty variant of updateLocal's timer: it is not reset when it fires.
UpdateLocalNoReset(s, c, forceUpdate, dt) ==
  IF s.localActors[c] = {} THEN s
  ELSE IF ~forceUpdate /\ s.updateTimer[c] + dt < TimeoutMs
  THEN [s EXCEPT !.updateTimer[c] = @ + dt]
  ELSE LocalPass([s EXCEPT !.updateTimer[c] = @ + dt, !.actorList = EmptyActorList], c, MapKeys(s.localActors[c]), 1)

\* Cell::updateLocal(forceUpdate), dt being the frame duration. The
\* send*Actors calls at its end hand the packets to the transport.
UpdateLocal(s, c, forceUpdate, dt) ==
  IF s.localActors[c] = {} THEN s
  ELSE IF ~forceUpdate /\ s.updateTimer[c] + dt < TimeoutMs
  THEN [s EXCEPT !.updateTimer[c] = @ + dt]
  ELSE LocalPass([s EXCEPT !.updateTimer[c] = 0, !.actorList = EmptyActorList], c, MapKeys(s.localActors[c]), 1)

-----------------------------------------------------------------------------
(* Cell::updateDedicated and the packet handlers                           *)

\* A faulty updateDedicated without the hasLocalAuthority() clean-up.
UpdateDedicatedNoUninitialize(s, c) == s

\* Cell::updateDedicated: each DedicatedActor applies its data; when this
\* host is the cell's authority all of them are then uninitialized.
UpdateDedicated(s, c) ==
  IF s.dedicatedActors[c] = {} THEN s
  ELSE IF HasLocalAuthority(s, c) THEN UninitializeDedicatedActors(s, c)
  ELSE s

\* Cell::readPositions, readStatsDynamic and readDeath: DedicatedActors are
\* created for the packet's actors; the rest (the position, stats or death
\* state, applied at once on first receipt) is data.
ReadPositions(s, c, batch) == InitializeDedicatedActors(s, c, batch)
ReadStatsDynamic(s, c, batch) == InitializeDedicatedActors(s, c, batch)
ReadDeath(s, c, batch) == InitializeDedicatedActors(s, c, batch)

\* The shape shared by readEquipment, readSpeech, readSpellsActive and
\* readAi: initialize, return if no DedicatedActor, apply the data, and
\* when this host is the authority uninitialize the packet's actors.
ApplyThenUninitialize(s, c, batch) ==
  LET s1 == InitializeDedicatedActors(s, c, batch)
  IN IF s1.dedicatedActors[c] = {} THEN s1
     ELSE IF HasLocalAuthority(s1, c)
     THEN UninitializeDedicatedActorsOf(s1, c, batch)
     ELSE s1

ReadEquipment(s, c, batch) == ApplyThenUninitialize(s, c, batch)
ReadSpeech(s, c, batch) == ApplyThenUninitialize(s, c, batch)
ReadSpellsActive(s, c, batch) == ApplyThenUninitialize(s, c, batch)
ReadAi(s, c, batch) == ApplyThenUninitialize(s, c, batch)

\* CellController::isLocalActor / isDedicatedActor: the directory has an
\* entry for the actor naming an initialized cell.
IsLocalActor(s, a) == s.localActorsToCells[a] \in s.active
IsDedicatedActor(s, a) == s.dedicatedActorsToCells[a] \in s.active

\* Cell::getLocalActor / getDedicatedActor, reached through the cell the
\* directory names: localActors.at(key) throws when that cell's map does not
\* hold the key.
GetLocalActorThrows(s, a) == a \notin s.localActors[s.localActorsToCells[a]]
GetDedicatedActorThrows(s, a) ==
  a \notin s.dedicatedActors[s.dedicatedActorsToCells[a]]

\* A faulty entry handler that never makes a LocalActor of an actor that
\* moved into a cell this host is authority of.
CellChangeEntryNoPromote(s, c, a, d) ==
  IF d = c \/ a \notin s.dedicatedActors[c] THEN s
  ELSE
    LET gone == [s EXCEPT !.actorCell[a] = d, !.dedicatedActors[c] = @ \ {a}]
    IN IF d \in s.active /\ ~HasLocalAuthority(s, d)
       THEN [gone EXCEPT !.leaked = @ \/ a \in s.dedicatedActors[d],
                         !.dedicatedActors[d] = @ \cup {a},
                         !.dedicatedActorsToCells[a] = d]
       ELSE [gone EXCEPT !.dedicatedActorsToCells[a] = NoCell]

\* One entry <<a, d>> of an ActorCellChange packet about cell c: the server
\* says actor a moved from c to d.
CellChangeEntry(s, c, a, d) ==
  IF d = c \/ a \notin s.dedicatedActors[c] THEN s
  ELSE
    LET s1 == [s EXCEPT !.actorCell[a] = d]     \* dedicatedActor->setCell
        gone == [s1 EXCEPT !.dedicatedActors[c] = @ \ {a}]
    IN
    IF d \in s.active /\ ~HasLocalAuthority(s, d)
    \* the same DedicatedActor object is stored in d's map
    THEN [gone EXCEPT
            !.leaked = @ \/ a \in s.dedicatedActors[d],
            !.dedicatedActors[d] = @ \cup {a},
            !.dedicatedActorsToCells[a] = d]
    ELSE LET promoted == IF HasLocalAuthority(s, d)
                         THEN InitializeLocalActor(gone, d, a)
                         ELSE gone
         IN [promoted EXCEPT !.dedicatedActorsToCells[a] = NoCell]

\* A faulty readCellChange that applies the entries without first creating
\* the DedicatedActors of the packet's actors.
ReadCellChangeNoInitialize(s, c, batch) ==
  LET RECURSIVE Entries(_, _)
      Entries(t, i) ==
        IF i > Len(batch) THEN t
        ELSE Entries(CellChangeEntry(t, c, batch[i][1], batch[i][2]), i + 1)
  IN IF s.dedicatedActors[c] = {} THEN s ELSE Entries(s, 1)

\* Cell::readCellChange. batch is a sequence of <<actor, destination>>.
ReadCellChange(s, c, batch) ==
  LET s1 == InitializeDedicatedActors(s, c, [i \in DOMAIN batch |-> batch[i][1]])
      RECURSIVE Entries(_, _)
      Entries(t, i) ==
        IF i > Len(batch) THEN t
        ELSE Entries(CellChangeEntry(t, c, batch[i][1], batch[i][2]), i + 1)
  IN IF s1.dedicatedActors[c] = {} THEN s1 ELSE Entries(s1, 1)

=============================================================================
