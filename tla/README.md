# TLA+ models of TES3MP

This directory holds TLA+ models of TES3MP, with the TLC configurations that
check them:

- the client-side actor synchronisation (`src/apps/openmw/mwmp/Cell.cpp`),
  for one client and for two clients with the server between them, and an
  abstract specification of actor ownership that the two-client model
  refines;
- the attack helpers of `MechanicsHelper.cpp`;
- the server's spell script API (`Spells.cpp`);
- the mwscript opcodes that mirror their effect to the server.

`PROJECT.json` maps every model definition to the source lines it
translates. It also lists the runs, mutants, findings and hazards.

## The system

A TES3MP client simulates some world cells and mirrors others.

- **Cells.** The client's `CellController` keeps a `mwmp::Cell` for each cell
  the player has loaded.
- **Authority.** Every cell has one **authority**: the player whose client
  simulates the cell's actors (`authorityGuid`). The server assigns it with
  the `ActorAuthority` packet.
- **LocalActors.** In a cell this client is authority of, every actor has a
  `LocalActor`. Each pass of `updateLocal` reads the actor from the world and
  sends its state.
- **DedicatedActors.** In the other loaded cells, actors are mirrored from the
  authority's packets through a `DedicatedActor`. These are created lazily by
  the packet handlers (`readPositions`, `readStatsDynamic`, `readDeath`,
  `readEquipment`, `readSpeech`, `readSpellsActive`, `readAi`,
  `readCellChange`). `initializeDedicatedActors` creates them when
  `searchExact` finds the reference in the cell.
- **Directories.** The controller keeps two directories, actor → cell, for
  LocalActors and DedicatedActors (`setLocalActorRecord`,
  `removeLocalActorRecord`, and the same for dedicated records).
- **The frame.** It runs on one thread. Received packets are handled first.
  The world then updates, moving, disabling and deleting actors. Finally the
  controller calls `Cell::updateLocal` and then `Cell::updateDedicated` on
  every cell, in the order of its `std::map` of cells.

### What the parts do to each other

- **`updateLocal` hands actors over** (Cell.cpp:32-115). The pass runs once
  25 ms of frame time have accumulated, or at once when forced. Then, for
  each LocalActor:
  - whose reference left the cell: it is moved to the new cell's map if this
    client owns that cell, and deleted otherwise;
  - whose reference is deleted: it is deleted;
  - otherwise: it is updated.
- **`updateDedicated` is the clean-up** (Cell.cpp:117-128). When this client
  is the cell's authority, it deletes all of the cell's DedicatedActors.
- **Four handlers clean up too.** `readEquipment`, `readSpeech`,
  `readSpellsActive` and `readAi` uninitialize the DedicatedActors named in
  the packet when this client is authority (Cell.cpp:568-577).
- **`readCellChange` moves DedicatedActors on** (Cell.cpp:405-478). The
  DedicatedActor goes to the destination cell, becomes a new LocalActor
  there, or is deleted.
- **`ActorAuthority` creates LocalActors.** When it makes this client the
  authority, `initializeLocalActors` creates a LocalActor for every enabled,
  undeleted actor of the cell that has none yet, and a forced `updateLocal`
  follows.

## Inventory

| Component | Source | State | Operations | Status |
|---|---|---|---|---|
| Cell actor bookkeeping | `mwmp/Cell.cpp` | per cell: `localActors`, `dedicatedActors`, `updateTimer`, `authorityGuid`; the controller's directories | `updateLocal`, `updateDedicated`, the read* handlers, `readCellChange`, initialize/uninitialize | modelled (`Cell`, `CellSync`) |
| Frame loop, CellController, world | not under `src/` (spec.md §2, §4.4, §5) | active cells, frame phase, actor placement, enabled/deleted flags | cell (de)activation, ActorAuthority, world moves, per-frame updates | environment of `CellSync` |
| Server relay, other clients | not under `src/` (spec.md §2, §4.4, §7, §8) | each cell's authority, channels of packets in flight, each actor's last reported cell | cell load and unload, authority handoff, relay of ActorAuthority, ActorCellChange and ActorPosition | partly (`Hosts`, modelled from the spec) |
| Spells script API | `openmw-mp/Script/Functions/Spells.cpp` | per player change buffers; global `storedActiveEffects` | Add*/Clear*/Set*/Get* | modelled (`SpellsApi`) |
| Timer and Items script API | `Timer.cpp`, `Items.hpp` | none of their own | forwarding, declarations | not modelled |
| MechanicsHelper | `mwmp/MechanicsHelper.cpp` | attack records' targets | actor lookups, target writing and resolution, effect-list search, unequip by effect, `processAttack`'s weapon and projectile | partly (`MechanicsHelper`, `AttackTarget`, `EffectLists`, the last acting on the slots of `WeaponAnimation`, which also holds `ProcessAttack`); hit, damage and spawn rules are not modelled |
| mwscript opcodes with multiplayer hooks | `mwscript/dialogueextensions.cpp`, `animationextensions.cpp` | journal, topics, the dialogue mode, packets sent | Journal, SetJournalIndex, AddTopic, PlayAnim, ForceGreeting, Goodbye | partly (`ScriptOpcodes`) |
| Weapon animation | `mwrender/weaponanimation.cpp` | the CarriedRight and Ammunition slots, item counts, `mAmmunition`, the local `mwmp::Attack`'s ranged fields | `attachArrow`, `detachArrow`, `releaseArrow` | partly (`WeaponAnimation`); its controllers are rendering |
| render, VR, GUI | the remaining files, e.g. `mwvr/vranimation.cpp`, `mwgui/spellbuyingwindow.hpp` | scene graph, widgets | presentation, with no multiplayer hook in those two files | not modelled: out of TLC's reach (`releaseArrow`'s actor lookup is in `CellSync`) |

### What is hard about it

- **The 25 ms gate.** A LocalActor whose reference moved stays in its old
  cell's map until the gate opens. Packets handled in between see the stale
  map (Cell.cpp:39).
- **Iterator handling in `updateLocal`'s deleted branch.** It does
  `erase(it++)` and then `++it`. The next actor is skipped, and
  past-the-end is incremented when the deleted actor was last
  (Cell.cpp:91, :101).
- **Map assignment overwrites records.** `localActors[key] = ...` and
  `dedicatedActors[key] = ...` store over an existing record and leak it
  (Cell.cpp:67, :445, :465).
- **Partial failure.** `dedicatedActors.at()` throws in the middle of a batch
  (Cell.cpp:574). Only a client that is the cell's authority runs this
  code, so the packet must come from elsewhere than a player's pass: the
  server relays only the authority's packets, but its scripts may send
  actor packets about any cell (`ScriptPackets`).
- **Authority arriving while DedicatedActors exist.** Only the clean-up in
  `updateDedicated` separates the two kinds of record again (Cell.cpp:126).
- **`releaseArrow` marks the attack for sending first.** `shouldSend` and
  `rangedWeaponId` are set before the early returns for a missing weapon
  node, ammunition or arrow (weaponanimation.cpp:142). An aborted release
  still sends a packet, with the ids of an earlier shot. The ammunition
  slot can be emptied between `attachArrow` and `releaseArrow` by the last
  arrow being used or by `unequipItemsByEffect`.
- **Directory entries erased by key** (Cell.cpp:561, :583). When one actor
  has records in two cells, erasing one entry hides the survivor.

### Properties per component

- **Cell / CellSync:**
  - no dual record at frame end;
  - `updateLocal`'s loop is sound: a handoff completes in one pass
    (spec.md §8), and the iterator never passes `end()`;
  - no leaked record;
  - every directory entry resolves (§3).
- **Hosts / Ownership:**
  - no actor is simulated by two players (§2, §4.4);
  - a cell change sent to the destination's authority ends in a LocalActor
    there (§8);
  - the clients and server refine `Ownership`, so a left actor is
    eventually released and taken up.
- **Cell:** no exception escapes a packet handler (spec.md §7).
- **Spells API:** no out-of-range access from an accessor (spec.md §6).
- **Script opcodes:**
  - what a script adds while online reaches the server;
  - nothing that was not added is reported.
- **Attack targets:** every host resolves a written target to the entity it
  was written for.
- **Weapon animation:** an attack packet names the projectile its release
  launched (the comment at weaponanimation.cpp:127-131); a thrown weapon's
  packet never carries an ammunition id.

## Plan

1. **Done: `Cell` + `CellSync`**, one client and its frame loop, with the
   environment as nondeterministic packets. This is the most important
   behaviour: the handover of actors between LocalActors and
   DedicatedActors.
2. **Done: `Hosts`, two clients and the server relay**, with authority
   handoff on unload, reliable ordered ActorAuthority and ActorCellChange,
   and lossy, reordering ActorPosition.
   Still open: the other actor packets (equipment, speech, AI, spells,
   death, stats) relayed between the two clients, and a three-player
   instance.
3. **Done: `SpellsApi`, `ScriptOpcodes`, `AttackTarget`, `EffectLists`.**
   Still open: a property for the global effect buffer once the API says
   whose it is.
4. **Done: `Ownership`, the abstract ownership spec**, refined by `Hosts`
   for players who stay. Still open: the refinement with two actors (too
   slow for TLC at present) and with loading and unloading.
5. **Done: `WeaponAnimation`**, with `unequipItemsByEffect` acting on its
   slots, and `processAttack`'s MELEE branch. Still open: a property on
   the hits `processAttack` applies (MechanicsHelper.cpp:238, a TODO in
   the code). It needs a model of how the attacker's replica on the
   victim's host follows the shooter.

## Modules

- **`Cell.tla`: the handlers of `Cell.cpp` as pure operators on one client's
  state.**
  - The state is a record, `HostState`.
  - A map's content is the set of its keys. `MapKeys` gives the keys in
    `std::map` order (the constant `ActorOrder`).
  - Each operator is named after the method it models (`UpdateLocal`,
    `LocalPass`, `ReadCellChange`, ...). PROJECT.json's map names the lines
    each one translates.
  - Loops over maps and packets are `RECURSIVE` operators, so that the order
    of the steps inside a handler is kept. This covers the skip after
    `erase(it++)`, the directory erase before `at()`, and the entries of a
    cell-change packet applied one after another.
  - Undefined behaviour is recorded in flags, and the model takes one of its
    outcomes:
    - `overrun`: the loop stops;
    - `crashed`: the handler ends and the client stops;
    - `leaked`: an existing record is overwritten.
  - The `...No...` operators are faulty variants used as mutants.
- **`CellSync.tla`: the frame loop of one client.**
  - Phase `"net"`: one action per received packet kind, plus cell activation
    and deactivation and `ActorAuthority`.
  - Phase `"sim"`: the world moves, disables, enables and deletes the actors
    this client simulates.
  - `EndFrame`: runs `updateLocal` on every active cell in `CellOrder`, then
    `updateDedicated`, atomically, with a frame duration from
    `FrameDurations`.
  - Which packets arrive is a parameter:
    - `ActorPackets = FALSE`: none; the client is alone with its world and
      the server's authority assignments.
    - `ScriptPackets = FALSE`: only packets from a cell's authority, never
      about a cell this client owns, naming each actor once.
    - `ScriptPackets = TRUE`: server scripts may send any actor packet to any
      player of the cell.
- **`MechanicsHelper.tla`: actor lookups through the directories.**
  - `LookUpActor` is getLocalAttack/getDedicatedAttack: `isLocalActor`,
    then `getLocalActor`, whose `at()` throws when the directory names a
    cell without the record.
  - `ProcessAttack` and `ReleaseArrow` use it.
  - `ReadAttack` is Cell::readAttack over a packet.
  - `CellSync` calls them from `ReceiveAttack` and `ShootArrow`.
- **`MC_CellSync.tla`:** model values and the orders for TLC.
- **`SpellsApi.tla`: the spell functions of the server's script API.**
  - The state is each player's change buffers plus the global
    `storedActiveEffects`.
  - Every function is an action under `Call` (GET_PLAYER's early return).
  - An accessor's only effect is `fault`, set when its `at()` throws inside
    a noexcept function, which terminates the server.
  - Players connecting and leaving, and the client's spells-active packet,
    are the environment.
- **`ScriptOpcodes.tla`: the client opcodes that report to the server.**
  - `OpJournal` keeps the code's order inside the `try`: when logged in,
    `hasEntry`, which throws for an index the quest has no info for
    (`JournalEntry::idFromIndex`); the send when the entry is new; then
    `addEntry`, which throws for the same indices. The catch raises the
    quest's index (`RaiseIndex`).
  - `OpAddTopic` sends when `isNewTopic`, then adds the topic.
  - `OpForceGreeting` pushes a dialogue only when none is on the stack. No
    property is stated on it: one would restate that check.
  - `OpPlayAnim` returns for a disabled reference, throws for a mode outside
    0..2, and sends for an approved script.
  - The Journal, DialogueManager and WindowManager are not under `src/`.
    They are reduced to entries, known topics and a count of dialogue modes.
  - `addedOffline` records what was gained before login.
- **`AttackTarget.tla`: writing and reading attack targets.**
  - `GetTarget`, `ClearTarget`, `AssignAttackTarget` and `ResetAttack` are
    record updates that set only the fields the code sets.
  - `ResolveVictim` is processAttack's lookup on any host.
  - Two persistent attack records are written in any order.
- **`EffectLists.tla`: pure algorithms.**
  - `DoesEffectListContainEffect` is a RECURSIVE walk of the effect list.
  - `UnequipFrom` is the slot loop, in order.
  - `MC_WeaponAnimation` applies `UnequipItemsByEffect` to the actor's
    slots for a caller's `query`. No property compares the two with a
    reference definition: any such definition restates the loop body's
    test.
- **`Hosts.tla`: two or more clients and the server.**
  - Each client is a `Cell!HostState` in `hs[h]`. `CL(h)` is the `Cell`
    module instantiated for client h, so every client step is one of
    `Cell.tla`'s operators.
  - The server is not under `src/`. It is modelled from spec.md §2, §4.4, §7
    and §8:
    - `authority[c]`: a cell's first loader becomes its authority. When the
      authority unloads, a remaining player takes over (any of them), or
      nobody does.
    - `ActorAuthority` goes to the loader, and to the remaining players on
      a handoff.
    - `Relay`: what a pass of `updateLocal` sent (the `ActorList` of
      Cell.cpp:105-114, kept in `actorList`) is relayed to the cell's other
      players, only when the sender is the cell's authority.
    - `where[a]`: the cell the server last heard actor a is in. A loading
      player places the actors it has no record of there.
  - Channels:
    - `chan[h]`: ActorAuthority and ActorCellChange, reliable and in
      order, at most `MaxInFlight` packets.
    - `pos[h]`: ActorPosition, a set: packets may be taken in any order
      (`DeliverPosition`) or lost (`LosePosition`).
  - Each client has the frame of `CellSync`:
    - net phase: `Load`, `Unload`, `Deliver`, `DeliverPosition`;
    - sim phase: `MoveActor`;
    - `EndFrame`: `LocalCells` (Cell::updateLocal over the cells in
      order), the relay of what the passes sent, then `DedicatedCells`.
  - `ApplyAuthority` is the ActorAuthority processor, which is not under
    `src/` (spec.md §4.4: callers of `setAuthority` reconcile the sets).
    When the packet names this client: `setAuthority`,
    `initializeLocalActors` and a forced `updateLocal`. When it names
    another player and this client had the authority:
    `uninitializeLocalActors`, then `setAuthority`. Nothing checks whether
    the packet is still current.
  - `FastReload`: whether a player may load a cell again while packets of
    its earlier load are still on their way to it. When FALSE, a load waits
    for an empty channel.
  - `StaySpec`: players who have loaded every cell and applied the
    authority; only frames and packets follow.
- **`Ownership.tla`: what actor synchronisation promises.**
  - `owner[c]`, `holder[a]` (a host, or NoHost while in transit) and
    `cellOf[a]`.
  - `Move`: the holder moves the actor. `Release(S)`: actors in a cell
    their holder does not own are let go together. `Acquire(S)`: actors in
    transit are taken up by their cell's owner.
  - Weak fairness on releasing and acquiring each actor.
  - `Hosts` maps onto it with `Own == INSTANCE Ownership WITH ...`:
    - `owner` is the server's authority;
    - `holder` is the client with a LocalActor of the actor;
    - `cellOf` is that client's world, or the server's `where` while no
      client holds the actor.
- **`WeaponAnimation.tla`: attachArrow, detachArrow and releaseArrow of
  one local actor.**
  - The state is the CarriedRight and Ammunition slots, a count per item,
    whether `mAmmunition` holds an arrow, and the ranged fields and
    `shouldSend` of the local `mwmp::Attack`.
  - `ReleaseArrow` keeps the code's order: the early returns for no weapon,
    `RecordAttack` (the tes3mp block), then `ThrowWeapon` or `ShootAmmo`
    with each branch's returns before the launch, `inv.remove` and the
    arrow's reset.
  - Whether the scene graph has the weapon node or the arrow's node paths
    is chosen at each release; whether the skeleton has an arrow bone at
    each attach. Strength, orientation, speed and fatigue are left out.
  - `SendAttack` is the LocalPlayer/LocalActor update, which is not under
    `src/`: it sends the record and clears `shouldSend`. The ghosts
    `launched` and `sent` record what the last release launched and the
    last packet.
  - `ProcessAttack(p, victimFound)` is `processAttack`'s MELEE branch on
    the victim's host, for the hit of a projectile `p` in the air
    (`inAir`) or for a swing (`p = None`).
    - The attacker is this actor's replica there. The model takes its
      slots to be this actor's, which the replicated releases and
      equipment packets maintain.
    - `weapon` is the CarriedRight item, or none when the slot is empty
      or holds a non-weapon. The projectile is the Ammunition item. Both
      are read when the packet is processed.
    - The ghost `hit` records what a found victim is given. Blocking,
      damage, the enchantment casts and `onHit` are data.
- **`MC_WeaponAnimation.tla`:** the items, and `UnequipByEffect`, which
  applies `EffectLists`' `UnequipItemsByEffect` to the actor's two slots
  for the caller's query. `MC_View` leaves out the ghost `hit`, which no
  action and no checked property reads.
- **`MC_Hosts.tla`:** the players, actors and cells as model values,
  symmetry over the players, and `HostsView`, the state without the
  client's last `ActorList` (only the relay right after a pass reads it).

## Runs

All `CellSync` runs use actors {a1, a2}, cells {c1, c2}, one other player h2, packets of
at most two actors, `TimeoutMs = 25` and frame durations {20, 30} ms.

- **20 ms frames** are the case that matters. The gate then stays closed for
  one frame and opens on the next, which is what exposes the stale maps.
- **30 ms frames** open it every frame.
- **Two actors** are the fewest for which one can be skipped after the
  other's deletion. **Two cells** are the fewest for a handover.

| Run | cfg | Expect | Shows |
|---|---|---|---|
| frame_safety | MC_CellSync.cfg | pass (510,380 states) | `TypeOK`, and `NoDualRecordAtFrameEnd`: with packets from the authorities, no cell ends a frame with a LocalActor and a DedicatedActor for one actor; `DirectoryResolves`: every directory entry naming an active cell points to a record there, so the attack and arrow lookups never throw. |
| update_local_loop | MC_CellSync_Loop.cfg | violation | `UpdateLocalLoopSound`. Deleting the last LocalActor of a cell increments `end()`. With a1 deleted and a2 moved to a cell this client has no authority over in the same frame, the pass deletes a1 and skips a2, which stays a LocalActor of c1. |
| gate_leak | MC_CellSync_Leak.cfg | violation | `NoLeak`. a1 moves to c2 in a 20 ms frame, so the pass is gated. Authority over c2 creates a second LocalActor for a1 there. The next pass of c1 stores the old one over it at Cell.cpp:67. |
| batch_crash | MC_CellSync_Crash.cfg | violation | `NoCrash`, with `ScriptPackets`. c1 is loaded and this client becomes its authority, with a LocalActor for a1. An equipment packet about c1 names a1 and an actor c1 does not hold. `initializeDedicatedActors` creates a DedicatedActor for a1 only, and `uninitializeDedicatedActors(actorList)` throws from `at()` on the other (Cell.cpp:574). |
| spells_effect_index | MC_SpellsApi_Fault.cfg | violation | `NoFault`. The client's spells-active packet gives p1 a spell with no effects. `GetSpellsActiveEffectId(p1, 0, 0)` then calls `mEffects.at(0)` unchecked in a noexcept function (Spells.cpp:170), which terminates the server. |
| script_sync | MC_ScriptOpcodes.cfg | pass (178,224 states with symmetry, about 45 s) | `GainedOnlineSent`: every entry and topic gained while logged in was sent. `SentEntriesExist`: every entry reported is in the journal, because the `hasEntry` that guards the send throws first for an index without info. `TargetResolves`: any order of writes and resets on two attack records, with three players and three actor ids, resolves to the intended entity on every host. |
| weapon_release | MC_WeaponAnimation.cfg | pass (114,608 states, about 10 s) | `TypeOK`; `ThrownAttackCarriesNoAmmo`: after any sequence of equips, draws, releases, aborted releases, hits processed and unequips by effect, a thrown weapon's attack packet carries no ammunition id. |
| ranged_attack_ids | MC_WeaponAnimation_Stale.cfg | violation | `SentAttackIsLaunched`. A dart is released without a weapon node: the release returns after marking the attack for sending, and the packet names a dart nobody threw. The bow's returns for a missing arrow or ammunition do the same with an earlier arrow's id. |
| hosts_fast_reload | MC_Hosts.cfg | violation | `SingleSimulator`, with `FastReload`. h1 loads c1 and is made its authority. h1 then unloads c1, h2 loads it and becomes authority, and h1 loads it again. h1 now takes the stale ActorAuthority naming itself and initializes a LocalActor for a1, which h2 also simulates. The trace ends there; the current packet, which follows, makes h1 uninitialize it. |
| hosts_single_simulator | MC_Hosts_Safety.cfg | pass (612,075 states) | `SingleSimulator`, with 30 ms frames and without fast reloads: two players loading and unloading two cells, with handoffs, cell changes and lost or reordered positions, never both simulate an actor. Both provisos matter. With 20 ms frames the 25 ms gate keeps a departed actor simulated (the gate-leak case across hosts). With fast reloads see hosts_fast_reload. |
| hosts_stay | MC_Hosts_Stay.cfg | pass (3,760 states, about 3 min) | `HandoffEndToEnd` (spec.md §8): an ActorCellChange on its way to the authority of the destination cell always ends with a LocalActor of the actor there. `OwnershipRefined`: players who stay implement `Ownership`, its fairness included, so an actor left in a cell its simulator does not own is always released and taken up. |

The other modules use these bounds:

- **SpellsApi:** two pids (symmetric), one spell, one effect id, and buffers
  of at most two entries. An index up to `MaxChanges` reaches the first
  invalid index of every buffer.
- **ScriptOpcodes:** one quest with an info for index 10 but not 20, one
  topic, and an enabled, approved actor next to a disabled one.
- **Attack targets** run beside the script opcodes (`MC_ScriptOpcodes`):
  the two share no state, and symmetry over the three players and over the
  two attack records keeps the product small. No definition of
  `AttackTarget` names a particular player or record, so the symmetry is
  sound for `TargetResolves`.
- **Weapon animation:** a dart, a bow, an arrow and a torch, two of each.
  Two arrows let a shot use one up while another remains; the last one
  empties the slot. The dart and the arrow carry enchantments of different
  types, so `unequipItemsByEffect` empties either slot for some queries.
  The caller's query is chosen once (`MC_Spec`).

The eventual release of a departed actor is checked in `hosts_stay`, as
the weak fairness of `Ownership`'s `Release`. A timer that never
accumulates breaks it there. An earlier single-client form of this
property, run without other players' packets, was subsumed by it. With
arbitrary packets from another client, the single-client model has a cycle
in which h2's ActorCellChange keeps bringing a deleted actor back as a
LocalActor ahead of the departed one, so the skip repeats forever. `Hosts`
relays only the authority's cell changes and has no world deletes, so that
cycle does not arise there.

The `Hosts` runs use two players, cells {c1, c2} and one actor a1:

- **Two players** are the fewest for a handoff and for two simulators.
  **One actor** is enough for both, because the hazards are about one
  actor's records on two hosts. Two actors made the refinement run too
  slow.
- **`MaxInFlight = 2`:** the loader's ActorAuthority and one more packet,
  which is enough for a stale authority packet to be overtaken by a
  reload.
- **Frames:** `MC_Hosts.cfg` and the safety run use 30 ms frames only.
  With 20 ms frames the gate of Cell.cpp:39 also lets a departed actor
  stay simulated across hosts, which is the gate-leak finding again.
  The stay run uses {20, 30}.
- **Reduction:** the safety run uses `HostsView` and symmetry over the
  players. The view drops only `actorList`, which no action reads before
  the next pass resets it, so it is sound for liveness too.

### Mutants

Each property of a passing run is broken by a plausible fault in the code:

- `TypeOK`: the timer is not reset when it fires.
- `NoDualRecordAtFrameEnd`: `updateDedicated` without the authority
  clean-up.
- `DirectoryResolves`: a LocalActor moved without its directory record.
- `GainedOnlineSent`: OpJournal adds the entry before testing `hasEntry`.
- `SentEntriesExist`: the journal lookup answers "no entry" for an index
  without info instead of throwing, so OpJournal sends it.
- `TypeOK` (weapon animation): `inv.remove` of the last item leaves the
  slot equipped, so a later release removes an item that is gone.
- `ThrownAttackCarriesNoAmmo`: the thrown branch clears `rangedAmmoId`
  only after the weapon node was found.
- `TargetResolves`: assignAttackTarget's player branch does not set
  `isPlayer`.
- `SingleSimulator`: a LocalActor deleted on handoff keeps its directory
  record, so a reload's `initializeLocalActors` skips it.
- `HandoffEndToEnd`: `readCellChange` never promotes the DedicatedActor to
  a LocalActor of a cell this client owns.
- `OwnershipRefined`: `readCellChange` without `initializeDedicatedActors`,
  so an actor in transit is never taken up.

## Fairness

- **`CellSync`:** only the frame loop is fair,
  `WF_vars(EndNet) /\ WF_vars(EndFrame)`. The client keeps rendering
  frames, so every frame ends. Packets, authority changes and world changes
  are the environment's, and nothing obliges them to happen.
- **`Hosts`:** every client's `EndNet` and `EndFrame` are weakly fair, and
  `Deliver` is strongly fair.
  - The reliable channel delivers what it carries, and the client drains
    the network at every frame's network update.
  - `Deliver` is disabled in the sim phase, so weak fairness would not force
    it; strong fairness says a packet enabled at every net phase is taken.
  - Position packets, loads, unloads and moves are not fair: positions may
    be lost, and players need not move.

## Not modelled

- Record data and the first-data flags. They decide only what is applied or
  sent, never which records exist.
- The packets sent by `updateLocal` other than ActorPosition and
  ActorCellChange, and their relay to the other players.
- A player who has only the destination cell loaded, and not the source,
  gets no ActorCellChange for an actor crossing into it: the server relays
  a pass's list to the players of the cell it was sent for. In `Hosts` such
  a player learns where the actor is only when it next loads a cell (from
  `where`), and
  `HandoffEndToEnd` is stated for the ActorCellChange that was sent.
- The refinement with two actors, and with loads and unloads: the first is
  beyond TLC in the time a run has, and the second needs a notion of the
  cells a player is in, which `Ownership` does not have.
- The data-only handlers `readAnimFlags`, `readAnimPlay` and `readCast`.
  `readAttack` is modelled for its lookups only.
- How the attacker's replica on a victim's host follows the shooter. The
  equipment packets and the dedicated branch of `releaseArrow` (which only
  reads the packet's strength and origin) are not modelled, so no run
  checks which weapon `processAttack` gives a hit.
  - `ProcessAttack` reads the slots when the packet is processed. The
    hit of the last dart or arrow, or of one shot before a weapon switch,
    therefore gets no weapon or another one.
  - The TODO at MechanicsHelper.cpp:238 names the run-out case. It is
    listed as a hazard.
- `processAttack`'s MAGIC branch, which calls the engine's `castSpell` and
  clears `instant` only on its by-value copy of the packet.
- `spawnLeveledCreatures`, which has no caller under `src/`.
- Journal text, topic case folding, animation groups and the animation
  itself. The models keep only which entries, topics and packets exist.
- The engine's own pushes of the dialogue mode, such as the player talking
  to an NPC. No source of them is under `src/`.
- The remaining files (see Inventory).
