------------------------------ MODULE CellSync --------------------------------
(***************************************************************************)
(* One client host running its frame loop over the Cell handlers.          *)
(*                                                                         *)
(* A frame has two phases and ends with the actor updates:                 *)
(*   "net"   received packets are handled one at a time (actor packets,    *)
(*           ActorAuthority, cells loaded and unloaded by the player);     *)
(*   "sim"   the world simulation moves, disables and deletes the actors   *)
(*           this host simulates, i.e. its LocalActors;                    *)
(*   then CellController::updateLocal calls Cell::updateLocal on each      *)
(*   initialized cell, and CellController::updateDedicated calls          *)
(*   Cell::updateDedicated on each, both in the order of the controller's  *)
(*   std::map of cells, all within the frame's single thread.              *)
(* Which actor packets reach the host is a parameter. With ActorPackets    *)
(* FALSE none do, and only the player's own world and ActorAuthority       *)
(* change the host's records. Otherwise, with ScriptPackets                *)
(* FALSE only packets relayed from the cell's authority arrive (a host     *)
(* never receives packets about a cell it is authority of, and a packet    *)
(* names an actor once); with ScriptPackets TRUE the server's scripts may  *)
(* also send any actor packet to any player of the cell.                   *)
(***************************************************************************)
EXTENDS MechanicsHelper, Functions, SequencesExt

CONSTANTS
  CellOrder,       \* the order of the CellController's map of cells
  FrameDurations,  \* possible frame durations in ms
  MaxBatch,        \* the most actors one packet names
  ActorPackets,    \* do other players' actor packets reach this host
  ScriptPackets    \* may server scripts send actor packets

ASSUME CellOrder \in Seq(Cells) /\ Len(CellOrder) = Cardinality(Cells)
       /\ \A c \in Cells : \E i \in DOMAIN CellOrder : CellOrder[i] = c
ASSUME FrameDurations \subseteq Nat \ {0} /\ FrameDurations # {}
ASSUME MaxBatch \in Nat \ {0}
ASSUME ActorPackets \in BOOLEAN /\ ScriptPackets \in BOOLEAN

VARIABLES
  st,       \* the host state (a Cell!HostState)
  phase     \* the phase of the current frame

vars == <<st, phase>>

\* The baseActors of an actor packet.
Batches == {b \in BoundedSeq(Actors, MaxBatch) : ScriptPackets \/ IsInjective(b)}

\* The entries of an ActorCellChange packet.
CellChangeBatches ==
  {b \in BoundedSeq(Actors \X Cells, MaxBatch) :
     ScriptPackets \/ IsInjective([i \in DOMAIN b |-> b[i][1]])}

\* Packets about cell c reach this host.
Receives(c) ==
  /\ ActorPackets
  /\ c \in st.active
  /\ ScriptPackets \/ st.authority[c] \in Others

\* The entries of an ActorAttack packet: attacker and victim.
AttackBatches == BoundedSeq(Actors \X Actors, 1)

\* Actors this host simulates: the world moves only those.
Simulated == UNION {st.localActors[c] : c \in Cells}

Init ==
  /\ \E place \in [Actors -> Cells] :
       st = [active |-> {},
             authority |-> [c \in Cells |-> NoHost],
             localActors |-> [c \in Cells |-> {}],
             dedicatedActors |-> [c \in Cells |-> {}],
             updateTimer |-> [c \in Cells |-> 0],
             localActorsToCells |-> [a \in Actors |-> NoCell],
             dedicatedActorsToCells |-> [a \in Actors |-> NoCell],
             actorCell |-> place,
             disabled |-> {}, deleted |-> {},
             leaked |-> FALSE, overrun |-> FALSE, crashed |-> FALSE,
             actorList |-> EmptyActorList]
  /\ phase = "net"

\* A handler of the net phase replaces the host state.
NetStep(s) ==
  /\ phase = "net"
  /\ ~st.crashed
  /\ st' = s
  /\ UNCHANGED phase

-----------------------------------------------------------------------------
(* Net phase                                                               *)

\* CellController::initializeCell: a new Cell for a cell the player loads.
ActivateCell(c) ==
  /\ c \notin st.active
  /\ NetStep([st EXCEPT !.active = @ \cup {c},
                        !.authority[c] = NoHost,
                        !.updateTimer[c] = 0])

\* CellController::uninitializeCell: the cell is unloaded; its LocalActors
\* and DedicatedActors are uninitialized and the Cell deleted.
DeactivateCell(c) ==
  /\ c \in st.active
  /\ LET s == UninitializeDedicatedActors(UninitializeLocalActors(st, c), c)
     IN NetStep([s EXCEPT !.active = @ \ {c}, !.authority[c] = NoHost])

\* ActorAuthority: another player becomes the cell's authority, or this
\* host does, in which case it initializes its LocalActors and forces an
\* updateLocal. Authority never leaves this host while it has the cell
\* loaded: the server moves it when the authority unloads the cell.
ReceiveAuthority(c, h) ==
  /\ c \in st.active
  /\ st.authority[c] # Self
  /\ LET s == [st EXCEPT !.authority[c] = h]
     IN NetStep(IF h = Self
                THEN UpdateLocal(InitializeLocalActors(s, c), c, TRUE, 0)
                ELSE s)

ReceivePositions(c, b) == Receives(c) /\ NetStep(ReadPositions(st, c, b))
ReceiveStatsDynamic(c, b) == Receives(c) /\ NetStep(ReadStatsDynamic(st, c, b))
ReceiveDeath(c, b) == Receives(c) /\ NetStep(ReadDeath(st, c, b))
ReceiveEquipment(c, b) == Receives(c) /\ NetStep(ReadEquipment(st, c, b))
ReceiveSpeech(c, b) == Receives(c) /\ NetStep(ReadSpeech(st, c, b))
ReceiveSpellsActive(c, b) == Receives(c) /\ NetStep(ReadSpellsActive(st, c, b))
ReceiveAi(c, b) == Receives(c) /\ NetStep(ReadAi(st, c, b))
ReceiveCellChange(c, b) == Receives(c) /\ NetStep(ReadCellChange(st, c, b))
ReceiveAttack(c, b) == Receives(c) /\ NetStep(ReadAttack(st, c, b))

EndNet ==
  /\ phase = "net"
  /\ ~st.crashed
  /\ phase' = "sim"
  /\ UNCHANGED st

-----------------------------------------------------------------------------
(* Sim phase: the world changes the references of simulated actors.        *)

SimStep(s) ==
  /\ phase = "sim"
  /\ ~st.crashed
  /\ st' = s
  /\ UNCHANGED phase

MoveActor(a, d) ==
  /\ a \in Simulated
  /\ d # st.actorCell[a]
  /\ SimStep([st EXCEPT !.actorCell[a] = d])

DisableActor(a) ==
  /\ a \in Simulated \ st.disabled
  /\ SimStep([st EXCEPT !.disabled = @ \cup {a}])

EnableActor(a) ==
  /\ a \in st.disabled \ st.deleted
  /\ SimStep([st EXCEPT !.disabled = @ \ {a}])

\* An actor of a loaded cell fires a bow or throws a weapon.
ShootArrow(a) ==
  /\ st.actorCell[a] \in st.active
  /\ SimStep(ReleaseArrow(st, a))

DeleteActor(a) ==
  /\ a \in Simulated \ st.deleted
  /\ SimStep([st EXCEPT !.deleted = @ \cup {a}])

-----------------------------------------------------------------------------
(* End of frame: the actor updates of every initialized cell.              *)

\* CellController::updateLocal(false): Cell::updateLocal on each cell.
RECURSIVE UpdateLocalCells(_, _, _)
UpdateLocalCells(s, dt, i) ==
  IF i > Len(CellOrder) THEN s
  ELSE UpdateLocalCells(IF CellOrder[i] \in s.active
                        THEN UpdateLocal(s, CellOrder[i], FALSE, dt) ELSE s,
                        dt, i + 1)

\* CellController::updateDedicated: Cell::updateDedicated on each cell.
RECURSIVE UpdateDedicatedCells(_, _)
UpdateDedicatedCells(s, i) ==
  IF i > Len(CellOrder) THEN s
  ELSE UpdateDedicatedCells(IF CellOrder[i] \in s.active
                            THEN UpdateDedicated(s, CellOrder[i]) ELSE s,
                            i + 1)

EndFrame ==
  /\ phase = "sim"
  /\ ~st.crashed
  /\ \E dt \in FrameDurations :
       st' = UpdateDedicatedCells(UpdateLocalCells(st, dt, 1), 1)
  /\ phase' = "net"

-----------------------------------------------------------------------------

Next ==
  \/ \E c \in Cells : ActivateCell(c) \/ DeactivateCell(c)
  \/ \E c \in Cells, h \in Hosts : ReceiveAuthority(c, h)
  \/ \E c \in Cells, b \in Batches :
        \/ ReceivePositions(c, b) \/ ReceiveStatsDynamic(c, b)
        \/ ReceiveDeath(c, b) \/ ReceiveEquipment(c, b)
        \/ ReceiveSpeech(c, b) \/ ReceiveSpellsActive(c, b)
        \/ ReceiveAi(c, b)
  \/ \E c \in Cells, b \in CellChangeBatches : ReceiveCellChange(c, b)
  \/ \E c \in Cells, b \in AttackBatches : ReceiveAttack(c, b)
  \/ EndNet
  \/ \E a \in Actors :
        \/ DisableActor(a) \/ EnableActor(a) \/ DeleteActor(a) \/ ShootArrow(a)
        \/ \E d \in Cells : MoveActor(a, d)
  \/ EndFrame

\* The frame loop runs for as long as the client does: every frame ends.
\* Packets, authority changes and world changes are the environment's and
\* are not required to happen.
Fairness == WF_vars(EndNet) /\ WF_vars(EndFrame)

Spec == Init /\ [][Next]_vars /\ Fairness

-----------------------------------------------------------------------------
(* Properties                                                              *)

TypeOK ==
  /\ st \in HostState
  /\ phase \in {"net", "sim"}

\* A frame ends: CellController::updateLocal and updateDedicated have run.
FrameEnds == phase = "sim" /\ phase' = "net"

\* Whenever a frame ends, no cell holds a LocalActor and a DedicatedActor
\* for the same actor: an actor this host simulates is not also driven by
\* another player's packets. Within a frame both may exist (a cell whose
\* authority this host gains keeps its DedicatedActors); Cell::updateDedicated
\* uninitializing them when hasLocalAuthority() holds is what removes them.
NoDualRecordAtFrameEnd ==
  [][FrameEnds =>
       \A c \in Cells : st'.localActors[c] \cap st'.dedicatedActors[c] = {}]_vars

\* Whenever a frame ends, an actor has at most one LocalActor: this host
\* does not simulate and send one actor twice.
UniqueLocalAtFrameEnd ==
  [][FrameEnds =>
       \A a \in Actors : Cardinality({c \in Cells : a \in st'.localActors[c]}) <= 1]_vars

\* The updateLocal pass of cell c ran in this step: the timer was reset.
PassRan(c) == st.localActors[c] # {} /\ st'.updateTimer[c] = 0

\* Every directory entry that names an initialized cell names one holding
\* the actor's record, so the CellController's lookups (getLocalActor,
\* getDedicatedActor, used by MechanicsHelper::processAttack) never throw.
\* Records are erased from the directory by key (removeLocalActorRecord,
\* removeDedicatedActorRecord) whatever cell the entry names.
DirectoryResolves ==
  \A a \in Actors :
    /\ IsLocalActor(st, a) => ~GetLocalActorThrows(st, a)
    /\ IsDedicatedActor(st, a) => ~GetDedicatedActorThrows(st, a)

\* No LocalActor or DedicatedActor pointer is overwritten in a map, which
\* would leak the old record.
NoLeak == ~st.leaked

\* No exception escapes a packet handler (spec.md section 7: an actor that
\* cannot be resolved is skipped and the rest of the batch applied). The
\* handlers that uninitialize a packet's DedicatedActors on the cell's
\* authority (readEquipment, readSpeech, readSpellsActive, readAi) call
\* dedicatedActors.at() for every actor of the packet, found or not.
NoCrash == ~st.crashed

\* The loop of Cell::updateLocal (Cell.cpp:39-101) is sound. When it runs
\* over a cell, every LocalActor whose reference has left the cell for a
\* cell this host is not authority of is deleted: the host hands the actor
\* over instead of going on simulating it in a cell it does not own. And no
\* step increments the iterator past localActors.end(). Both depend on how
\* the loop advances after erase(it++).
UpdateLocalLoopSound ==
  [][/\ FrameEnds =>
          \A c \in Cells : PassRan(c) =>
            \A a \in st.localActors[c] :
              st.actorCell[a] # c /\ ~HasLocalAuthority(st, st.actorCell[a])
                => a \notin st'.localActors[c]
     /\ ~st'.overrun]_vars

=============================================================================
