-------------------------------- MODULE Hosts ---------------------------------
(***************************************************************************)
(* Several clients, each running the CellController and Cells of Cell.cpp  *)
(* over its own copy of the world, composed through the server. Each       *)
(* client's handlers are those of Cell, instantiated with Self <- that    *)
(* client, and its frame is CellSync's: net phase, sim phase, then the     *)
(* updateLocal and updateDedicated passes over every initialized cell.     *)
(*                                                                         *)
(* The server is not part of this repository; it is reduced to what the   *)
(* clients observe of it. A cell's authority is the first player to load   *)
(* it; when the authority unloads it, another player who has it loaded     *)
(* becomes authority, or none. Every change is sent as ActorAuthority to   *)
(* the players concerned, and a player loading a cell is told its current  *)
(* authority. An actor packet is relayed only when its sender is the       *)
(* cell's authority, to the other players with the cell loaded. A client's *)
(* packets reach the server in order and are handled there at once.        *)
(* The server records the cell each actor was last reported to move to,  *)
(* and a player loading a cell finds every actor it has no record of      *)
(* (neither LocalActor nor DedicatedActor) where that record puts it.      *)
(* ActorAuthority and ActorCellChange travel on a reliable ordered channel *)
(* per player; ActorPosition is unreliable: position packets may be lost   *)
(* and overtake each other, which the next tick's state supersedes.        *)
(***************************************************************************)
EXTENDS Naturals, Sequences, FiniteSets

CONSTANTS
  HostIds,         \* the players, one client each
  Actors, Cells, NoCell, NoHost, ActorOrder, CellOrder, TimeoutMs,
  FrameDurations,
  MaxInFlight,     \* bound on the reliable packets queued for a player
  FastReload       \* whether a player may load a cell while reliable
                   \* packets are still on their way to it

VARIABLES
  hs,         \* hs[h]: client h's CellController, Cells and world
  phase,      \* phase[h]: the part of its frame client h is in
  authority,  \* the server's authority of each cell, or NoHost
  chan,       \* chan[h]: reliable packets on their way to client h
  pos,        \* pos[h]: position packets on their way to client h
  where       \* the server's record of each actor's cell

vars == <<hs, phase, authority, chan, pos, where>>

\* Client h's Cell operators, which map a client's state to its next one.
CL(h) == INSTANCE Cell WITH Self <- h, Others <- HostIds \ {h}

\* The players the server knows to have cell c loaded.
Visitors(c) == {k \in HostIds : c \in hs[k].active}

AuthorityMsg(c, h) == [type |-> "authority", cell |-> c, host |-> h]
CellChangeMsg(c, b) == [type |-> "cellChange", cell |-> c, batch |-> b]

\* Actors client h has a LocalActor or a DedicatedActor of.
Recorded(h) == UNION {hs[h].localActors[c] \cup hs[h].dedicatedActors[c] : c \in Cells}

\* Reliable packets m sent to each player of ks, in order after the rest.
SendTo(ks, m) == [k \in HostIds |-> IF k \in ks THEN Append(chan[k], m) ELSE chan[k]]

HasRoom(ks) == \A k \in ks : Len(chan[k]) < MaxInFlight

-----------------------------------------------------------------------------

Init ==
  /\ \E place \in [Actors -> Cells] :
     /\ where = place
     /\ hs = [h \in HostIds |->
               [active |-> {},
                authority |-> [c \in Cells |-> NoHost],
                localActors |-> [c \in Cells |-> {}],
                dedicatedActors |-> [c \in Cells |-> {}],
                updateTimer |-> [c \in Cells |-> 0],
                localActorsToCells |-> [a \in Actors |-> NoCell],
                dedicatedActorsToCells |-> [a \in Actors |-> NoCell],
                actorCell |-> place,
                disabled |-> {}, deleted |-> {},
                leaked |-> FALSE, overrun |-> FALSE, crashed |-> FALSE,
                actorList |-> CL(h)!EmptyActorList]]
  /\ phase = [h \in HostIds |-> "net"]
  /\ authority = [c \in Cells |-> NoHost]
  /\ chan = [h \in HostIds |-> <<>>]
  /\ pos = [h \in HostIds |-> {}]

\* Client h's handler of the net phase replaces its state with s.
NetStep(h, s) ==
  /\ phase[h] = "net"
  /\ ~hs[h].crashed
  /\ hs' = [hs EXCEPT ![h] = s]

\* Player h loads cell c (CellController::initializeCell) and reports it;
\* the server makes h authority when the cell has none, and tells h the
\* cell's authority.
Load(h, c) ==
  /\ c \notin hs[h].active
  /\ HasRoom({h})
  /\ FastReload \/ chan[h] = <<>>
  /\ NetStep(h, [hs[h] EXCEPT !.active = @ \cup {c}, !.authority[c] = NoHost,
                              !.updateTimer[c] = 0,
                              !.actorCell = [a \in Actors |->
                                 IF a \in Recorded(h)
                                 THEN @[a] ELSE where[a]]])
  /\ LET new == IF authority[c] = NoHost THEN h ELSE authority[c]
     IN /\ authority' = [authority EXCEPT ![c] = new]
        /\ chan' = SendTo({h}, AuthorityMsg(c, new))
  /\ UNCHANGED <<phase, pos, where>>

\* Player h unloads cell c (CellController::uninitializeCell). When h was
\* its authority, the server hands it to one of the players still there.
Unload(h, c) ==
  /\ c \in hs[h].active
  /\ LET s == CL(h)!UninitializeDedicatedActors(CL(h)!UninitializeLocalActors(hs[h], c), c)
         rest == Visitors(c) \ {h}
     IN /\ NetStep(h, [s EXCEPT !.active = @ \ {c}, !.authority[c] = NoHost])
        /\ IF authority[c] # h THEN UNCHANGED <<authority, chan>>
           ELSE IF rest = {}
           THEN /\ authority' = [authority EXCEPT ![c] = NoHost]
                /\ UNCHANGED chan
           ELSE \E k \in rest :
                  /\ HasRoom(rest)
                  /\ authority' = [authority EXCEPT ![c] = k]
                  /\ chan' = SendTo(rest, AuthorityMsg(c, k))
  /\ UNCHANGED <<phase, pos, where>>

\* The server takes what client h's updateLocal passes sent, out being the
\* <<cell, ActorList>> of each pass in order. Only when h is the cell's
\* authority, ActorPosition (when the list has positions) and
\* ActorCellChange (when it has cell changes) are relayed to the other
\* players with the cell loaded, and each cell change is recorded. The
\* result is <<chan, pos, where>>.
RECURSIVE Relay(_, _, _)
Relay(h, out, r) ==
  IF out = <<>> THEN r
  ELSE
    LET c == Head(out)[1]
        al == Head(out)[2]
        ks == Visitors(c) \ {h}
        moved == {al.cellChange[i] : i \in DOMAIN al.cellChange}
    IN Relay(h, Tail(out),
             IF authority[c] # h THEN r
             ELSE <<IF al.cellChange = <<>> THEN r[1]
                    ELSE [k \in HostIds |->
                            IF k \in ks THEN Append(r[1][k], CellChangeMsg(c, al.cellChange))
                            ELSE r[1][k]],
                    IF al.positions = {} THEN r[2]
                    ELSE [k \in HostIds |->
                            IF k \in ks THEN r[2][k] \cup {<<c, CL(h)!MapKeys(al.positions)>>}
                            ELSE r[2][k]],
                    [a \in Actors |->
                       IF \E d \in Cells : <<a, d>> \in moved
                       THEN CHOOSE d \in Cells : <<a, d>> \in moved
                       ELSE r[3][a]]>>)

\* Cell::updateLocal of cell c ran its pass, from state s to s1: the
\* timer was reset.
PassRan(s, s1, c) == c \in s.active /\ s.localActors[c] # {} /\ s1.updateTimer[c] = 0

\* The ActorAuthority processor (not under src/; spec.md 4.4): packets for
\* a cell no longer loaded are dropped. When the packet names h itself, the
\* authority is set, the cell's LocalActors initialized and an updateLocal
\* forced. When it names another player and h had the authority, h's
\* LocalActors of the cell are uninitialized before the authority is set.
ApplyAuthority(h, c, k) ==
  IF c \notin hs[h].active THEN hs[h]
  ELSE IF k = h
  THEN CL(h)!UpdateLocal(CL(h)!InitializeLocalActors(
                           [hs[h] EXCEPT !.authority[c] = k], c), c, TRUE, 0)
  ELSE [IF CL(h)!HasLocalAuthority(hs[h], c)
        THEN CL(h)!UninitializeLocalActors(hs[h], c) ELSE hs[h]
        EXCEPT !.authority[c] = k]

\* Client h takes the next reliable packet.
Deliver(h) ==
  /\ chan[h] # <<>>
  /\ LET m == Head(chan[h])
         s1 == IF m.type = "authority" THEN ApplyAuthority(h, m.cell, m.host)
               ELSE IF m.cell \in hs[h].active
               THEN CL(h)!ReadCellChange(hs[h], m.cell, m.batch)
               ELSE hs[h]
         out == IF /\ m.type = "authority" /\ m.host = h
                   /\ PassRan(CL(h)!InitializeLocalActors(hs[h], m.cell), s1, m.cell)
                THEN <<<<m.cell, s1.actorList>>>> ELSE <<>>
         queued == [chan EXCEPT ![h] = Tail(@)]
         r == Relay(h, out, <<queued, pos, where>>)
     IN /\ \A k \in HostIds : Len(r[1][k]) <= MaxInFlight
        /\ NetStep(h, s1)
        /\ chan' = r[1]
        /\ pos' = r[2]
        /\ where' = r[3]
  /\ UNCHANGED <<phase, authority>>

\* Client h takes one of the position packets on their way, in any order.
DeliverPosition(h, m) ==
  /\ m \in pos[h]
  /\ NetStep(h, IF m[1] \in hs[h].active THEN CL(h)!ReadPositions(hs[h], m[1], m[2])
                ELSE hs[h])
  /\ pos' = [pos EXCEPT ![h] = @ \ {m}]
  /\ UNCHANGED <<phase, authority, chan, where>>

\* A position packet to h is lost.
LosePosition(h, m) ==
  /\ m \in pos[h]
  /\ pos' = [pos EXCEPT ![h] = @ \ {m}]
  /\ UNCHANGED <<hs, phase, authority, chan, where>>

EndNet(h) ==
  /\ phase[h] = "net"
  /\ ~hs[h].crashed
  /\ phase' = [phase EXCEPT ![h] = "sim"]
  /\ UNCHANGED <<hs, authority, chan, pos, where>>

\* Client h's world moves one of the actors h simulates to cell d.
MoveActor(h, a, d) ==
  /\ phase[h] = "sim"
  /\ a \in UNION {hs[h].localActors[c] : c \in Cells}
  /\ d # hs[h].actorCell[a]
  /\ hs' = [hs EXCEPT ![h].actorCell[a] = d]
  /\ UNCHANGED <<phase, authority, chan, pos, where>>

\* CellController::updateLocal(false): Cell::updateLocal on each initialized
\* cell in order; out collects the <<cell, ActorList>> each pass sent.
\* The result is <<state, out>>.
RECURSIVE LocalCells(_, _, _, _, _)
LocalCells(h, s, dt, i, out) ==
  IF i > Len(CellOrder) THEN <<s, out>>
  ELSE LET c == CellOrder[i]
           s1 == IF c \in s.active THEN CL(h)!UpdateLocal(s, c, FALSE, dt) ELSE s
       IN LocalCells(h, s1, dt, i + 1,
                     IF PassRan(s, s1, c) THEN Append(out, <<c, s1.actorList>>) ELSE out)

\* CellController::updateDedicated: Cell::updateDedicated on each
\* initialized cell in order.
RECURSIVE DedicatedCells(_, _, _)
DedicatedCells(h, s, i) ==
  IF i > Len(CellOrder) THEN s
  ELSE DedicatedCells(h, IF CellOrder[i] \in s.active
                         THEN CL(h)!UpdateDedicated(s, CellOrder[i]) ELSE s,
                      i + 1)

\* Client h ends its frame: updateLocal on every cell, with the server's
\* relay of what the passes sent, then updateDedicated on every cell.
EndFrame(h) ==
  /\ phase[h] = "sim"
  /\ ~hs[h].crashed
  /\ \E dt \in FrameDurations :
       LET l == LocalCells(h, hs[h], dt, 1, <<>>)
           r == Relay(h, l[2], <<chan, pos, where>>)
       IN /\ \A k \in HostIds : Len(r[1][k]) <= MaxInFlight
          /\ hs' = [hs EXCEPT ![h] = DedicatedCells(h, l[1], 1)]
          /\ chan' = r[1]
          /\ pos' = r[2]
          /\ where' = r[3]
  /\ phase' = [phase EXCEPT ![h] = "net"]
  /\ UNCHANGED authority

-----------------------------------------------------------------------------

Next ==
  \E h \in HostIds :
    \/ \E c \in Cells : Load(h, c) \/ Unload(h, c)
    \/ Deliver(h)
    \/ \E m \in pos[h] : DeliverPosition(h, m) \/ LosePosition(h, m)
    \/ EndNet(h)
    \/ \E a \in Actors, d \in Cells : MoveActor(h, a, d)
    \/ EndFrame(h)

\* Every client's frame loop keeps running, and the reliable channel
\* delivers what it carries: a packet that has arrived is taken at the
\* next network update of the frame loop, so a Deliver enabled in every
\* net phase is taken (strong fairness: it is disabled in the sim phase).
\* Position packets may be lost.
Fairness ==
  \A h \in HostIds : WF_vars(EndNet(h)) /\ WF_vars(EndFrame(h)) /\ SF_vars(Deliver(h))

Spec == Init /\ [][Next]_vars /\ Fairness

\* Players who stay: every player has loaded every cell and has applied
\* the ActorAuthority the server sent for it, so the authority of each cell
\* has initialized the LocalActors of its references. No cell is loaded or
\* unloaded afterwards.
LoadedInit ==
  /\ \E place \in [Actors -> Cells], owner \in [Cells -> HostIds] :
     /\ where = place
     /\ authority = owner
     /\ hs = [h \in HostIds |->
               [active |-> Cells,
                authority |-> owner,
                localActors |-> [c \in Cells |->
                                   IF owner[c] = h THEN {a \in Actors : place[a] = c} ELSE {}],
                dedicatedActors |-> [c \in Cells |-> {}],
                updateTimer |-> [c \in Cells |-> 0],
                localActorsToCells |-> [a \in Actors |->
                                         IF owner[place[a]] = h THEN place[a] ELSE NoCell],
                dedicatedActorsToCells |-> [a \in Actors |-> NoCell],
                actorCell |-> place,
                disabled |-> {}, deleted |-> {},
                leaked |-> FALSE, overrun |-> FALSE, crashed |-> FALSE,
                actorList |-> CL(h)!EmptyActorList]]
  /\ phase = [h \in HostIds |-> "net"]
  /\ chan = [h \in HostIds |-> <<>>]
  /\ pos = [h \in HostIds |-> {}]

StayNext ==
  \E h \in HostIds :
    \/ Deliver(h)
    \/ \E m \in pos[h] : DeliverPosition(h, m) \/ LosePosition(h, m)
    \/ EndNet(h)
    \/ \E a \in Actors, d \in Cells : MoveActor(h, a, d)
    \/ EndFrame(h)

StaySpec == LoadedInit /\ [][StayNext]_vars /\ Fairness

-----------------------------------------------------------------------------
(* Properties                                                              *)

\* Actors client h simulates.
Simulates(h) == UNION {hs[h].localActors[c] : c \in Cells}

\* No actor is simulated by two players at once: the authority of a cell
\* is a single host, and an actor's LocalActor lives only on it.
SingleSimulator ==
  \A h, k \in HostIds : h # k => Simulates(h) \cap Simulates(k) = {}

\* The host simulating actor a, or NoHost when none does.
HolderOf(a) ==
  IF \E h \in HostIds : a \in Simulates(h)
  THEN CHOOSE h \in HostIds : a \in Simulates(h) ELSE NoHost

\* The abstract ownership of the actors: the server's authority of each
\* cell, the host with a LocalActor of each actor, and the actor's cell in
\* that host's world, or in the server's record while no host has one.
Own == INSTANCE Ownership WITH
         owner <- authority,
         holder <- [a \in Actors |-> HolderOf(a)],
         cellOf <- [a \in Actors |-> IF HolderOf(a) = NoHost THEN where[a]
                                     ELSE hs[HolderOf(a)].actorCell[a]]

\* Players who stay implement Ownership: every step of the clients and the
\* server either leaves the ownership alone or is a move, a release or an
\* acquisition of it, and the releases and acquisitions the abstract
\* specification promises happen.
OwnershipRefined == Own!Spec

\* A cell change is on its way to k: actor a left cell c for cell d.
CellChangeSent(k, c, a, d) ==
  \E i \in DOMAIN chan[k] :
    /\ chan[k][i].type = "cellChange" /\ chan[k][i].cell = c
    /\ \E j \in DOMAIN chan[k][i].batch : chan[k][i].batch[j] = <<a, d>>

\* Spec section 8's end-to-end handoff: once the ActorCellChange a player's
\* updateLocal sends for an actor that crossed into cell d reaches d's
\* authority k on its way, k eventually holds a LocalActor for the actor in
\* d: readCellChange turns the DedicatedActor it creates into a LocalActor
\* of the cell k owns.
HandoffEndToEnd ==
  \A k \in HostIds, a \in Actors, <<c, d>> \in {p \in Cells \X Cells : p[1] # p[2]} :
    (CellChangeSent(k, c, a, d) /\ authority[d] = k) ~> (a \in hs[k].localActors[d])

=============================================================================
