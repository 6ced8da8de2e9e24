--------------------------- MODULE MC_ScriptOpcodes ---------------------------
(***************************************************************************)
(* The client's script opcodes, and beside them the attack records of     *)
(* MechanicsHelper, whose writes interleave with the script thread's on   *)
(* the same client and share no state with it.                            *)
(*                                                                         *)
(* Scripts: one quest with an info for index 10 only, so Journal with     *)
(* index 20 throws; one topic; an enabled actor with an approved script   *)
(* and a disabled one. Attack targets: three players, two attack records, *)
(* an actor of the data files (refNum 1), a server-spawned one (mpNum 1)  *)
(* and one with both ids set.                                             *)
(***************************************************************************)
EXTENDS ScriptOpcodes, TLC

CONSTANTS q1, t1, o1, o2, h1, h2, h3, player, actor,
          Hosts, RefNums, MpNums, ActorIds, Unassigned, NoEntity, Attackers

VARIABLES target, intended

AT == INSTANCE AttackTarget

MC_Quests == {q1}
MC_Indices == {10, 20}
MC_ValidIndex == [q \in MC_Quests |-> {10}]
MC_Topics == {t1}
MC_Objects == {o1, o2}
MC_Enabled == {o1}
MC_ActorRefs == {o1, o2}
MC_Approved == {o1}

MC_Hosts == {h1, h2, h3}
MC_Attackers == {player, actor}
MC_RefNums == 0..1
MC_MpNums == 0..1
MC_ActorIds == {<<1, 0>>, <<0, 1>>, <<1, 1>>}

\* No definition of AttackTarget names a particular player or attack record.
MC_Symmetry == Permutations(MC_Hosts) \cup Permutations(MC_Attackers)

MC_Init == Init /\ AT!Init
MC_Next == \/ Next /\ UNCHANGED <<target, intended>>
           \/ AT!Next /\ UNCHANGED vars
MC_Spec == MC_Init /\ [][MC_Next]_<<vars, target, intended>>

TargetResolves == AT!TargetResolves
=============================================================================
