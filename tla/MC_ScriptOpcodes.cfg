CONSTANTS
  q1 = q1
  t1 = t1
  o1 = o1
  o2 = o2
  h1 = h1
  h2 = h2
  h3 = h3
  player = player
  actor = actor
  Quests <- MC_Quests
  Indices <- MC_Indices
  ValidIndex <- MC_ValidIndex
  Topics <- MC_Topics
  Objects <- MC_Objects
  Enabled <- MC_Enabled
  ActorRefs <- MC_ActorRefs
  Approved <- MC_Approved
  Attackers <- MC_Attackers
  Hosts <- MC_Hosts
  RefNums <- MC_RefNums
  MpNums <- MC_MpNums
  ActorIds <- MC_ActorIds
  Unassigned = noGuid
  NoEntity = noPtr
SPECIFICATION MC_Spec
SYMMETRY MC_Symmetry
INVARIANT GainedOnlineSent
INVARIANT SentEntriesExist
INVARIANT TargetResolves
