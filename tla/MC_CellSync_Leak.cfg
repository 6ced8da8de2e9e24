CONSTANTS
  a1 = a1
  a2 = a2
  c1 = c1
  c2 = c2
  h2 = h2
  Self = Self
  NoCell = NoCell
  NoHost = NoHost
  Actors <- MC_Actors
  Cells <- MC_Cells
  Others <- MC_Others
  ActorOrder <- MC_ActorOrder
  FrameDurations <- MC_FrameDurations
  CellOrder <- MC_CellOrder
  TimeoutMs = 25
  MaxBatch = 2
  ActorPackets = FALSE
  ScriptPackets = FALSE
SPECIFICATION Spec
INVARIANT NoLeak
VIEW CellSyncView
