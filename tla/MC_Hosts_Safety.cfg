CONSTANTS
  h1 = h1
  h2 = h2
  a1 = a1
  c1 = c1
  c2 = c2
  NoCell = NoCell
  NoHost = NoHost
  HostIds <- MC_HostIds
  Actors <- MC_Actors
  Cells <- MC_Cells
  ActorOrder <- MC_ActorOrder
  CellOrder <- MC_CellOrder
  FrameDurations <- MC_LongFrames
  TimeoutMs = 25
  MaxInFlight = 2
  FastReload = FALSE
SPECIFICATION Spec
INVARIANT SingleSimulator
VIEW HostsView
SYMMETRY MC_HostSymmetry
