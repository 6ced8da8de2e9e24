CONSTANTS
  p1 = p1
  p2 = p2
  s1 = s1
  e1 = e1
  Pids <- MC_Pids
  SpellIds <- MC_SpellIds
  EffectIds <- MC_EffectIds
  Actions <- MC_Actions
  MaxChanges = 2
SYMMETRY MC_Symmetry
SPECIFICATION Spec
INVARIANT NoFault
CHECK_DEADLOCK FALSE
