CONSTANTS
  dart = dart
  bow = bow
  arrow = arrow
  torch = torch
  Thrown = {dart}
  Ranged = {bow}
  Ammo = {arrow}
  Other = {torch}
  None = None
  MaxCount = 2
  EffectIds = {1, 2}
  AttrIds <- MC_AttrIds
  EnchTypes = {0, 1}
  Enchantment <- MC_Enchantment
  MaxEffects = 2
SPECIFICATION MC_Spec
VIEW MC_View
INVARIANT TypeOK
INVARIANT ThrownAttackCarriesNoAmmo
