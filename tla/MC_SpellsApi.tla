------------------------------ MODULE MC_SpellsApi -----------------------------
EXTENDS SpellsApi, TLC

CONSTANTS p1, p2, s1, e1

MC_Pids == {p1, p2}
MC_SpellIds == {s1}
MC_EffectIds == {e1}
MC_Actions == {0, 1}

\* The two players are interchangeable.
MC_Symmetry == Permutations(MC_Pids)
=============================================================================
