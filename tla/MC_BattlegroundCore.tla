------------------------- MODULE MC_BattlegroundCore -------------------------
EXTENDS BattlegroundCore, TLC

CONSTANTS a1, a2, a3, h1, h2, g1

MC_Alliance == {a1, a2, a3}
MC_Horde == {h1, h2}

\* The one horde player of the slots run.
MC_HordeOne == {h1}
MC_Guides == {g1}
MC_Diffs == {1, 2}

MC_Symmetry == Permutations(MC_Alliance) \cup Permutations(MC_Horde)
====
