-------------------------- MODULE MC_BossNajentus --------------------------
EXTENDS BossNajentus, TLC

CONSTANTS p1, p2, p3

MC_Players == {p1, p2, p3}

\* Tick lengths of 5s: the event delays of the script divided by five,
\* rounded up.
MC_ShieldRepeat == {11, 12}
MC_SpineRepeat == {4, 5}

MC_Symmetry == Permutations({p2, p3})
====
