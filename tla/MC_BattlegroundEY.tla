------------------------- MODULE MC_BattlegroundEY -------------------------
(***************************************************************************)
(* Model-checking instance of BattlegroundEY: one or two towers (Fel      *)
(* Reaver, Blood Elf), one alliance and one or two horde players, and the  *)
(* timers, scores and bar thresholds of the code scaled down with their    *)
(* order kept (see README.md, "Bounds").                                  *)
(***************************************************************************)
EXTENDS BattlegroundEY, TLC

CONSTANTS a1, h1, h2

MC_Alliance == {a1}
MC_Horde == {h1, h2}
\* One horde player, for the runs that need no second one.
MC_Horde1 == {h1}

\* BG_EY_TickPoints and BG_EY_FlagPoints, first two entries, scaled.
MC_TickPoints == <<1, 2>>
MC_FlagPoints == <<2, 3>>

=============================================================================
