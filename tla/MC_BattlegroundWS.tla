------------------------- MODULE MC_BattlegroundWS --------------------------
(***************************************************************************)
(* Model-checking instance of BattlegroundWS: one player per team, at most *)
(* one alliance npcbot, and the timers, delays and score limit of the code *)
(* scaled down with their order kept (see README.md, "Bounds").           *)
(***************************************************************************)
EXTENDS BattlegroundWS, TLC

CONSTANTS a1, h1, ab1

MC_Alliance == {a1}
MC_Horde == {h1}
MC_ABots == {ab1}
MC_NoBots == {}
MC_BotOwner == [b \in MC_ABots |-> a1]
MC_NoBotOwner == [b \in MC_NoBots |-> a1]

\* StartDelayTimes[BG_STARTING_EVENT_FIRST..THIRD], scaled.
MC_StartDelayTimes == <<1, 1, 0>>

=============================================================================
