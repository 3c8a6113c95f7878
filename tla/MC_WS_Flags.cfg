\* One player per team and an alliance npcbot in a1's group, Update called on
\* every world tick: flags taken, dropped, captured and respawned by players
\* and bots, bots that join, die, vanish and leave with their owner, the
\* result against MatchOutcome, and flags that return to their base.
CONSTANTS
    a1 = a1
    h1 = h1
    ab1 = ab1
    Alliance <- MC_Alliance
    Horde <- MC_Horde
    ABots <- MC_ABots
    HBots <- MC_NoBots
    BG_WS_MAX_TEAM_SCORE = 2
    BG_WS_FLAG_RESPAWN_TIME = 1
    BG_WS_FLAG_DROP_TIME = 1
    BG_WS_TIME_LIMIT = 7
    WS_FOCUSED_ASSAULT_TIME = 1
    WS_BRUTAL_ASSAULT_TIME = 2
    StartDelayTimes <- MC_StartDelayTimes
    MinPlayersPerTeam = 1
    PrematureFinishTime = 1
    Diffs = {1}
    BotOwner <- MC_BotOwner
    PlayersCountBound = 2
SPECIFICATION FairSpec
INVARIANTS
    TypeOK
    FlagCarrierConsistent
    BothFlagsKeptSound
PROPERTIES
    ScoreNeedsOwnFlagHome
    OutcomeRefined
    FlagReturns
