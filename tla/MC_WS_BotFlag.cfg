\* The npcbot carrying the horde flag is no longer found by FindBot when it
\* leaves: RemoveBot respawns the flag without its object.
CONSTANTS
    a1 = a1
    h1 = h1
    ab1 = ab1
    Alliance <- MC_Alliance
    Horde <- MC_Horde
    ABots <- MC_ABots
    HBots <- MC_NoBots
    BG_WS_MAX_TEAM_SCORE = 2
    BG_WS_FLAG_RESPAWN_TIME = 1
    BG_WS_FLAG_DROP_TIME = 1
    BG_WS_TIME_LIMIT = 9
    WS_FOCUSED_ASSAULT_TIME = 1
    WS_BRUTAL_ASSAULT_TIME = 2
    StartDelayTimes <- MC_StartDelayTimes
    MinPlayersPerTeam = 1
    PrematureFinishTime = 1
    Diffs = {1}
    BotOwner <- MC_BotOwner
    PlayersCountBound = 2
SPECIFICATION Spec
INVARIANTS
    BaseFlagTakeable
