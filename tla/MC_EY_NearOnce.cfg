\* A participant enters the battleground again: its guid is pushed a second time.
CONSTANTS
    a1 = a1
    h1 = h1
    h2 = h2
    Alliance <- MC_Alliance
    Horde <- MC_Horde1
    EY_POINTS_MAX = 1
    BG_EY_MAX_TEAM_SCORE = 3
    BG_EY_TickPoints <- MC_TickPoints
    BG_EY_FlagPoints <- MC_FlagPoints
    BG_EY_POINT_MAX_CAPTURERS_COUNT = 2
    BG_EY_PROGRESS_BAR_HORDE_CONTROLLED = 0
    BG_EY_PROGRESS_BAR_NEUTRAL_LOW = 1
    BG_EY_PROGRESS_BAR_STATE_MIDDLE = 2
    BG_EY_PROGRESS_BAR_NEUTRAL_HIGH = 3
    BG_EY_PROGRESS_BAR_ALI_CONTROLLED = 4
    BG_EY_FPOINTS_TICK_TIME = 2
    BG_EY_FLAG_RESPAWN_TIME = 2
    MinPlayersPerTeam = 1
    PrematureFinishTime = 1
    Diffs = {1}
    MaxNearCopies = 2
SPECIFICATION Spec
INVARIANTS
    NearPointTrackedOnce
