\* Two towers, one player per team, Update called on every world tick:
\* tower ownership, the score counters, the flag carrier while the match
\* runs, a dropped or captured flag returns, and an offline participant
\* is removed.
CONSTANTS
    a1 = a1
    h1 = h1
    h2 = h2
    Alliance <- MC_Alliance
    Horde <- MC_Horde1
    EY_POINTS_MAX = 2
    BG_EY_MAX_TEAM_SCORE = 2
    BG_EY_TickPoints <- MC_TickPoints
    BG_EY_FlagPoints <- MC_FlagPoints
    BG_EY_POINT_MAX_CAPTURERS_COUNT = 2
    BG_EY_PROGRESS_BAR_HORDE_CONTROLLED = 0
    BG_EY_PROGRESS_BAR_NEUTRAL_LOW = 1
    BG_EY_PROGRESS_BAR_STATE_MIDDLE = 2
    BG_EY_PROGRESS_BAR_NEUTRAL_HIGH = 3
    BG_EY_PROGRESS_BAR_ALI_CONTROLLED = 4
    BG_EY_FPOINTS_TICK_TIME = 2
    BG_EY_FLAG_RESPAWN_TIME = 1
    MinPlayersPerTeam = 1
    PrematureFinishTime = 0
    Diffs = {1}
    MaxNearCopies = 1
SPECIFICATION FairSpec
INVARIANTS
    TypeOK
    PointOwnershipAccounting
    OwnershipFollowsBar
    
PROPERTIES
    FlagReturns
    OfflineParticipantRemoved
