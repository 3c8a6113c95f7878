--------------------------- MODULE BattlegroundEY ---------------------------
(***************************************************************************)
(* Eye of the Storm (src/.../Battlegrounds/Zones/BattlegroundEY.cpp) on    *)
(* top of the parts of Battleground.cpp that it calls: a match with four   *)
(* capture towers (EY_POINTS_MAX of them here), one neutral flag and two   *)
(* team scores.                                                            *)
(*                                                                         *)
(* Every server-side handler is one action. Handlers that call each other  *)
(* in the code (the tick calls AddPoints, which may call EndBattleground;  *)
(* a flag capture inside the tower scan ends the match in the middle of    *)
(* the scan) are composed as operators from a state record to a state      *)
(* record, in the order the code calls them, so that one action is one     *)
(* whole call of the handler.                                              *)
(*                                                                         *)
(* The world the code reads but does not own is the environment: where a   *)
(* player stands (pos: inside the radius of which tower, if any, and able  *)
(* to capture), whether a player is online (ObjectAccessor::FindPlayer),   *)
(* and when the engine calls a handler.                                    *)
(***************************************************************************)
EXTENDS Integers, Sequences, FiniteSets, SequencesExt

CONSTANTS
    Alliance,               \* players of the alliance (model values)
    Horde,                  \* players of the horde (model values)
    EY_POINTS_MAX,          \* number of towers; index EY_POINTS_MAX is the "free space" list
    BG_EY_MAX_TEAM_SCORE,   \* 1600 in the code
    BG_EY_TickPoints,       \* <<1, 2, 5, 10>> in the code, indexed by towers owned
    BG_EY_FlagPoints,       \* <<75, 85, 100, 500>> in the code, indexed by towers owned
    BG_EY_POINT_MAX_CAPTURERS_COUNT,       \* 5
    BG_EY_PROGRESS_BAR_HORDE_CONTROLLED,   \* 0
    BG_EY_PROGRESS_BAR_NEUTRAL_LOW,        \* 30
    BG_EY_PROGRESS_BAR_STATE_MIDDLE,       \* 50
    BG_EY_PROGRESS_BAR_NEUTRAL_HIGH,       \* 70
    BG_EY_PROGRESS_BAR_ALI_CONTROLLED,     \* 100
    BG_EY_FPOINTS_TICK_TIME,  \* 2 s, in update units
    BG_EY_FLAG_RESPAWN_TIME,  \* 8 s, in update units
    MinPlayersPerTeam,        \* GetMinPlayersPerTeam()
    PrematureFinishTime,      \* sBattlegroundMgr->GetPrematureFinishTime(), 0 = off
    Diffs,                    \* the values of diff an Update may be called with
    MaxNearCopies             \* bound: copies of one guid in m_PlayersNearPoint

ASSUME /\ Alliance \cap Horde = {}
       /\ EY_POINTS_MAX \in 1..4
       /\ Len(BG_EY_TickPoints) >= EY_POINTS_MAX
       /\ Len(BG_EY_FlagPoints) >= EY_POINTS_MAX
       /\ BG_EY_PROGRESS_BAR_HORDE_CONTROLLED < BG_EY_PROGRESS_BAR_NEUTRAL_LOW
       /\ BG_EY_PROGRESS_BAR_NEUTRAL_LOW < BG_EY_PROGRESS_BAR_STATE_MIDDLE
       /\ BG_EY_PROGRESS_BAR_STATE_MIDDLE < BG_EY_PROGRESS_BAR_NEUTRAL_HIGH
       /\ BG_EY_PROGRESS_BAR_NEUTRAL_HIGH < BG_EY_PROGRESS_BAR_ALI_CONTROLLED
       /\ Diffs \subseteq Nat \ {0}
       /\ MaxNearCopies \in Nat \ {0}

Players == Alliance \cup Horde

ALLIANCE == "ALLIANCE"
HORDE == "HORDE"
Teams == {ALLIANCE, HORDE}
TeamOf(pl) == IF pl \in Alliance THEN ALLIANCE ELSE HORDE

\* BattlegroundStatus (Battleground.h)
STATUS_WAIT_JOIN == 2
STATUS_IN_PROGRESS == 3
STATUS_WAIT_LEAVE == 4

\* PvPTeamId as stored by SetWinner
PVP_TEAM_NEUTRAL == "NEUTRAL"

\* BattlegroundEYPointState and EY_POINT_NO_OWNER
EY_POINT_NO_OWNER == "NONE"
EY_POINT_STATE_UNCONTROLLED == 0
EY_POINT_UNDER_CONTROL == 3

\* EYBattlegroundFlagState
BG_EY_FLAG_STATE_ON_BASE == 0
BG_EY_FLAG_STATE_WAIT_RESPAWN == 1
BG_EY_FLAG_STATE_ON_PLAYER == 2
BG_EY_FLAG_STATE_ON_GROUND == 3

FEL_REAVER == 0
Points == 0..(EY_POINTS_MAX - 1)
FreeSpace == EY_POINTS_MAX            \* EY_PLAYERS_OUT_OF_POINTS
NoPlayer == "EMPTY"                   \* ObjectGuid::Empty
NoPoint == -1                         \* out of the radius of every tower

VARIABLES
    m_Status, m_Winner,
    m_Players,            \* guids in Battleground::m_Players
    online,               \* players ObjectAccessor::FindPlayer finds
    m_OfflineQueue,
    rewardedWinners,      \* history: teams handed the winner rewards of EndBattleground
    m_PrematureCountDown, m_PrematureCountDownTimer,
    m_SetDeleteThis,
    m_TeamScores, m_TeamPointsCount,
    m_PointOwnedByTeam, m_PointState, m_PointBarStatus,
    m_PlayersNearPoint,
    m_FlagState, m_FlagKeeper, m_FlagsTimer,
    m_PointAddingTimer, m_TowerCapCheckTimer,
    pos                   \* environment: the tower a player can capture, or NoPoint

vars == <<m_Status, m_Winner, m_Players, online, m_OfflineQueue, rewardedWinners,
          m_PrematureCountDown, m_PrematureCountDownTimer, m_SetDeleteThis,
          m_TeamScores, m_TeamPointsCount, m_PointOwnedByTeam, m_PointState,
          m_PointBarStatus, m_PlayersNearPoint,
          m_FlagState, m_FlagKeeper, m_FlagsTimer, m_PointAddingTimer,
          m_TowerCapCheckTimer, pos>>

(***************************************************************************)
(* The state as one record, so that nested calls compose.                 *)
(* m_CurrentPointPlayersCount is a field of the record but not a variable: *)
(* CheckSomeoneLeftPoint recomputes it from zero on every scan, right      *)
(* before UpdatePointStatuses, its only reader, so its value between two   *)
(* scans is never observed.                                                *)
(***************************************************************************)
NoCounts == [p \in Points |-> [t \in Teams |-> 0]]

State == [m_Status |-> m_Status, m_Winner |-> m_Winner, m_Players |-> m_Players,
          online |-> online, m_OfflineQueue |-> m_OfflineQueue,
          rewardedWinners |-> rewardedWinners,
          m_PrematureCountDown |-> m_PrematureCountDown,
          m_PrematureCountDownTimer |-> m_PrematureCountDownTimer,
          m_SetDeleteThis |-> m_SetDeleteThis,
          m_TeamScores |-> m_TeamScores, m_TeamPointsCount |-> m_TeamPointsCount,
          m_PointOwnedByTeam |-> m_PointOwnedByTeam, m_PointState |-> m_PointState,
          m_PointBarStatus |-> m_PointBarStatus,
          m_PlayersNearPoint |-> m_PlayersNearPoint,
          m_CurrentPointPlayersCount |-> NoCounts,
          m_FlagState |-> m_FlagState, m_FlagKeeper |-> m_FlagKeeper,
          m_FlagsTimer |-> m_FlagsTimer, m_PointAddingTimer |-> m_PointAddingTimer,
          m_TowerCapCheckTimer |-> m_TowerCapCheckTimer, pos |-> pos]

Commit(s) ==
    LET r == s IN
    /\ m_Status' = r.m_Status
    /\ m_Winner' = r.m_Winner
    /\ m_Players' = r.m_Players
    /\ online' = r.online
    /\ m_OfflineQueue' = r.m_OfflineQueue
    /\ rewardedWinners' = r.rewardedWinners
    /\ m_PrematureCountDown' = r.m_PrematureCountDown
    /\ m_PrematureCountDownTimer' = r.m_PrematureCountDownTimer
    /\ m_SetDeleteThis' = r.m_SetDeleteThis
    /\ m_TeamScores' = r.m_TeamScores
    /\ m_TeamPointsCount' = r.m_TeamPointsCount
    /\ m_PointOwnedByTeam' = r.m_PointOwnedByTeam
    /\ m_PointState' = r.m_PointState
    /\ m_PointBarStatus' = r.m_PointBarStatus
    /\ m_PlayersNearPoint' = r.m_PlayersNearPoint
    /\ m_FlagState' = r.m_FlagState
    /\ m_FlagKeeper' = r.m_FlagKeeper
    /\ m_FlagsTimer' = r.m_FlagsTimer
    /\ m_PointAddingTimer' = r.m_PointAddingTimer
    /\ m_TowerCapCheckTimer' = r.m_TowerCapCheckTimer
    /\ pos' = r.pos

\* A left fold over a sequence, written out as a recursion so that TLC
\* evaluates it in one pass.
RECURSIVE SeqFold(_, _, _)
SeqFold(op(_, _), acc, seq) ==
    IF seq = << >> THEN acc ELSE SeqFold(op, op(acc, Head(seq)), Tail(seq))

(***************************************************************************)
(* Scores and the end of the match.                                        *)
(***************************************************************************)

\* Battleground::EndBattleground as overridden by BattlegroundEY. The win
\* rewards (RewardHonorToTeam for the winner, then the per-player winner
\* honor, arena points and achievements) are recorded in rewardedWinners;
\* SetWinner and SetStatus(STATUS_WAIT_LEAVE) are unconditional, whatever
\* the status was.
EndBattleground(s, winner) ==
    [s EXCEPT !.m_Winner = IF winner \in Teams THEN winner ELSE PVP_TEAM_NEUTRAL,
              !.m_Status = STATUS_WAIT_LEAVE,
              !.rewardedWinners = IF winner \in Teams THEN @ \cup {winner} ELSE @]

UpdateTeamScore(s, team) ==
    IF s.m_TeamScores[team] >= BG_EY_MAX_TEAM_SCORE
    THEN EndBattleground(s, team)
    ELSE s

\* m_HonorScoreTics and RewardHonorToTeam only hand out honor.
AddPoints(s, team, points) ==
    UpdateTeamScore([s EXCEPT !.m_TeamScores[team] = @ + points], team)

PlayersCountByTeam(s, team) ==
    Cardinality({pl \in s.m_Players : TeamOf(pl) = team})

\* Battleground::GetPrematureWinner, called by the override when scores tie.
BaseGetPrematureWinner(s) ==
    IF PlayersCountByTeam(s, ALLIANCE) >= MinPlayersPerTeam THEN ALLIANCE
    ELSE IF PlayersCountByTeam(s, HORDE) >= MinPlayersPerTeam THEN HORDE
    ELSE PVP_TEAM_NEUTRAL

GetPrematureWinner(s) ==
    IF s.m_TeamScores[ALLIANCE] > s.m_TeamScores[HORDE] THEN ALLIANCE
    ELSE IF s.m_TeamScores[HORDE] > s.m_TeamScores[ALLIANCE] THEN HORDE
    ELSE BaseGetPrematureWinner(s)

(***************************************************************************)
(* The flag.                                                               *)
(***************************************************************************)

\* Spawning and despawning game objects is not modelled.
RespawnFlag(s) == [s EXCEPT !.m_FlagState = BG_EY_FLAG_STATE_ON_BASE]

\* Mutant: only the dropped object is deleted, the flag is not respawned.
RespawnFlagAfterDrop_NoRespawn(s) == s

\* Also deletes the dropped-flag game object.
RespawnFlagAfterDrop(s) == RespawnFlag(s)

EventPlayerDroppedFlag(s, pl) ==
    IF s.m_FlagKeeper # pl THEN s
    ELSE IF s.m_Status # STATUS_IN_PROGRESS
         THEN [s EXCEPT !.m_FlagKeeper = NoPlayer]   \* only the aura is removed
         ELSE [s EXCEPT !.m_FlagKeeper = NoPlayer,
                        !.m_FlagState = BG_EY_FLAG_STATE_ON_GROUND,
                        !.m_FlagsTimer = BG_EY_FLAG_RESPAWN_TIME]

\* The distance check against the flag object is the caller's precondition.
EventPlayerClickedOnFlag(s, pl) ==
    IF s.m_Status # STATUS_IN_PROGRESS \/ s.m_FlagKeeper # NoPlayer THEN s
    ELSE [s EXCEPT !.m_FlagState = BG_EY_FLAG_STATE_ON_PLAYER,
                   !.m_FlagKeeper = pl]

EventPlayerCapturedFlag(s, pl) ==
    IF s.m_Status # STATUS_IN_PROGRESS \/ s.m_FlagKeeper # pl THEN s
    ELSE LET s1 == [s EXCEPT !.m_FlagKeeper = NoPlayer,
                             !.m_FlagState = BG_EY_FLAG_STATE_WAIT_RESPAWN,
                             !.m_FlagsTimer = BG_EY_FLAG_RESPAWN_TIME]
             n == s1.m_TeamPointsCount[TeamOf(pl)]
         IN IF n > 0 THEN AddPoints(s1, TeamOf(pl), BG_EY_FlagPoints[n]) ELSE s1

(***************************************************************************)
(* Towers.                                                                 *)
(***************************************************************************)

\* Mutant: the tower changes hands without the team's counter.
EventTeamCapturedPoint_NoCount(s, pl, point) ==
    IF s.m_Status # STATUS_IN_PROGRESS THEN s
    ELSE [s EXCEPT !.m_PointOwnedByTeam[point] = TeamOf(pl),
                   !.m_PointState[point] = EY_POINT_UNDER_CONTROL]

EventTeamCapturedPoint(s, pl, point) ==
    IF s.m_Status # STATUS_IN_PROGRESS THEN s
    ELSE [s EXCEPT !.m_TeamPointsCount[TeamOf(pl)] = @ + 1,
                   !.m_PointOwnedByTeam[point] = TeamOf(pl),
                   !.m_PointState[point] = EY_POINT_UNDER_CONTROL]

\* Mutant: the counter of the losing player's team is decremented instead of
\* the owner's.
EventTeamLostPoint_WrongTeam(s, pl, point) ==
    LET team == s.m_PointOwnedByTeam[point] IN
    IF s.m_Status # STATUS_IN_PROGRESS \/ team = EY_POINT_NO_OWNER THEN s
    ELSE [s EXCEPT !.m_TeamPointsCount[TeamOf(pl)] = @ - 1,
                   !.m_PointOwnedByTeam[point] = EY_POINT_NO_OWNER,
                   !.m_PointState[point] = EY_POINT_STATE_UNCONTROLLED]

\* m_TeamPointsCount is a uint32: a decrement from 0 would wrap, and the
\* type invariant would catch it.
EventTeamLostPoint(s, pl, point) ==
    LET team == s.m_PointOwnedByTeam[point] IN
    IF s.m_Status # STATUS_IN_PROGRESS \/ team = EY_POINT_NO_OWNER THEN s
    ELSE [s EXCEPT !.m_TeamPointsCount[team] = @ - 1,
                   !.m_PointOwnedByTeam[point] = EY_POINT_NO_OWNER,
                   !.m_PointState[point] = EY_POINT_STATE_UNCONTROLLED]

\* Player::CanCaptureTowerPoint() && IsWithinDistInMap(tower, radius)
InRadius(s, g, point) == g \in s.online /\ s.pos[g] = point

PointSeq == [i \in 1..EY_POINTS_MAX |-> i - 1]

\* Each found player of the free-space list standing at a tower is appended
\* to that tower's list and erased from free space, in list order.
CheckSomeoneJoinedPoint(s) ==
    LET join(acc, point) ==
          LET free == acc.m_PlayersNearPoint[FreeSpace]
              in(g) == InRadius(acc, g, point)
          IN [acc EXCEPT !.m_PlayersNearPoint[point] = @ \o SelectSeq(free, in),
                         !.m_PlayersNearPoint[FreeSpace] =
                             SelectSeq(free, LAMBDA g : ~in(g))]
    IN SeqFold(join, s, PointSeq)

\* Counts restart from zero; players no longer found or no longer in the
\* radius go back to free space (appended in list order), the others are
\* counted per team, once per entry of the list.
CheckSomeoneLeftPoint(s) ==
    LET leave(acc, point) ==
          LET lst == acc.m_PlayersNearPoint[point]
              in(g) == InRadius(acc, g, point)
              kept == SelectSeq(lst, in)
          IN [acc EXCEPT !.m_PlayersNearPoint[point] = kept,
                         !.m_PlayersNearPoint[FreeSpace] =
                             @ \o SelectSeq(lst, LAMBDA g : ~in(g)),
                         !.m_CurrentPointPlayersCount[point] =
                             [t \in Teams |->
                                Len(SelectSeq(kept, LAMBDA g : TeamOf(g) = t))]]
    IN SeqFold(leave, s, PointSeq)

\* Mutant: the alliance threshold compares against the middle of the bar.
PointOwnerFor_Middle(bar) ==
    IF bar <= BG_EY_PROGRESS_BAR_NEUTRAL_LOW THEN HORDE
    ELSE IF bar >= BG_EY_PROGRESS_BAR_STATE_MIDDLE THEN ALLIANCE
    ELSE EY_POINT_NO_OWNER

\* The owner the progress bar asks for.
PointOwnerFor(bar) ==
    IF bar <= BG_EY_PROGRESS_BAR_NEUTRAL_LOW THEN HORDE
    ELSE IF bar >= BG_EY_PROGRESS_BAR_NEUTRAL_HIGH THEN ALLIANCE
    ELSE EY_POINT_NO_OWNER

\* The bar moves by the alliance-minus-horde count, capped at
\* BG_EY_POINT_MAX_CAPTURERS_COUNT (a signed comparison), then clamped.
NextBarStatus(s, point) ==
    LET d == s.m_CurrentPointPlayersCount[point][ALLIANCE]
               - s.m_CurrentPointPlayersCount[point][HORDE]
        b == s.m_PointBarStatus[point]
               + (IF d < BG_EY_POINT_MAX_CAPTURERS_COUNT
                  THEN d ELSE BG_EY_POINT_MAX_CAPTURERS_COUNT)
    IN IF b > BG_EY_PROGRESS_BAR_ALI_CONTROLLED THEN BG_EY_PROGRESS_BAR_ALI_CONTROLLED
       ELSE IF b < BG_EY_PROGRESS_BAR_HORDE_CONTROLLED
            THEN BG_EY_PROGRESS_BAR_HORDE_CONTROLLED
            ELSE b

\* One iteration of the loop over m_PlayersNearPoint[point]: the owner
\* change events, then the Fel Reaver area-trigger workaround. atSpot is
\* the distance check against the capture spot.
PointPlayerStep(s, point, ownerId, g, atSpot) ==
    IF g \notin s.online THEN s
    ELSE
    LET c1 == IF ownerId # s.m_PointOwnedByTeam[point]
                 /\ s.m_PointState[point] = EY_POINT_STATE_UNCONTROLLED
                 /\ TeamOf(g) = ownerId
              THEN EventTeamCapturedPoint(s, g, point) ELSE s
        c2 == IF ownerId # s.m_PointOwnedByTeam[point]
                 /\ c1.m_PointState[point] = EY_POINT_UNDER_CONTROL
                 /\ TeamOf(g) # c1.m_PointOwnedByTeam[point]
              THEN EventTeamLostPoint(c1, g, point) ELSE c1
    IN IF /\ point = FEL_REAVER
          /\ c2.m_PointOwnedByTeam[point] = TeamOf(g)
          /\ c2.m_FlagState # BG_EY_FLAG_STATE_ON_BASE
          /\ c2.m_FlagKeeper = g
          /\ atSpot
       THEN EventPlayerCapturedFlag(c2, g)
       ELSE c2

UpdatePointStatuses(s, atSpot) ==
    LET upd(acc, point) ==
          IF acc.m_PlayersNearPoint[point] = << >> THEN acc
          ELSE LET s1 == [acc EXCEPT !.m_PointBarStatus[point] = NextBarStatus(acc, point)]
                   ownerId == PointOwnerFor(s1.m_PointBarStatus[point])
               IN SeqFold(LAMBDA a, g : PointPlayerStep(a, point, ownerId, g, atSpot),
                           s1, s1.m_PlayersNearPoint[point])
    IN SeqFold(upd, s, PointSeq)

\* The score tick, the flag respawn timer and the tower scan, in this order.
PostUpdateImpl(s, diff, atSpot) ==
    IF s.m_Status # STATUS_IN_PROGRESS THEN s
    ELSE
    LET pt == s.m_PointAddingTimer - diff
        s1 == IF pt > 0 THEN [s EXCEPT !.m_PointAddingTimer = pt]
              ELSE LET r == [s EXCEPT !.m_PointAddingTimer = BG_EY_FPOINTS_TICK_TIME]
                       na == r.m_TeamPointsCount[ALLIANCE]
                       a == IF na > 0 THEN AddPoints(r, ALLIANCE, BG_EY_TickPoints[na]) ELSE r
                       nh == a.m_TeamPointsCount[HORDE]
                   IN IF nh > 0 THEN AddPoints(a, HORDE, BG_EY_TickPoints[nh]) ELSE a
        ft == s1.m_FlagsTimer - diff
        s2 == IF s1.m_FlagState \notin {BG_EY_FLAG_STATE_WAIT_RESPAWN, BG_EY_FLAG_STATE_ON_GROUND}
              THEN s1
              ELSE IF ft >= 0 THEN [s1 EXCEPT !.m_FlagsTimer = ft]
              ELSE LET r == [s1 EXCEPT !.m_FlagsTimer = 0]
                   IN IF r.m_FlagState = BG_EY_FLAG_STATE_WAIT_RESPAWN
                      THEN RespawnFlag(r) ELSE RespawnFlagAfterDrop(r)
        tt == s2.m_TowerCapCheckTimer - diff
    IN IF tt > 0 THEN [s2 EXCEPT !.m_TowerCapCheckTimer = tt]
       ELSE [UpdatePointStatuses(CheckSomeoneLeftPoint(CheckSomeoneJoinedPoint(s2)), atSpot)
               EXCEPT !.m_TowerCapCheckTimer = BG_EY_FPOINTS_TICK_TIME]

(***************************************************************************)
(* Joining and leaving.                                                    *)
(***************************************************************************)

\* The erase loop of BattlegroundEY::RemovePlayer: after erasing index i it
\* still increments i, so the entry that moved into i is not looked at.
RECURSIVE EraseLoop(_, _, _)
EraseLoop(v, guid, i) ==
    IF i > Len(v) THEN v
    ELSE IF v[i] = guid THEN EraseLoop(RemoveAt(v, i), guid, i + 1)
    ELSE EraseLoop(v, guid, i + 1)

\* Mutant: the guid is erased from the lists but the flag is not given up.
RemovePlayer_KeepFlag(s, guid, found) ==
    [s EXCEPT !.m_PlayersNearPoint = [j \in DOMAIN @ |-> EraseLoop(@[j], guid, 1)]]

\* BattlegroundEY::RemovePlayer; found says whether the Player* is non-null.
RemovePlayer(s, guid, found) ==
    LET s1 == [s EXCEPT !.m_PlayersNearPoint =
                   [j \in DOMAIN @ |-> EraseLoop(@[j], guid, 1)]]
    IN IF s1.m_FlagKeeper # guid THEN s1
       ELSE IF found THEN EventPlayerDroppedFlag(s1, guid)
       ELSE RespawnFlag([s1 EXCEPT !.m_FlagKeeper = NoPlayer])

\* Battleground::RemovePlayerAtLeave with Transport: the participant entry is
\* erased, the subclass hook runs, and a player that is found is teleported
\* out of the battleground.
RemovePlayerAtLeave(s, guid) ==
    LET s1 == [s EXCEPT !.m_Players = @ \ {guid}]
        s2 == RemovePlayer(s1, guid, guid \in s1.online)
    IN [s2 EXCEPT !.pos[guid] = NoPoint]

\* BattlegroundEY::AddPlayer on top of Battleground::AddPlayer: the guid is
\* pushed to the free-space list whether or not it is already in the match.
AddPlayer(s, pl) ==
    [s EXCEPT !.m_Players = @ \cup {pl},
              !.m_PlayersNearPoint[FreeSpace] = Append(@, pl)]

(***************************************************************************)
(* Battleground::Update.                                                   *)
(***************************************************************************)

\* Mutant: the expired player is removed but its entry is not popped.
ProcessOfflineQueue_NoPop(s, expired) ==
    IF s.m_OfflineQueue = << >> THEN s
    ELSE LET g == Head(s.m_OfflineQueue) IN
         IF g \notin s.m_Players \/ ~(expired \/ g \in s.online) THEN s
         ELSE RemovePlayerAtLeave(s, g)

\* Only the head is looked at; a head that is no longer a participant is
\* never popped.
ProcessOfflineQueue(s, expired) ==
    IF s.m_OfflineQueue = << >> THEN s
    ELSE LET g == Head(s.m_OfflineQueue) IN
         \* a guid that is online again had its OfflineRemoveTime reset to 0
         IF g \notin s.m_Players \/ ~(expired \/ g \in s.online) THEN s
         ELSE [RemovePlayerAtLeave(s, g) EXCEPT !.m_OfflineQueue = Tail(@)]

\* Battleground::_ProcessProgress (announcements left out; not in test mode).
ProcessProgress(s, diff) ==
    IF ~s.m_PrematureCountDown
    THEN [s EXCEPT !.m_PrematureCountDown = TRUE,
                   !.m_PrematureCountDownTimer = PrematureFinishTime]
    ELSE IF s.m_PrematureCountDownTimer < diff
    THEN [EndBattleground(s, GetPrematureWinner(s)) EXCEPT !.m_PrematureCountDown = FALSE]
    ELSE [s EXCEPT !.m_PrematureCountDownTimer = @ - diff]

\* The STATUS_IN_PROGRESS branch of Battleground::Update, then PostUpdateImpl.
UpdateInProgress(s, diff, expired, atSpot) ==
    LET s1 == ProcessOfflineQueue(s, expired)
        short == \E t \in Teams : PlayersCountByTeam(s1, t) < MinPlayersPerTeam
        s2 == IF PrematureFinishTime # 0 /\ short THEN ProcessProgress(s1, diff)
              ELSE IF s1.m_PrematureCountDown
                   THEN [s1 EXCEPT !.m_PrematureCountDown = FALSE]
                   ELSE s1
    IN PostUpdateImpl(s2, diff, atSpot)

\* All the lists of m_PlayersNearPoint, one after the other.
AllNear(near) ==
    SeqFold(LAMBDA acc, j : acc \o near[j], << >>, [i \in 1..(EY_POINTS_MAX + 1) |-> i - 1])

NearCopies(near, g) == Len(SelectSeq(AllNear(near), LAMBDA x : x = g))

\* The loop of _ProcessLeave over m_Players (a std::map, in guid order).
RECURSIVE RemoveEveryPlayer(_, _)
RemoveEveryPlayer(s, guids) ==
    IF guids = {} THEN s
    ELSE LET g == CHOOSE x \in guids : TRUE
         IN RemoveEveryPlayer(RemovePlayerAtLeave(s, g), guids \ {g})

(***************************************************************************)
(* The initial state: BattlegroundEY::Reset, then STATUS_WAIT_JOIN.        *)
(***************************************************************************)

Init ==
    /\ m_Status = STATUS_WAIT_JOIN
    /\ m_Winner = PVP_TEAM_NEUTRAL
    /\ m_Players = {}
    /\ online = Players
    /\ m_OfflineQueue = << >>
    /\ rewardedWinners = {}
    /\ m_PrematureCountDown = FALSE
    /\ m_PrematureCountDownTimer = 0
    /\ m_SetDeleteThis = FALSE
    /\ m_TeamScores = [t \in Teams |-> 0]
    /\ m_TeamPointsCount = [t \in Teams |-> 0]
    /\ m_PointOwnedByTeam = [p \in Points |-> EY_POINT_NO_OWNER]
    /\ m_PointState = [p \in Points |-> EY_POINT_STATE_UNCONTROLLED]
    /\ m_PointBarStatus = [p \in Points |-> BG_EY_PROGRESS_BAR_STATE_MIDDLE]
    /\ m_PlayersNearPoint = [j \in 0..EY_POINTS_MAX |-> << >>]
    /\ m_FlagState = BG_EY_FLAG_STATE_ON_BASE
    /\ m_FlagKeeper = NoPlayer
    /\ m_FlagsTimer = 0
    /\ m_PointAddingTimer = 0
    /\ m_TowerCapCheckTimer = 0
    /\ pos = [pl \in Players |-> NoPoint]

(***************************************************************************)
(* Actions: Battleground::Update, by status.                               *)
(***************************************************************************)

\* No participant left: the object is marked for deletion (no invitation
\* is outstanding; invitations are not modelled).
UpdateEmpty ==
    /\ ~m_SetDeleteThis
    /\ m_Players = {}
    /\ m_SetDeleteThis' = TRUE
    /\ UNCHANGED <<m_Status, m_Winner, m_Players, online, m_OfflineQueue, rewardedWinners,
                   m_PrematureCountDown, m_PrematureCountDownTimer,
                   m_TeamScores, m_TeamPointsCount, m_PointOwnedByTeam,
                   m_PointState, m_PointBarStatus, m_PlayersNearPoint,
                   m_FlagState, m_FlagKeeper,
                   m_FlagsTimer, m_PointAddingTimer, m_TowerCapCheckTimer, pos>>

\* The Update in which _ProcessJoin reaches BG_STARTING_EVENT_4: the status
\* becomes STATUS_IN_PROGRESS and the same Update runs PostUpdateImpl.
UpdateStart ==
    /\ m_Status = STATUS_WAIT_JOIN
    /\ m_Players # {}
    /\ \E diff \in Diffs, atSpot \in BOOLEAN :
         Commit(PostUpdateImpl([State EXCEPT !.m_Status = STATUS_IN_PROGRESS],
                               diff, atSpot))

UpdateRunning ==
    /\ m_Status = STATUS_IN_PROGRESS
    /\ m_Players # {}
    /\ \E diff \in Diffs, expired \in BOOLEAN, atSpot \in BOOLEAN :
         LET r == UpdateInProgress(State, diff, expired, atSpot) IN Commit(r)

\* _ProcessLeave once m_EndTime has run out: every participant is removed.
UpdateLeave ==
    /\ m_Status = STATUS_WAIT_LEAVE
    /\ m_Players # {}
    /\ LET r == RemoveEveryPlayer(State, m_Players) IN Commit(r)

(***************************************************************************)
(* Actions: events the engine delivers for one player.                     *)
(***************************************************************************)

\* WorldSession::HandleMoveWorldportAck: an invited player enters, or a
\* participant enters again (bounded by MaxNearCopies).
EnterBattleground(pl) ==
    /\ ~m_SetDeleteThis
    /\ pl \in online
    /\ \/ pl \notin m_Players /\ m_Status # STATUS_WAIT_LEAVE
       \/ pl \in m_Players
          /\ NearCopies(m_PlayersNearPoint, pl) < MaxNearCopies
    /\ Commit(AddPlayer(State, pl))

\* Player::LeaveBattleground: RemovePlayerAtLeave with teleport.
LeaveBattleground(pl) ==
    /\ pl \in m_Players /\ pl \in online
    /\ Commit(RemovePlayerAtLeave(State, pl))

EventPlayerLoggedOut(pl) ==
    /\ pl \in m_Players /\ pl \in online
    /\ LET s1 == [State EXCEPT !.m_OfflineQueue = Append(@, pl)]
           s2 == IF m_Status = STATUS_IN_PROGRESS THEN RemovePlayer(s1, pl, TRUE) ELSE s1
       IN Commit([s2 EXCEPT !.online = @ \ {pl}, !.pos[pl] = NoPoint])

EventPlayerLoggedIn(pl) ==
    /\ pl \in m_Players /\ pl \notin online
    /\ Commit([State EXCEPT !.m_OfflineQueue = RemoveFirst(@, pl),
                            !.online = @ \cup {pl}])

\* A player that is not a participant logs in somewhere else in the world.
LogInElsewhere(pl) ==
    /\ ~m_SetDeleteThis
    /\ pl \notin m_Players /\ pl \notin online
    /\ online' = online \cup {pl}
    /\ UNCHANGED <<m_Status, m_Winner, m_Players, m_OfflineQueue, rewardedWinners,
                   m_PrematureCountDown, m_PrematureCountDownTimer, m_SetDeleteThis,
                   m_TeamScores, m_TeamPointsCount, m_PointOwnedByTeam,
                   m_PointState, m_PointBarStatus, m_PlayersNearPoint,
                   m_FlagState, m_FlagKeeper,
                   m_FlagsTimer, m_PointAddingTimer, m_TowerCapCheckTimer, pos>>

\* BattlegroundEY::HandleKillPlayer; a dead player cannot capture a tower.
HandleKillPlayer(pl) ==
    /\ pl \in m_Players /\ pl \in online
    /\ LET s1 == IF m_Status # STATUS_IN_PROGRESS THEN State
                 ELSE EventPlayerDroppedFlag(State, pl)
       IN Commit([s1 EXCEPT !.pos[pl] = NoPoint])

\* A click on the flag object, which exists on the base or on the ground once
\* the doors are open; the player stands within 10 yards of it.
ClickOnFlag(pl) ==
    /\ pl \in m_Players /\ pl \in online
    /\ m_Status # STATUS_WAIT_JOIN
    /\ m_FlagState \in {BG_EY_FLAG_STATE_ON_BASE, BG_EY_FLAG_STATE_ON_GROUND}
    /\ Commit(EventPlayerClickedOnFlag(State, pl))

\* BattlegroundEY::HandleAreaTrigger for the capture trigger of a tower.
HandleAreaTrigger(pl, point) ==
    /\ pl \in m_Players /\ pl \in online
    /\ pos[pl] = point
    /\ LET s == State IN
       Commit(IF /\ s.m_Status = STATUS_IN_PROGRESS
                 /\ s.m_PointState[point] = EY_POINT_UNDER_CONTROL
                 /\ s.m_PointOwnedByTeam[point] = TeamOf(pl)
                 /\ s.m_FlagState # BG_EY_FLAG_STATE_ON_BASE
                 /\ s.m_FlagKeeper = pl
              THEN EventPlayerCapturedFlag(s, pl)
              ELSE s)

\* The environment: a participant walks into or out of a tower's radius.
Move(pl, p) ==
    /\ pl \in m_Players /\ pl \in online
    /\ p # pos[pl]
    /\ pos' = [pos EXCEPT ![pl] = p]
    /\ UNCHANGED <<m_Status, m_Winner, m_Players, online, m_OfflineQueue, rewardedWinners,
                   m_PrematureCountDown, m_PrematureCountDownTimer, m_SetDeleteThis,
                   m_TeamScores, m_TeamPointsCount, m_PointOwnedByTeam,
                   m_PointState, m_PointBarStatus, m_PlayersNearPoint,
                   m_FlagState, m_FlagKeeper,
                   m_FlagsTimer, m_PointAddingTimer, m_TowerCapCheckTimer>>

\* Once m_SetDeleteThis is set the BattlegroundMgr deletes the object.
Deleted ==
    /\ m_SetDeleteThis
    /\ UNCHANGED vars

\* Every action but UpdateEmpty needs a participant, and none can join once
\* m_SetDeleteThis is set, so only Deleted follows it.
Next ==
    \/ UpdateEmpty
    \/ UpdateStart
    \/ UpdateRunning
    \/ UpdateLeave
    \/ \E pl \in Players : EnterBattleground(pl)
    \/ \E pl \in Players : LeaveBattleground(pl)
    \/ \E pl \in Players : EventPlayerLoggedOut(pl)
    \/ \E pl \in Players : EventPlayerLoggedIn(pl)
    \/ \E pl \in Players : LogInElsewhere(pl)
    \/ \E pl \in Players : HandleKillPlayer(pl)
    \/ \E pl \in Players : ClickOnFlag(pl)
    \/ \E pl \in Players, p \in Points : HandleAreaTrigger(pl, p)
    \/ \E pl \in Players, p \in Points \cup {NoPoint} : Move(pl, p)
    \/ Deleted

Spec == Init /\ [][Next]_vars

\* Battleground::Update is called on every world tick for a live object.
\* RunningGuard is ENABLED <<UpdateRunning>>_vars: PostUpdateImpl always
\* moves m_PointAddingTimer (down by diff, or from a non-positive value back
\* to BG_EY_FPOINTS_TICK_TIME), so this is weak fairness of UpdateRunning
\* with the enabledness condition written out.
RunningGuard == m_Status = STATUS_IN_PROGRESS /\ m_Players # {}

\* An Update in which the head of m_OfflineQueue has been offline for
\* MAX_OFFLINE_TIME: GameTime advances on every world tick, so five minutes
\* after a logout every Update of a running match sees the head expired.
\* Its enabledness is RunningGuard as well, so Fairness is weak fairness
\* of this action.
UpdateRunningExpired ==
    /\ RunningGuard
    /\ \E diff \in Diffs, atSpot \in BOOLEAN :
         Commit(UpdateInProgress(State, diff, TRUE, atSpot))

\* It is a step of UpdateRunning, so this also makes UpdateRunning fair.
Fairness ==
    <>[]RunningGuard => []<><<UpdateRunningExpired>>_vars

FairSpec == Spec /\ Fairness

(***************************************************************************)
(* Properties.                                                             *)
(***************************************************************************)

TypeOK ==
    /\ m_Status \in {STATUS_WAIT_JOIN, STATUS_IN_PROGRESS, STATUS_WAIT_LEAVE}
    /\ m_Winner \in Teams \cup {PVP_TEAM_NEUTRAL}
    /\ m_Players \subseteq Players
    /\ online \subseteq Players
    /\ m_OfflineQueue \in Seq(Players)
    /\ rewardedWinners \subseteq Teams
    /\ m_PrematureCountDown \in BOOLEAN
    /\ m_PrematureCountDownTimer \in 0..PrematureFinishTime
    /\ m_SetDeleteThis \in BOOLEAN
    /\ m_TeamScores \in [Teams -> Nat]
    /\ m_TeamPointsCount \in [Teams -> 0..EY_POINTS_MAX]
    /\ m_PointOwnedByTeam \in [Points -> Teams \cup {EY_POINT_NO_OWNER}]
    /\ m_PointState \in [Points -> {EY_POINT_STATE_UNCONTROLLED, EY_POINT_UNDER_CONTROL}]
    /\ m_PointBarStatus \in [Points -> BG_EY_PROGRESS_BAR_HORDE_CONTROLLED..BG_EY_PROGRESS_BAR_ALI_CONTROLLED]
    /\ m_PlayersNearPoint \in [0..EY_POINTS_MAX -> Seq(Players)]
    /\ m_FlagState \in {BG_EY_FLAG_STATE_ON_BASE, BG_EY_FLAG_STATE_WAIT_RESPAWN,
                        BG_EY_FLAG_STATE_ON_PLAYER, BG_EY_FLAG_STATE_ON_GROUND}
    /\ m_FlagKeeper \in Players \cup {NoPlayer}
    /\ m_FlagsTimer \in 0..BG_EY_FLAG_RESPAWN_TIME
    /\ m_PointAddingTimer \in Int
    /\ m_TowerCapCheckTimer \in Int
    /\ pos \in [Players -> Points \cup {NoPoint}]

\* The tower counters that drive the score tick (m_TeamPointsCount, read by
\* PostUpdateImpl and EventPlayerCapturedFlag) always equal the number of
\* towers the team holds, and a tower has an owner exactly when it is under
\* control: EventTeamCapturedPoint and EventTeamLostPoint, fired from inside
\* the player loop of UpdatePointStatuses, never double count or miss one.
PointOwnershipAccounting ==
    /\ \A p \in Points :
         (m_PointOwnedByTeam[p] # EY_POINT_NO_OWNER) <=> (m_PointState[p] = EY_POINT_UNDER_CONTROL)
    /\ \A t \in Teams :
         m_TeamPointsCount[t] = Cardinality({p \in Points : m_PointOwnedByTeam[p] = t})

\* While the match runs, a team only holds a tower whose progress bar is on
\* its side of the neutral zone: UpdatePointStatuses takes the tower away as
\* soon as the bar leaves that side, whatever the order of the players in
\* m_PlayersNearPoint.
OwnershipFollowsBar ==
    m_Status = STATUS_IN_PROGRESS =>
      \A p \in Points :
        /\ m_PointOwnedByTeam[p] = ALLIANCE => m_PointBarStatus[p] >= BG_EY_PROGRESS_BAR_NEUTRAL_HIGH
        /\ m_PointOwnedByTeam[p] = HORDE => m_PointBarStatus[p] <= BG_EY_PROGRESS_BAR_NEUTRAL_LOW

\* A keeper always carries the flag ON_PLAYER; while the match runs the flag
\* is ON_PLAYER only with a keeper, and the keeper is an online participant:
\* leaving, logging out and dying (RemovePlayer, EventPlayerDroppedFlag) all
\* give the flag up.  Only after the end may EventPlayerDroppedFlag clear the
\* keeper and leave the state ON_PLAYER, when nothing reads it any more.
FlagCarrierConsistent ==
    /\ m_FlagKeeper # NoPlayer => m_FlagState = BG_EY_FLAG_STATE_ON_PLAYER
    /\ m_FlagState = BG_EY_FLAG_STATE_ON_PLAYER /\ m_FlagKeeper = NoPlayer
         => m_Status \in {STATUS_WAIT_LEAVE}
    /\ m_Status = STATUS_IN_PROGRESS /\ m_FlagKeeper # NoPlayer
         => m_FlagKeeper \in m_Players \cap online

\* A dropped or captured flag comes back: the respawn timer of PostUpdateImpl
\* returns it to its base unless someone picks it up or the match stops.
FlagReturns ==
    (m_Status = STATUS_IN_PROGRESS
       /\ m_FlagState \in {BG_EY_FLAG_STATE_WAIT_RESPAWN, BG_EY_FLAG_STATE_ON_GROUND})
    ~> (\/ m_FlagState \in {BG_EY_FLAG_STATE_ON_BASE, BG_EY_FLAG_STATE_ON_PLAYER}
        \/ m_Status # STATUS_IN_PROGRESS
        \/ m_Players = {})

\* A participant who logs out of a running match and stays offline is
\* removed from it: _ProcessOfflineQueue looks only at the head of
\* m_OfflineQueue, so every entry must be popped once its player is gone,
\* or the players queued behind it are never removed.
OfflineParticipantRemoved ==
    \A pl \in Players :
        (pl \in m_Players /\ pl \notin online /\ m_Status = STATUS_IN_PROGRESS)
          ~> (pl \notin m_Players \/ pl \in online \/ m_Status # STATUS_IN_PROGRESS)

\* A match has one winner: EndBattleground hands the win rewards to one team
\* only. PostUpdateImpl calls AddPoints for both teams in one tick, and each
\* call may reach UpdateTeamScore's end condition.
MatchHasOneWinner ==
    Cardinality(rewardedWinners) <= 1

\* One tower scan moves a progress bar by at most
\* BG_EY_POINT_MAX_CAPTURERS_COUNT, as the cap in UpdatePointStatuses intends.
BarStepBounded ==
    [][\A p \in Points :
         m_PointBarStatus'[p] - m_PointBarStatus[p]
           \in -BG_EY_POINT_MAX_CAPTURERS_COUNT..BG_EY_POINT_MAX_CAPTURERS_COUNT]_vars

\* A participant is in at most one of the m_PlayersNearPoint lists, once, so
\* CheckSomeoneLeftPoint counts each nearby participant once.
NearPointTrackedOnce ==
    \A pl \in Players : NearCopies(m_PlayersNearPoint, pl) <= 1

=============================================================================
