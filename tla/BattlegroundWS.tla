--------------------------- MODULE BattlegroundWS ---------------------------
(***************************************************************************)
(* Warsong Gulch (src/.../Battlegrounds/Zones/BattlegroundWS.cpp) on top   *)
(* of the parts of Battleground.cpp it calls: two flags, each taken from   *)
(* its base by the other team and captured in the taker's own flag room    *)
(* while the taker's own flag is at home; a score limit, a time limit with *)
(* a tie-break, and the start countdown of Battleground::_ProcessJoin.     *)
(*                                                                         *)
(* As in BattlegroundEY, a handler is an operator from a state record to a *)
(* state record and an action commits one whole call of a handler. The     *)
(* npcbots take part as well (the //npcbot blocks): a bot joins with its  *)
(* owner in AddPlayer, carries flags through the EventBot* twins of the   *)
(* player handlers and leaves through RemoveBotAtLeave; it has no logout, *)
(* but BotDataMgr::FindBot may not find it.                              *)
(*                                                                         *)
(* The environment is whether a unit is found (online), whether it stands in *)
(* the capture area trigger of its own flag room (inRoom), which flag      *)
(* object a player clicks, and when the engine calls a handler.            *)
(***************************************************************************)
EXTENDS Integers, Sequences, FiniteSets, SequencesExt

CONSTANTS
    Alliance, Horde,            \* players of each team (model values)
    ABots, HBots,               \* npcbots of each team (model values)
    BG_WS_MAX_TEAM_SCORE,       \* 3 in the code
    BG_WS_FLAG_RESPAWN_TIME,    \* 23 s, in update units
    BG_WS_FLAG_DROP_TIME,       \* 10 s, in update units
    BG_WS_TIME_LIMIT,           \* 27 min of m_StartTime, in update units
    WS_FOCUSED_ASSAULT_TIME,    \* 10 min of both flags kept
    WS_BRUTAL_ASSAULT_TIME,     \* 15 min of both flags kept
    StartDelayTimes,            \* <<2 min, 1 min, 30 s>>: BG_STARTING_EVENT_FIRST..THIRD
    MinPlayersPerTeam,          \* GetMinPlayersPerTeam()
    PrematureFinishTime,        \* sBattlegroundMgr->GetPrematureFinishTime(), 0 = off
    Diffs,                      \* the values of diff an Update may be called with
    PlayersCountBound,          \* bound on m_PlayersCount, which re-adding a bot raises
    BotOwner                    \* the player whose BotMap holds each npcbot

ASSUME /\ Alliance \cap Horde = {}
       /\ ABots \cap HBots = {} /\ (ABots \cup HBots) \cap (Alliance \cup Horde) = {}
       /\ BG_WS_MAX_TEAM_SCORE \in Nat \ {0}
       /\ Len(StartDelayTimes) = 3
       /\ 0 <= StartDelayTimes[3] /\ StartDelayTimes[3] <= StartDelayTimes[2]
       /\ StartDelayTimes[2] <= StartDelayTimes[1]
       /\ WS_FOCUSED_ASSAULT_TIME <= WS_BRUTAL_ASSAULT_TIME
       /\ Diffs \subseteq Nat \ {0}

Players == Alliance \cup Horde
Bots == ABots \cup HBots
Units == Players \cup Bots

ALLIANCE == "ALLIANCE"
HORDE == "HORDE"
Teams == {ALLIANCE, HORDE}
TeamOf(pl) == IF pl \in Alliance \cup ABots THEN ALLIANCE ELSE HORDE
OtherTeam(t) == IF t = ALLIANCE THEN HORDE ELSE ALLIANCE

\* A bot plays for its owner's team (Battleground::AddBot, owned bots).
ASSUME /\ BotOwner \in [Bots -> Players]
       /\ \A b \in Bots : TeamOf(BotOwner[b]) = TeamOf(b)

\* BattlegroundStatus (Battleground.h)
STATUS_WAIT_JOIN == 2
STATUS_IN_PROGRESS == 3
STATUS_WAIT_LEAVE == 4

\* The winner argument 0 of EndBattleground, and PVP_TEAM_NEUTRAL.
PVP_TEAM_NEUTRAL == "NEUTRAL"

\* BG_WS_FlagState: _flagState[t] is the state of the flag of team t.
BG_WS_FLAG_STATE_ON_BASE == 0
BG_WS_FLAG_STATE_WAIT_RESPAWN == 1
BG_WS_FLAG_STATE_ON_PLAYER == 2
BG_WS_FLAG_STATE_ON_GROUND == 3

NoPlayer == "EMPTY"          \* ObjectGuid::Empty

\* The flag objects a player can click: a flag on its base (BgObjects) or a
\* flag on the ground (the dropped-flag game object).
BASE == "base"
GROUND == "ground"

VARIABLES
    m_Status, m_Winner,
    m_Players,            \* guids in Battleground::m_Players
    m_Bots,               \* guids in Battleground::m_Bots
    m_PlayersCount,       \* m_PlayersCount[team], kept by UpdatePlayersCountByTeam
    online,               \* units ObjectAccessor::FindPlayer / BotDataMgr::FindBot find
    m_OfflineQueue,
    rewardedWinners,      \* history: teams handed the winner rewards of EndBattleground
    m_PrematureCountDown, m_PrematureCountDownTimer,
    m_SetDeleteThis,
    m_Events,             \* how many of BG_STARTING_EVENT_1..4 are set in m_Events
    m_StartDelayTime, m_StartTime,
    m_TeamScores,
    m_FlagKeepers,        \* m_FlagKeepers[t]: the carrier of the flag of team t
    _flagState, _flagsTimer, _flagsDropTimer,
    _bothFlagsKept, _flagDebuffState, _flagSpellForceTimer,
    _lastFlagCaptureTeam,
    flagSpawned,          \* whether the base flag object BG_WS_OBJECT_{A,H}_FLAG is spawned
    inRoom                \* environment: players inside their own capture area trigger

vars == <<m_Status, m_Winner, m_Players, m_Bots, m_PlayersCount, online, m_OfflineQueue, rewardedWinners,
          m_PrematureCountDown, m_PrematureCountDownTimer, m_SetDeleteThis,
          m_Events, m_StartDelayTime, m_StartTime, m_TeamScores, m_FlagKeepers,
          _flagState, _flagsTimer, _flagsDropTimer, _bothFlagsKept,
          _flagDebuffState, _flagSpellForceTimer, _lastFlagCaptureTeam,
          flagSpawned, inRoom>>

State == [m_Status |-> m_Status, m_Winner |-> m_Winner, m_Players |-> m_Players,
          m_Bots |-> m_Bots, m_PlayersCount |-> m_PlayersCount,
          online |-> online, m_OfflineQueue |-> m_OfflineQueue,
          rewardedWinners |-> rewardedWinners,
          m_PrematureCountDown |-> m_PrematureCountDown,
          m_PrematureCountDownTimer |-> m_PrematureCountDownTimer,
          m_SetDeleteThis |-> m_SetDeleteThis, m_Events |-> m_Events,
          m_StartDelayTime |-> m_StartDelayTime, m_StartTime |-> m_StartTime,
          m_TeamScores |-> m_TeamScores, m_FlagKeepers |-> m_FlagKeepers,
          _flagState |-> _flagState, _flagsTimer |-> _flagsTimer,
          _flagsDropTimer |-> _flagsDropTimer, _bothFlagsKept |-> _bothFlagsKept,
          _flagDebuffState |-> _flagDebuffState,
          _flagSpellForceTimer |-> _flagSpellForceTimer,
          _lastFlagCaptureTeam |-> _lastFlagCaptureTeam,
          flagSpawned |-> flagSpawned, inRoom |-> inRoom]

Commit(s) ==
    LET r == s IN
    /\ m_Status' = r.m_Status
    /\ m_Winner' = r.m_Winner
    /\ m_Players' = r.m_Players
    /\ m_Bots' = r.m_Bots
    /\ m_PlayersCount' = r.m_PlayersCount
    /\ online' = r.online
    /\ m_OfflineQueue' = r.m_OfflineQueue
    /\ rewardedWinners' = r.rewardedWinners
    /\ m_PrematureCountDown' = r.m_PrematureCountDown
    /\ m_PrematureCountDownTimer' = r.m_PrematureCountDownTimer
    /\ m_SetDeleteThis' = r.m_SetDeleteThis
    /\ m_Events' = r.m_Events
    /\ m_StartDelayTime' = r.m_StartDelayTime
    /\ m_StartTime' = r.m_StartTime
    /\ m_TeamScores' = r.m_TeamScores
    /\ m_FlagKeepers' = r.m_FlagKeepers
    /\ _flagState' = r._flagState
    /\ _flagsTimer' = r._flagsTimer
    /\ _flagsDropTimer' = r._flagsDropTimer
    /\ _bothFlagsKept' = r._bothFlagsKept
    /\ _flagDebuffState' = r._flagDebuffState
    /\ _flagSpellForceTimer' = r._flagSpellForceTimer
    /\ _lastFlagCaptureTeam' = r._lastFlagCaptureTeam
    /\ flagSpawned' = r.flagSpawned
    /\ inRoom' = r.inRoom

(***************************************************************************)
(* The end of the match.                                                   *)
(***************************************************************************)

\* BattlegroundWS::EndBattleground hands out honor, then
\* Battleground::EndBattleground sets the winner and STATUS_WAIT_LEAVE and
\* rewards the winning team (recorded in rewardedWinners).
EndBattleground(s, winner) ==
    [s EXCEPT !.m_Winner = IF winner \in Teams THEN winner ELSE PVP_TEAM_NEUTRAL,
              !.m_Status = STATUS_WAIT_LEAVE,
              !.rewardedWinners = IF winner \in Teams THEN @ \cup {winner} ELSE @]

\* Battleground::GetPlayersCountByTeam reads the counter.
PlayersCountByTeam(s, team) == s.m_PlayersCount[team]

\* Battleground::UpdatePlayersCountByTeam (+1, or -1 when remove).
UpdatePlayersCountByTeam(s, team, remove) ==
    [s EXCEPT !.m_PlayersCount[team] = IF remove THEN @ - 1 ELSE @ + 1]

BaseGetPrematureWinner(s) ==
    IF PlayersCountByTeam(s, ALLIANCE) >= MinPlayersPerTeam THEN ALLIANCE
    ELSE IF PlayersCountByTeam(s, HORDE) >= MinPlayersPerTeam THEN HORDE
    ELSE PVP_TEAM_NEUTRAL

GetPrematureWinner(s) ==
    IF s.m_TeamScores[ALLIANCE] > s.m_TeamScores[HORDE] THEN ALLIANCE
    ELSE IF s.m_TeamScores[HORDE] > s.m_TeamScores[ALLIANCE] THEN HORDE
    ELSE BaseGetPrematureWinner(s)

\* Mutant: a match where only the horde scored is given to the alliance.
TimeLimitWinner_NoHordeWin(s) ==
    LET a == s.m_TeamScores[ALLIANCE]
        h == s.m_TeamScores[HORDE]
    IN IF a = 0 THEN (IF h = 0 THEN PVP_TEAM_NEUTRAL ELSE ALLIANCE)
       ELSE IF h = 0 THEN ALLIANCE
       ELSE IF h = a THEN s._lastFlagCaptureTeam
       ELSE IF h > a THEN HORDE
       ELSE ALLIANCE

\* The winner PostUpdateImpl names once m_StartTime reaches the time limit.
TimeLimitWinner(s) ==
    LET a == s.m_TeamScores[ALLIANCE]
        h == s.m_TeamScores[HORDE]
    IN IF a = 0 THEN (IF h = 0 THEN PVP_TEAM_NEUTRAL ELSE HORDE)
       ELSE IF h = 0 THEN ALLIANCE
       ELSE IF h = a THEN s._lastFlagCaptureTeam
       ELSE IF h > a THEN HORDE
       ELSE ALLIANCE


(***************************************************************************)
(* The flags. Spawning a base flag object is recorded in flagSpawned;      *)
(* texts, sounds, world states and auras are left out.                     *)
(***************************************************************************)

\* Mutant: after a capture only the respawned flag's own object is spawned.
RespawnFlag_OwnOnly(s, team, captured) ==
    [s EXCEPT !._flagState[team] = BG_WS_FLAG_STATE_ON_BASE,
              !.flagSpawned = IF captured THEN [@ EXCEPT ![team] = TRUE] ELSE @,
              !._bothFlagsKept = FALSE]

\* BattlegroundWS::RespawnFlag: the flag is back on its base; after a
\* capture both base flag objects are spawned again.
RespawnFlag(s, team, captured) ==
    [s EXCEPT !._flagState[team] = BG_WS_FLAG_STATE_ON_BASE,
              !.flagSpawned = IF captured THEN [t \in Teams |-> TRUE] ELSE @,
              !._bothFlagsKept = FALSE]

EventPlayerCapturedFlag(s, pl) ==
    LET t == TeamOf(pl)
        f == OtherTeam(t)              \* the flag being captured
    IN
    IF s.m_Status # STATUS_IN_PROGRESS \/ s.m_FlagKeepers[f] = NoPlayer THEN s
    ELSE
    LET s1 == [s EXCEPT !.m_FlagKeepers[f] = NoPlayer,
                        !._flagState[f] = BG_WS_FLAG_STATE_WAIT_RESPAWN,
                        !.m_TeamScores[t] = IF @ < BG_WS_MAX_TEAM_SCORE THEN @ + 1 ELSE @,
                        \* SpawnBGObject(both flags, BG_WS_FLAG_RESPAWN_TIME)
                        !.flagSpawned = [x \in Teams |-> FALSE],
                        !._lastFlagCaptureTeam = t]
        winner == IF s1.m_TeamScores[HORDE] = BG_WS_MAX_TEAM_SCORE THEN HORDE
                  ELSE IF s1.m_TeamScores[ALLIANCE] = BG_WS_MAX_TEAM_SCORE THEN ALLIANCE
                  ELSE PVP_TEAM_NEUTRAL
    IN IF winner \in Teams THEN EndBattleground(s1, winner)
       ELSE [s1 EXCEPT !._flagsTimer[f] = BG_WS_FLAG_RESPAWN_TIME]

\* BattlegroundWS::EventBotCapturedFlag: the same steps for a bot carrier.
EventBotCapturedFlag(s, b) == EventPlayerCapturedFlag(s, b)

\* Mutant: the carrier is not asked to stand in the capture room.
HandleFlagRoomCapturePoint_NoRoom(s, team) ==
    LET c == s.m_FlagKeepers[team] IN
    IF c # NoPlayer /\ c \in s.online
    THEN EventPlayerCapturedFlag(s, c)
    ELSE s

\* The carrier of the flag of team `team`, if found on the map (FindBot
\* for a creature guid) and inside the capture area trigger, captures it.
HandleFlagRoomCapturePoint(s, team) ==
    LET c == s.m_FlagKeepers[team] IN
    IF c # NoPlayer /\ c \in s.online /\ c \in s.inRoom
    THEN IF c \in Bots THEN EventBotCapturedFlag(s, c) ELSE EventPlayerCapturedFlag(s, c)
    ELSE s

\* Mutant: the flag state goes back to base but the dropped flag does not
\* come home (the respawn is left out).
RespawnFlagAfterDrop_NoRespawn(s, team) ==
    IF s.m_Status # STATUS_IN_PROGRESS THEN s
    ELSE [s EXCEPT !._bothFlagsKept = FALSE]

\* Respawns the flag on its base, deletes the dropped object and checks the
\* opposing flag's carrier in the capture room.
RespawnFlagAfterDrop(s, team) ==
    IF s.m_Status # STATUS_IN_PROGRESS THEN s
    ELSE LET s1 == [RespawnFlag(s, team, FALSE) EXCEPT !.flagSpawned[team] = TRUE,
                                                      !._bothFlagsKept = FALSE]
         IN HandleFlagRoomCapturePoint(s1, OtherTeam(team))

\* Outside STATUS_IN_PROGRESS only the keeper is cleared (no dropped flag is
\* spawned and the flag state is left as it is).
EventPlayerDroppedFlag(s, pl) ==
    LET f == OtherTeam(TeamOf(pl)) IN
    IF s.m_FlagKeepers[f] # pl THEN s
    ELSE IF s.m_Status # STATUS_IN_PROGRESS
         THEN [s EXCEPT !.m_FlagKeepers[f] = NoPlayer]
         ELSE [s EXCEPT !.m_FlagKeepers[f] = NoPlayer,
                        !._flagState[f] = BG_WS_FLAG_STATE_ON_GROUND,
                        !._flagsDropTimer[f] = BG_WS_FLAG_DROP_TIME]

\* Mutant: the pickup from the base tests the flag just taken instead of
\* the other one when it sets _bothFlagsKept.
PickUpFlag_WrongIndex(s, pl, f, fromBase) ==
    LET s1 == [s EXCEPT !.flagSpawned[f] = FALSE,
                        !.m_FlagKeepers[f] = pl,
                        !._flagState[f] = BG_WS_FLAG_STATE_ON_PLAYER]
    IN [s1 EXCEPT !._bothFlagsKept =
           IF fromBase /\ s1._flagState[f] = BG_WS_FLAG_STATE_ON_PLAYER THEN TRUE ELSE @]

\* Taking flag f: from its base (the object is despawned for a day) or from
\* the ground. Only a pickup from the base sets _bothFlagsKept.
PickUpFlag(s, pl, f, fromBase) ==
    [s EXCEPT !.flagSpawned[f] = FALSE,
              !.m_FlagKeepers[f] = pl,
              !._flagState[f] = BG_WS_FLAG_STATE_ON_PLAYER,
              !._bothFlagsKept =
                  IF fromBase /\ s._flagState[OtherTeam(f)] = BG_WS_FLAG_STATE_ON_PLAYER
                  THEN TRUE ELSE @]

\* BattlegroundWS::EventPlayerClickedOnFlag for a click on flag object
\* (f, kind). The four ifs of the code test disjoint objects, so at most
\* one of them applies: an enemy base flag is taken; a flag on the ground is
\* returned by its own team (which may complete the other flag's capture)
\* or taken by the other team.
EventPlayerClickedOnFlag(s, pl, f, kind) ==
    IF s.m_Status # STATUS_IN_PROGRESS THEN s
    ELSE IF kind = BASE
    THEN IF TeamOf(pl) # f /\ s._flagState[f] = BG_WS_FLAG_STATE_ON_BASE
         THEN PickUpFlag(s, pl, f, TRUE) ELSE s
    ELSE IF s._flagState[f] # BG_WS_FLAG_STATE_ON_GROUND THEN s
    ELSE IF TeamOf(pl) = f
    THEN HandleFlagRoomCapturePoint(
             [RespawnFlag(s, f, FALSE) EXCEPT !.flagSpawned[f] = TRUE,
                                              !._bothFlagsKept = FALSE],
             OtherTeam(f))
    ELSE PickUpFlag(s, pl, f, FALSE)

(***************************************************************************)
(* The tick: BattlegroundWS::PostUpdateImpl.                               *)
(***************************************************************************)

\* Mutant: an expired timer is not put back to 0.
FlagTimers_NoReset(s, team, diff) ==
    LET t == s._flagsTimer[team] - diff
        s1 == IF s._flagState[team] # BG_WS_FLAG_STATE_WAIT_RESPAWN THEN s
              ELSE IF t < 0 THEN RespawnFlag([s EXCEPT !._flagsTimer[team] = t], team, TRUE)
              ELSE [s EXCEPT !._flagsTimer[team] = t]
        d == s1._flagsDropTimer[team] - diff
    IN IF s1._flagState[team] # BG_WS_FLAG_STATE_ON_GROUND THEN s1
       ELSE IF d < 0
            THEN [RespawnFlagAfterDrop([s1 EXCEPT !._flagsDropTimer[team] = d], team)
                    EXCEPT !._bothFlagsKept = FALSE]
            ELSE [s1 EXCEPT !._flagsDropTimer[team] = d]

\* Mutant: the drop branch copied from the respawn branch tests WAIT_RESPAWN,
\* so the drop timer of a flag on the ground never runs.
FlagTimers_DropAsRespawn(s, team, diff) ==
    LET t == s._flagsTimer[team] - diff
        s1 == IF s._flagState[team] # BG_WS_FLAG_STATE_WAIT_RESPAWN THEN s
              ELSE IF t < 0 THEN RespawnFlag([s EXCEPT !._flagsTimer[team] = 0], team, TRUE)
              ELSE [s EXCEPT !._flagsTimer[team] = t]
        d == s1._flagsDropTimer[team] - diff
    IN IF s1._flagState[team] # BG_WS_FLAG_STATE_WAIT_RESPAWN THEN s1
       ELSE IF d < 0
            THEN [RespawnFlagAfterDrop([s1 EXCEPT !._flagsDropTimer[team] = 0], team)
                    EXCEPT !._bothFlagsKept = FALSE]
            ELSE [s1 EXCEPT !._flagsDropTimer[team] = d]

\* The two timers of one flag, in the order of the code: the respawn timer
\* after a capture, then the timer of a flag lying on the ground. The int32
\* timers are compared with `< 0`.
FlagTimers(s, team, diff) ==
    LET t == s._flagsTimer[team] - diff
        s1 == IF s._flagState[team] # BG_WS_FLAG_STATE_WAIT_RESPAWN THEN s
              ELSE IF t < 0 THEN RespawnFlag([s EXCEPT !._flagsTimer[team] = 0], team, TRUE)
              ELSE [s EXCEPT !._flagsTimer[team] = t]
        d == s1._flagsDropTimer[team] - diff
    IN IF s1._flagState[team] # BG_WS_FLAG_STATE_ON_GROUND THEN s1
       ELSE IF d < 0
            THEN [RespawnFlagAfterDrop([s1 EXCEPT !._flagsDropTimer[team] = 0], team)
                    EXCEPT !._bothFlagsKept = FALSE]
            ELSE [s1 EXCEPT !._flagsDropTimer[team] = d]

AtHome(s, team) ==
    s._flagState[team] \in {BG_WS_FLAG_STATE_ON_BASE, BG_WS_FLAG_STATE_WAIT_RESPAWN}

\* The assault debuffs: while both flags are kept the timer grows and the
\* debuff stage rises at 10 and 15 minutes; once both flags are at home the
\* timer and the stage are reset. The timer is only compared against the
\* two thresholds, so it is kept saturated at the second one.
AssaultDebuff(s, diff) ==
    IF s._bothFlagsKept
    THEN LET ft == IF s._flagSpellForceTimer + diff >= WS_BRUTAL_ASSAULT_TIME
                   THEN WS_BRUTAL_ASSAULT_TIME ELSE s._flagSpellForceTimer + diff
             st == IF s._flagDebuffState = 0 /\ ft >= WS_FOCUSED_ASSAULT_TIME THEN 1
                   ELSE IF s._flagDebuffState = 1 /\ ft >= WS_BRUTAL_ASSAULT_TIME THEN 2
                   ELSE s._flagDebuffState
         IN [s EXCEPT !._flagSpellForceTimer = ft, !._flagDebuffState = st]
    ELSE IF AtHome(s, ALLIANCE) /\ AtHome(s, HORDE)
    THEN [s EXCEPT !._flagSpellForceTimer = 0, !._flagDebuffState = 0]
    ELSE s

\* The status is tested once, at the top: after the time limit ends the
\* match, the flag timers and the debuff still run in the same call.
\* _minutesElapsed only feeds the timer world state and is left out.
PostUpdateImpl(s, diff) ==
    IF s.m_Status # STATUS_IN_PROGRESS THEN s
    ELSE LET s1 == IF s.m_StartTime >= BG_WS_TIME_LIMIT
                   THEN EndBattleground(s, TimeLimitWinner(s)) ELSE s
         IN AssaultDebuff(FlagTimers(FlagTimers(s1, ALLIANCE, diff), HORDE, diff), diff)

(***************************************************************************)
(* Joining and leaving.                                                    *)
(***************************************************************************)

\* Mutant: the carrier leaves without giving up the flag.
RemovePlayer_KeepFlag(s, guid, found) == s

\* BattlegroundWS::RemovePlayer: the alliance flag, then the horde flag; a
\* carrier that is not found gives the flag back to its base without
\* spawning the base object.
RemovePlayer(s, guid, found) ==
    LET give(acc, f) ==
          IF acc.m_FlagKeepers[f] # guid THEN acc
          ELSE IF found THEN EventPlayerDroppedFlag(acc, guid)
          ELSE RespawnFlag([acc EXCEPT !.m_FlagKeepers[f] = NoPlayer], f, FALSE)
    IN give(give(s, ALLIANCE), HORDE)

\* Mutant: the subclass hook of a leaving bot does nothing.
RemoveBot_KeepFlag(s, guid, found) == s

\* BattlegroundWS::RemoveBot: the same steps as RemovePlayer, with
\* BotDataMgr::FindBot in place of the Player pointer; a carrier that is not
\* found gives the flag back to its base without spawning the base object.
RemoveBot(s, guid, found) == RemovePlayer(s, guid, found)

\* Battleground::RemoveBotAtLeave: the entry of m_Bots and the counter, the
\* subclass hook; the bot is not teleported by the battleground.
RemoveBotAtLeave(s, guid) ==
    LET s1 == IF guid \in s.m_Bots
              THEN [UpdatePlayersCountByTeam(s, TeamOf(guid), TRUE) EXCEPT !.m_Bots = @ \ {guid}]
              ELSE s
    IN RemoveBot(s1, guid, guid \in s1.online)

\* The loop of _ProcessLeave over m_Players.
RECURSIVE RemoveEveryBot(_, _)
RemoveEveryBot(s, guids) ==
    IF guids = {} THEN s
    ELSE LET g == CHOOSE x \in guids : TRUE
         IN RemoveEveryBot(RemoveBotAtLeave(s, g), guids \ {g})

\* Battleground::RemovePlayerAtLeave with Transport: the participant entry
\* is erased, the subclass hook runs, and a found player is teleported out.
\* A participant's removal lowers its team's counter.
RemovePlayerAtLeave(s, guid) ==
    LET s1 == IF guid \in s.m_Players
              THEN [UpdatePlayersCountByTeam(s, TeamOf(guid), TRUE) EXCEPT !.m_Players = @ \ {guid}]
              ELSE s
        s2 == IF guid \in s1.online
              THEN RemoveEveryBot(s1, {b \in Bots : BotOwner[b] = guid})
              ELSE s1
        s3 == RemovePlayer(s2, guid, guid \in s2.online)
    IN [s3 EXCEPT !.inRoom = @ \ {guid}]

\* Mutant: the bot is added without raising the counter.
AddBot_NoCount(s, b) == [s EXCEPT !.m_Bots = @ \cup {b}]

\* Battleground::AddBot: m_Bots[guid] is (over)written and the counter is
\* raised, whether or not the bot was already a participant.
AddBot(s, b) == [UpdatePlayersCountByTeam(s, TeamOf(b), FALSE) EXCEPT !.m_Bots = @ \cup {b}]

\* Mutant: the counter is raised for a player already in the battleground.
AddPlayer_AlwaysCount(s, pl, bots) ==
    FoldSet(LAMBDA b, acc : AddBot(acc, b),
            [UpdatePlayersCountByTeam(s, TeamOf(pl), FALSE) EXCEPT !.m_Players = @ \cup {pl}],
            bots)

\* Battleground::AddPlayer: the counter is raised only for a player not yet
\* in the battleground (isInBattleground); then every npcbot of the
\* player's group is added with AddBot. BattlegroundWS::AddPlayer and
\* ::AddBot only create score records.
AddPlayer(s, pl, bots) ==
    LET s1 == IF pl \in s.m_Players THEN s
              ELSE [UpdatePlayersCountByTeam(s, TeamOf(pl), FALSE) EXCEPT !.m_Players = @ \cup {pl}]
    IN FoldSet(LAMBDA b, acc : AddBot(acc, b), s1, bots)

\* The EventBot* twins of the flag handlers: line for line the player
\* handlers on the bot's guid and GetBotTeam (only achievement timers and
\* the deletion of the clicked ground object differ).
EventBotDroppedFlag(s, b) == EventPlayerDroppedFlag(s, b)

EventBotClickedOnFlag(s, b, f, kind) == EventPlayerClickedOnFlag(s, b, f, kind)

\* Mutant: a match left to bots is given to the bots' team.
EndNow_BotTeamWins(s) ==
    [s EXCEPT !.m_Status = STATUS_WAIT_LEAVE,
              !.m_Winner = TeamOf(CHOOSE b \in s.m_Bots : TRUE)]

\* Battleground::EndNow: STATUS_WAIT_LEAVE at once, with no winner and no
\* reward (the free-slot queue and the end timer are left out).
EndNow(s) == [s EXCEPT !.m_Status = STATUS_WAIT_LEAVE]

(***************************************************************************)
(* Battleground::Update.                                                   *)
(***************************************************************************)

ProcessOfflineQueue(s, expired) ==
    IF s.m_OfflineQueue = << >> THEN s
    ELSE LET g == Head(s.m_OfflineQueue) IN
         IF g \notin s.m_Players \/ ~(expired \/ g \in s.online) THEN s
         ELSE [RemovePlayerAtLeave(s, g) EXCEPT !.m_OfflineQueue = Tail(@)]

ProcessProgress(s, diff) ==
    IF ~s.m_PrematureCountDown
    THEN [s EXCEPT !.m_PrematureCountDown = TRUE,
                   !.m_PrematureCountDownTimer = PrematureFinishTime]
    ELSE IF s.m_PrematureCountDownTimer < diff
    THEN [EndBattleground(s, GetPrematureWinner(s)) EXCEPT !.m_PrematureCountDown = FALSE]
    ELSE [s EXCEPT !.m_PrematureCountDownTimer = @ - diff]

\* Battleground::_ProcessJoin. Each call sets at most one of the four start
\* events, in order (the else-if chain, with the delays decreasing); the
\* fourth opens the doors, which spawns both base flags, and starts the
\* match.
\* BattlegroundWS::StartingEventCloseDoors: the doors close and both base
\* flags are despawned until the start.
StartingEventCloseDoors(s) == [s EXCEPT !.flagSpawned = [t \in Teams |-> FALSE]]

\* BattlegroundWS::StartingEventOpenDoors: the doors open and both base
\* flags (with the buffs) are spawned.
StartingEventOpenDoors(s) == [s EXCEPT !.flagSpawned = [t \in Teams |-> TRUE]]

ProcessJoin(s, diff) ==
    LET d == s.m_StartDelayTime - diff IN
    CASE s.m_Events = 0 ->
           [StartingEventCloseDoors(s) EXCEPT !.m_Events = 1,
                                              !.m_StartDelayTime = StartDelayTimes[1]]
      [] s.m_Events = 1 /\ d <= StartDelayTimes[2] ->
           [s EXCEPT !.m_Events = 2, !.m_StartDelayTime = d]
      [] s.m_Events = 2 /\ d <= StartDelayTimes[3] ->
           [s EXCEPT !.m_Events = 3, !.m_StartDelayTime = d]
      [] s.m_Events = 3 /\ d <= 0 ->
           [StartingEventOpenDoors(s) EXCEPT !.m_Events = 4, !.m_StartDelayTime = 0,
                                             !.m_Status = STATUS_IN_PROGRESS]
      [] OTHER -> [s EXCEPT !.m_StartDelayTime = d]

\* Mutant: m_StartTime is not advanced.
AddStartTime_Stuck(s, diff) == s

\* m_StartTime += diff; it is only compared with the time limit, so it is
\* kept saturated there.
AddStartTime(s, diff) ==
    [s EXCEPT !.m_StartTime = IF @ + diff >= BG_WS_TIME_LIMIT THEN BG_WS_TIME_LIMIT
                              ELSE @ + diff]

\* The body of Battleground::Update for a non-empty battleground, by status,
\* then m_StartTime and PostUpdateImpl.
UpdateBody(s, diff, expired) ==
    LET s1 ==
          CASE s.m_Status = STATUS_WAIT_JOIN -> ProcessJoin(s, diff)
            [] s.m_Status = STATUS_IN_PROGRESS ->
                 LET q == ProcessOfflineQueue(s, expired)
                     short == \E t \in Teams : PlayersCountByTeam(q, t) < MinPlayersPerTeam
                 IN IF PrematureFinishTime # 0 /\ short THEN ProcessProgress(q, diff)
                    ELSE [q EXCEPT !.m_PrematureCountDown = FALSE]
            [] OTHER -> s
    IN PostUpdateImpl(AddStartTime(s1, diff), diff)

RECURSIVE RemoveEveryPlayer(_, _)
RemoveEveryPlayer(s, guids) ==
    IF guids = {} THEN s
    ELSE LET g == CHOOSE x \in guids : TRUE
         IN RemoveEveryPlayer(RemovePlayerAtLeave(s, g), guids \ {g})

\* BattlegroundWS::HandleAreaTrigger for trigger 3646 (alliance) or 3647
\* (horde), the capture point in a team's own flag room: the enemy flag is
\* not on its base, the own flag is, and the player carries the enemy flag.
HandleAreaTrigger(s, pl) ==
    LET f == OtherTeam(TeamOf(pl)) IN
    IF s.m_Status = STATUS_IN_PROGRESS
       /\ s._flagState[f] # BG_WS_FLAG_STATE_ON_BASE
       /\ s._flagState[TeamOf(pl)] = BG_WS_FLAG_STATE_ON_BASE
       /\ s.m_FlagKeepers[f] = pl
    THEN EventPlayerCapturedFlag(s, pl) ELSE s

\* Mutant: the bot trigger does not test that the own flag is home.
HandleBotAreaTrigger_NoHomeCheck(s, b) ==
    LET f == OtherTeam(TeamOf(b)) IN
    IF s.m_Status = STATUS_IN_PROGRESS
       /\ s._flagState[f] # BG_WS_FLAG_STATE_ON_BASE
       /\ s.m_FlagKeepers[f] = b
    THEN EventBotCapturedFlag(s, b) ELSE s

\* BattlegroundWS::HandleBotAreaTrigger for 3646 / 3647: the same tests
\* (_flagState[enemy] nonzero, _flagState[own] zero, the bot carries).
HandleBotAreaTrigger(s, b) ==
    LET f == OtherTeam(TeamOf(b)) IN
    IF s.m_Status = STATUS_IN_PROGRESS
       /\ s._flagState[f] # BG_WS_FLAG_STATE_ON_BASE
       /\ s._flagState[TeamOf(b)] = BG_WS_FLAG_STATE_ON_BASE
       /\ s.m_FlagKeepers[f] = b
    THEN EventBotCapturedFlag(s, b) ELSE s

(***************************************************************************)
(* The initial state: BattlegroundWS::Reset, then STATUS_WAIT_JOIN.        *)
(***************************************************************************)

Init ==
    /\ m_Status = STATUS_WAIT_JOIN
    /\ m_Winner = PVP_TEAM_NEUTRAL
    /\ m_Players = {}
    /\ m_Bots = {}
    /\ m_PlayersCount = [t \in Teams |-> 0]
    /\ online = Units
    /\ m_OfflineQueue = << >>
    /\ rewardedWinners = {}
    /\ m_PrematureCountDown = FALSE
    /\ m_PrematureCountDownTimer = 0
    /\ m_SetDeleteThis = FALSE
    /\ m_Events = 0
    /\ m_StartDelayTime = 0
    /\ m_StartTime = 0
    /\ m_TeamScores = [t \in Teams |-> 0]
    /\ m_FlagKeepers = [t \in Teams |-> NoPlayer]
    /\ _flagState = [t \in Teams |-> BG_WS_FLAG_STATE_ON_BASE]
    /\ _flagsTimer = [t \in Teams |-> 0]
    /\ _flagsDropTimer = [t \in Teams |-> 0]
    /\ _bothFlagsKept = FALSE
    /\ _flagDebuffState = 0
    /\ _flagSpellForceTimer = 0
    /\ _lastFlagCaptureTeam = PVP_TEAM_NEUTRAL
    /\ flagSpawned = [t \in Teams |-> FALSE]
    /\ inRoom = {}

(***************************************************************************)
(* Actions.                                                                *)
(***************************************************************************)

Participants == m_Players \cup m_Bots

\* An empty battleground (no player, no bot) is marked for deletion.
UpdateEmpty ==
    /\ ~m_SetDeleteThis
    /\ Participants = {}
    /\ Commit([State EXCEPT !.m_SetDeleteThis = TRUE])

\* Only bots are left: the match ends at once (Battleground::Update).
UpdateOnlyBots ==
    /\ ~m_SetDeleteThis
    /\ m_Players = {} /\ m_Bots # {}
    /\ m_Status # STATUS_WAIT_LEAVE
    /\ Commit(EndNow(State))

UpdateJoin ==
    /\ m_Status = STATUS_WAIT_JOIN
    /\ m_Players # {}
    /\ \E diff \in Diffs : Commit(UpdateBody(State, diff, FALSE))

UpdateRunning ==
    /\ m_Status = STATUS_IN_PROGRESS
    /\ m_Players # {}
    /\ \E diff \in Diffs, expired \in BOOLEAN :
         LET r == UpdateBody(State, diff, expired) IN Commit(r)

\* _ProcessLeave once m_EndTime has run out: every bot, then every player
\* is removed.
UpdateLeave ==
    /\ m_Status = STATUS_WAIT_LEAVE
    /\ Participants # {}
    /\ LET r == RemoveEveryPlayer(RemoveEveryBot(State, m_Bots), m_Players) IN Commit(r)

\* Battleground::AddPlayer for an invited player, or again for a participant
\* (isInBattleground), with those of its npcbots that exist and are in its
\* group.
EnterBattleground(pl) ==
    /\ ~m_SetDeleteThis
    /\ pl \in online
    /\ pl \notin m_Players => m_Status # STATUS_WAIT_LEAVE
    /\ \E bots \in SUBSET {b \in Bots \cap online : BotOwner[b] = pl} :
         /\ \A t \in Teams : AddPlayer(State, pl, bots).m_PlayersCount[t] <= PlayersCountBound
         /\ Commit(AddPlayer(State, pl, bots))

LeaveBattleground(pl) ==
    /\ pl \in m_Players /\ pl \in online
    /\ Commit(RemovePlayerAtLeave(State, pl))

\* A bot leaves (its owner leaves, it is dismissed or despawned): found or
\* not by BotDataMgr::FindBot.
LeaveBattlegroundBot(b) ==
    /\ b \in m_Bots
    /\ Commit(RemoveBotAtLeave(State, b))

EventPlayerLoggedOut(pl) ==
    /\ pl \in m_Players /\ pl \in online
    /\ LET s1 == [State EXCEPT !.m_OfflineQueue = Append(@, pl)]
           s2 == IF m_Status = STATUS_IN_PROGRESS THEN RemovePlayer(s1, pl, TRUE) ELSE s1
       IN Commit([s2 EXCEPT !.online = @ \ {pl}, !.inRoom = @ \ {pl}])

EventPlayerLoggedIn(pl) ==
    /\ pl \in m_Players /\ pl \notin online
    /\ Commit([State EXCEPT !.m_OfflineQueue = RemoveFirst(@, pl),
                            !.online = @ \cup {pl}])

LogInElsewhere(pl) ==
    /\ ~m_SetDeleteThis
    /\ pl \notin m_Players /\ pl \notin online
    /\ Commit([State EXCEPT !.online = @ \cup {pl}])

\* The environment: a bot stops or starts being found by FindBot; no
\* handler of the battleground is told.
BotVanishes(b) ==
    /\ b \in online
    /\ Commit([State EXCEPT !.online = @ \ {b}, !.inRoom = @ \ {b}])

BotAppears(b) ==
    /\ b \notin online
    /\ Commit([State EXCEPT !.online = @ \cup {b}])

\* BattlegroundWS::HandleKillPlayer and HandleBotKillPlayer.
HandleKillPlayer(pl) ==
    /\ pl \in m_Players /\ pl \in online
    /\ Commit(IF m_Status # STATUS_IN_PROGRESS THEN State
              ELSE EventPlayerDroppedFlag(State, pl))

\* BattlegroundWS::HandleBotKillBot and HandlePlayerKillBot.
HandleKillBot(b) ==
    /\ b \in m_Bots /\ b \in online
    /\ Commit(IF m_Status # STATUS_IN_PROGRESS THEN State
              ELSE EventBotDroppedFlag(State, b))

\* A click on a flag object that exists: a spawned base flag, or the
\* dropped flag lying on the ground.
ClickOnFlag(pl, f, kind) ==
    /\ pl \in Participants /\ pl \in online
    /\ IF kind = BASE THEN flagSpawned[f] ELSE _flagState[f] = BG_WS_FLAG_STATE_ON_GROUND
    /\ Commit(IF pl \in Bots THEN EventBotClickedOnFlag(State, pl, f, kind)
              ELSE EventPlayerClickedOnFlag(State, pl, f, kind))

\* A participant walks into the capture area trigger of its own flag room,
\* which fires HandleAreaTrigger (HandleBotAreaTrigger for a bot).
EnterCaptureRoom(pl) ==
    /\ pl \in Participants /\ pl \in online /\ pl \notin inRoom
    /\ LET s1 == [State EXCEPT !.inRoom = @ \cup {pl}]
       IN Commit(IF pl \in Bots THEN HandleBotAreaTrigger(s1, pl) ELSE HandleAreaTrigger(s1, pl))

LeaveCaptureRoom(pl) ==
    /\ pl \in inRoom
    /\ Commit([State EXCEPT !.inRoom = @ \ {pl}])

Deleted ==
    /\ m_SetDeleteThis
    /\ UNCHANGED vars

Next ==
    \/ UpdateEmpty
    \/ UpdateOnlyBots
    \/ UpdateJoin
    \/ UpdateRunning
    \/ UpdateLeave
    \/ \E pl \in Players : EnterBattleground(pl)
    \/ \E pl \in Players : LeaveBattleground(pl)
    \/ \E b \in Bots : LeaveBattlegroundBot(b)
    \/ \E pl \in Players : EventPlayerLoggedOut(pl)
    \/ \E pl \in Players : EventPlayerLoggedIn(pl)
    \/ \E pl \in Players : LogInElsewhere(pl)
    \/ \E b \in Bots : BotVanishes(b) \/ BotAppears(b)
    \/ \E pl \in Players : HandleKillPlayer(pl)
    \/ \E b \in Bots : HandleKillBot(b)
    \/ \E pl \in Units, f \in Teams, kind \in {BASE, GROUND} : ClickOnFlag(pl, f, kind)
    \/ \E pl \in Units : EnterCaptureRoom(pl)
    \/ \E pl \in Units : LeaveCaptureRoom(pl)
    \/ Deleted

Spec == Init /\ [][Next]_vars

\* One call of Battleground::Update, whatever the status.
Update == UpdateEmpty \/ UpdateOnlyBots \/ UpdateJoin \/ UpdateRunning \/ UpdateLeave

\* Battleground::Update runs on every world tick until the instance is
\* deleted. Every Update changes the state (the start countdown, m_StartTime
\* growing until the time limit ends the match, the removal of the players,
\* m_SetDeleteThis), so UpdateGuard is ENABLED <<Update>>_vars.
UpdateGuard == ~m_SetDeleteThis

Fairness == <>[]UpdateGuard => []<><<Update>>_vars

FairSpec == Spec /\ Fairness

(***************************************************************************)
(* Refinement: the match, seen through its status, winner and scores,     *)
(* behaves as MatchOutcome says. An instance marked for deletion is over. *)
(***************************************************************************)

OutcomePhase ==
    IF m_SetDeleteThis \/ m_Status = STATUS_WAIT_LEAVE THEN "over"
    ELSE IF m_Status = STATUS_IN_PROGRESS THEN "running"
    ELSE "waiting"

Outcome == INSTANCE MatchOutcome
             WITH Teams <- Teams, NoWinner <- PVP_TEAM_NEUTRAL,
                  MaxScore <- BG_WS_MAX_TEAM_SCORE,
                  phase <- OutcomePhase, winner <- m_Winner, score <- m_TeamScores

(***************************************************************************)
(* Properties.                                                             *)
(***************************************************************************)

TypeOK ==
    /\ m_Status \in {STATUS_WAIT_JOIN, STATUS_IN_PROGRESS, STATUS_WAIT_LEAVE}
    /\ m_Winner \in Teams \cup {PVP_TEAM_NEUTRAL}
    /\ m_Players \subseteq Players
    /\ m_Bots \subseteq Bots
    /\ m_PlayersCount \in [Teams -> 0..PlayersCountBound]
    /\ online \subseteq Units
    /\ m_OfflineQueue \in Seq(Players)
    /\ rewardedWinners \subseteq Teams
    /\ m_PrematureCountDown \in BOOLEAN
    /\ m_PrematureCountDownTimer \in 0..PrematureFinishTime
    /\ m_SetDeleteThis \in BOOLEAN
    /\ m_Events \in 0..4
    /\ m_StartDelayTime \in Int
    /\ m_StartTime \in 0..BG_WS_TIME_LIMIT
    /\ m_TeamScores \in [Teams -> 0..BG_WS_MAX_TEAM_SCORE]
    /\ m_FlagKeepers \in [Teams -> Units \cup {NoPlayer}]
    /\ _flagState \in [Teams -> {BG_WS_FLAG_STATE_ON_BASE, BG_WS_FLAG_STATE_WAIT_RESPAWN,
                                 BG_WS_FLAG_STATE_ON_PLAYER, BG_WS_FLAG_STATE_ON_GROUND}]
    /\ _flagsTimer \in [Teams -> 0..BG_WS_FLAG_RESPAWN_TIME]
    /\ _flagsDropTimer \in [Teams -> 0..BG_WS_FLAG_DROP_TIME]
    /\ _bothFlagsKept \in BOOLEAN
    /\ _flagDebuffState \in 0..2
    /\ _flagSpellForceTimer \in 0..WS_BRUTAL_ASSAULT_TIME
    /\ _lastFlagCaptureTeam \in Teams \cup {PVP_TEAM_NEUTRAL}
    /\ flagSpawned \in [Teams -> BOOLEAN]
    /\ inRoom \subseteq Units

\* While the match runs, each flag is ON_PLAYER exactly when it has a
\* keeper, and the keeper is a participant of the other team, online if it
\* is a player: leaving, logging out and dying (RemovePlayer, RemoveBot,
\* EventPlayerDroppedFlag, EventBotDroppedFlag) and capturing all give the
\* flag up. (A bot that FindBot no longer finds keeps its flag until it
\* leaves: nothing in the battleground hears of it.)
FlagCarrierConsistent ==
    m_Status = STATUS_IN_PROGRESS =>
      \A f \in Teams :
        /\ (_flagState[f] = BG_WS_FLAG_STATE_ON_PLAYER) <=> (m_FlagKeepers[f] # NoPlayer)
        /\ m_FlagKeepers[f] # NoPlayer =>
             /\ m_FlagKeepers[f] \in (m_Players \cap online) \cup m_Bots
             /\ TeamOf(m_FlagKeepers[f]) # f

\* m_PlayersCount, which the premature finish and its winner read, counts
\* each team's participants, players and bots, once: AddPlayer skips a
\* player already in the battleground, and every leave lowers it once.
PlayersCountAccounting ==
    \A t \in Teams : m_PlayersCount[t] = Cardinality({u \in Participants : TeamOf(u) = t})

\* _bothFlagsKept, which drives the assault debuffs, is only set while both
\* flags are away from their bases: every way a flag gets home
\* (RespawnFlag after a capture, a return by click, the drop timer) clears
\* it, and only a pickup from the base while the other flag is carried sets it.
BothFlagsKeptSound ==
    _bothFlagsKept =>
      \A f \in Teams : _flagState[f] \in {BG_WS_FLAG_STATE_ON_PLAYER, BG_WS_FLAG_STATE_ON_GROUND}

\* A flag whose state is ON_BASE can be taken: its base object is spawned,
\* or it is hidden only for the respawn delay that follows a capture of the
\* other flag, whose RespawnFlag(team, true) spawns both objects again.
BaseFlagTakeable ==
    m_Status = STATUS_IN_PROGRESS =>
      \A f \in Teams :
        _flagState[f] = BG_WS_FLAG_STATE_ON_BASE =>
          \/ flagSpawned[f]
          \/ _flagState[OtherTeam(f)] = BG_WS_FLAG_STATE_WAIT_RESPAWN

\* A team scores only by bringing the enemy flag into its own capture
\* room while its own flag is at home: the area trigger checks both, and
\* the captures chained from a return (EventPlayerClickedOnFlag) or from
\* the drop timer (RespawnFlagAfterDrop, HandleFlagRoomCapturePoint) must
\* find the carrier in the room, right after the own flag is put back.
ScoreNeedsOwnFlagHome ==
    [][\A t \in Teams :
         m_TeamScores'[t] > m_TeamScores[t] =>
           /\ _flagState'[t] = BG_WS_FLAG_STATE_ON_BASE
           /\ m_FlagKeepers[OtherTeam(t)] \in inRoom']_vars

\* Warsong Gulch implements MatchOutcome: one end per match, points one at a
\* time and only while the match runs, the limit wins, a decided match goes
\* to a team that is not behind (the tie-breaks of the time limit and of
\* the premature finish), nothing changes once it is over (PostUpdateImpl
\* runs the flag timers after a time-limit end in the same call).
OutcomeRefined == Outcome!Spec

\* Update on every tick ends every match: the time limit, the premature
\* finish or the departure of every player.
MatchEnds == Outcome!Ends

\* Whichever way the match ends (score limit in EventPlayerCapturedFlag,
\* time limit in PostUpdateImpl, premature finish in _ProcessProgress), the
\* winner has at least the loser's score, and a match without winner ends
\* on equal scores.
WinnerLeadsScore ==
    m_Status = STATUS_WAIT_LEAVE =>
      IF m_Winner \in Teams
      THEN m_TeamScores[m_Winner] >= m_TeamScores[OtherTeam(m_Winner)]
      ELSE m_TeamScores[ALLIANCE] = m_TeamScores[HORDE]

\* The game time a flag away from its base needs to come back: its timer is
\* lowered by diff on every Update and fires once it is below zero, so at
\* most the longer of the two timers plus one diff.
FlagReturnTime ==
    LET longer == IF BG_WS_FLAG_RESPAWN_TIME >= BG_WS_FLAG_DROP_TIME
                  THEN BG_WS_FLAG_RESPAWN_TIME ELSE BG_WS_FLAG_DROP_TIME
    IN longer + (CHOOSE d \in Diffs : \A e \in Diffs : e <= d)

\* A dropped flag and a captured flag come back before the match is over:
\* the drop timer and the respawn timer of PostUpdateImpl return the flag
\* to its base, unless it is picked up again or the match stops running
\* (a premature finish, a score win, a bots-only EndNow, an emptied and
\* deleted instance) before the time limit. A flag that leaves its base
\* more than FlagReturnTime before the time limit has time for its timer to
\* run out, so reaching the limit with that flag still away is a failure.
FlagReturns ==
    \A f \in Teams :
      (/\ m_Status = STATUS_IN_PROGRESS
       /\ _flagState[f] \in {BG_WS_FLAG_STATE_WAIT_RESPAWN, BG_WS_FLAG_STATE_ON_GROUND}
       /\ m_StartTime + FlagReturnTime < BG_WS_TIME_LIMIT)
      ~> (\/ _flagState[f] \in {BG_WS_FLAG_STATE_ON_BASE, BG_WS_FLAG_STATE_ON_PLAYER}
          \/ /\ (m_Status # STATUS_IN_PROGRESS \/ m_SetDeleteThis)
             /\ m_StartTime < BG_WS_TIME_LIMIT)

====
