# Model checking the battleground code of ElunaTrinityWotlk

This directory holds TLA+ models of the battleground state machines in
`src/src/server/game/Battlegrounds/`, of the Naj'entus boss script and of the
wrapped-item opcodes of `Handlers/SpellHandler.cpp`, the TLC configurations that check them,
and `PROJECT.json`. `PROJECT.json` lists the components, the runs, the mutants,
the source lines each definition models, the findings and the hazards.

## The system

The repository excerpt has 9 source files. Their parts and how they interact:

| Part | Source | Role |
|---|---|---|
| Match lifecycle | `Battleground.cpp` | `Battleground::Update` is called on every world tick. By status it does one of three things. In WAIT_JOIN it runs `_ProcessJoin` (the start countdown). In IN_PROGRESS it runs `_ProcessOfflineQueue` and the premature-finish countdown `_ProcessProgress`. In WAIT_LEAVE it runs `_ProcessLeave`, which removes everybody. It then calls the subclass hook `PostUpdateImpl`. It also holds the participant map `m_Players`, `AddPlayer`, `RemovePlayerAtLeave`, the logout/login events, `EndBattleground` and the invited-count/free-slot queue. |
| Eye of the Storm | `Zones/BattlegroundEY.cpp`, `.h` | The tick has three steps. First the tower score (`AddPoints`, which may end the match). Then the flag respawn timer. Then the tower scan `CheckSomeoneJoinedPoint` → `CheckSomeoneLeftPoint` → `UpdatePointStatuses`, which moves progress bars and fires `EventTeamCapturedPoint`/`EventTeamLostPoint`. The flag events are pickup, drop, and capture at an owned tower. Each has an npcbot twin. |
| Warsong Gulch | `Zones/BattlegroundWS.cpp` | Two flags, flag carriers, score limit and time limit. Every flag handler has an npcbot twin (`EventBot*`, `HandleBotAreaTrigger`, `RemoveBot`, the bot kill handlers). |
| Battleground manager interface | `BattlegroundMgr.h` | Declarations; it supplies config values (premature finish time, testing mode). |
| Packet handlers | `Handlers/QueryHandler.cpp`, `Handlers/SpellHandler.cpp` | Parse client packets and build replies. The query handlers carry no state. `HandleOpenItemOpcode` opens a wrapped gift in two steps: an asynchronous character-database query, and `HandleOpenWrappedItemCallback`, run later by the session's query processor. |
| Boss script | `scripts/Outland/BlackTemple/boss_warlord_najentus.cpp` | Event-driven boss AI with one "spine target" slot. |
| Mage spells | `scripts/Spells/spell_mage.cpp` | Per-spell aura/effect hooks over the engine's spell system. |

The engine itself (Player, Map, the spell and aura system, sessions) is not in
the repository. The models treat it as the environment. The environment is:
- which handler the engine calls next, and with which player;
- whether `ObjectAccessor::FindPlayer` finds a player;
- where a player stands.

## Modules

### `BattlegroundEY.tla`: Eye of the Storm on top of the Battleground lifecycle

**State.** The variables are the fields of `BattlegroundEY` and `Battleground` that the handlers read and write, under the code's names:
- `m_Status`, `m_Winner`, `m_Players`, `m_OfflineQueue`;
- `m_PrematureCountDown`, `m_PrematureCountDownTimer`, `m_SetDeleteThis`;
- `m_TeamScores`, `m_TeamPointsCount`;
- `m_PointOwnedByTeam`, `m_PointState`, `m_PointBarStatus`, `m_PlayersNearPoint`;
- `m_FlagState`, `m_FlagKeeper`, `m_FlagsTimer`;
- `m_PointAddingTimer`, `m_TowerCapCheckTimer`.

Three more variables are not code fields:
- `online`: whether `FindPlayer` finds the player;
- `pos`: the tower whose radius the player is in, while able to capture;
- `rewardedWinners`: a history variable recording to which teams `EndBattleground` handed the winner rewards.

`m_CurrentPointPlayersCount` is a field of the state record but not a variable. Every scan recomputes it from zero right before its only reader.

**Handler composition.** Handlers that call each other are written as operators from a state record to a state record, in the code's call order:
- `PostUpdateImpl` → `AddPoints` → `UpdateTeamScore` → `EndBattleground`;
- `UpdatePointStatuses` → `EventTeamCapturedPoint` / `EventTeamLostPoint` / `EventPlayerCapturedFlag`;
- `RemovePlayerAtLeave` → `RemovePlayer` → `EventPlayerDroppedFlag` / `RespawnFlag`.

An action is one whole call from the engine: `Commit(Handler(State, inputs))`.

**Actions.** The engine's entry points:
- `UpdateEmpty`, `UpdateStart`, `UpdateRunning` and `UpdateLeave`: `Battleground::Update`, by status. `UpdateStart` is the Update in which `_ProcessJoin` reaches the fourth start event. The same call runs the first `PostUpdateImpl`.
- `EnterBattleground`: `AddPlayer`, as a new player or as a participant entering again.
- `LeaveBattleground`: `RemovePlayerAtLeave`, called as `Player::LeaveBattleground` calls it.
- `EventPlayerLoggedOut` and `EventPlayerLoggedIn`.
- `HandleKillPlayer`, `ClickOnFlag` and `HandleAreaTrigger`.
- `Move` and `LogInElsewhere`: the environment.
- `Deleted`: the object after `m_SetDeleteThis`. Nothing happens to it any more, so this is the one state with only a stutter step.

**Loops and nondeterministic inputs.**
- Each loop over a vector is a fold in the code's order. The erase loop of `RemovePlayer` is the recursion `EraseLoop`. It keeps the code's skip of the element that follows an erased one.
- Inputs the code gets from the world are chosen by `\E`. These are `diff` and whether an offline player's five minutes are up. A third is whether the flag carrier stands within 3 yards of the Fel Reaver capture spot (`atSpot`).

### `MC_BattlegroundEY.tla`

It gives the players as model values, 1 alliance player and 1 or 2 horde players. It also gives the two sequence constants, `BG_EY_TickPoints` and `BG_EY_FlagPoints`.

### `BattlegroundWS.tla`: Warsong Gulch

**State.** It is built like `BattlegroundEY`: a state record of the `BattlegroundWS` and `Battleground` fields, with the handlers as operators from record to record. The fields are:
- the lifecycle fields: `m_Status`, `m_Winner`, `m_Players`, `m_OfflineQueue`, the start countdown `m_Events`/`m_StartDelayTime`, `m_StartTime`, the premature countdown;
- the two flags: `_flagState`, `m_FlagKeepers`, `_flagsTimer`, `_flagsDropTimer`;
- `_bothFlagsKept`, `_flagsAssaultTimer`, `m_TeamScores`, `_lastFlagCaptureTeam`;
- `flagSpawned`: whether the base flag object of each team is spawned.

The environment adds `online` and `inRoom` (the player stands in the capture area trigger of its own flag room).

**npcbots.** `ABots`/`HBots` are the bots of each team and `BotOwner` the player whose BotMap holds each. `m_Bots` and `m_PlayersCount` are the base-class fields. `online` covers bots too: a bot is online while `BotDataMgr::FindBot` finds it (`BotVanishes`/`BotAppears` are the environment).
- `AddPlayer` is `Battleground::AddPlayer`: the counter rises only for a player not yet in the match, then `AddBot` adds each chosen bot of the player's group and raises the counter unconditionally, as the code does.
- `RemovePlayerAtLeave` removes a found player's bots (`RemoveEveryBot` over its BotMap) before the subclass hook. `RemoveBotAtLeave` erases the bot, lowers the counter, and calls `RemoveBot`, which is `RemovePlayer` with FindBot in place of the Player pointer.
- The `EventBot*` handlers are, in state terms, the player handlers on the bot's guid and team; a diff of the two bodies differs only in achievement timers and in deleting the clicked ground object.
- `UpdateOnlyBots` is the npcbot block of `Battleground::Update`: a match with bots and no players ends at once through `EndNow`, with no winner.

**Actions.**
- `Battleground::Update`, by status. `ProcessJoin` runs the four start events; `StartingEventCloseDoors` and `StartingEventOpenDoors` despawn and spawn the base flags.
- The running Update runs `PostUpdateImpl`: the time limit with its tie-break (`TimeLimitWinner`), the flag respawn timer, the drop timer and the assault timer.
- `EventPlayerClickedOnFlag`: pickup from the base, pickup from the ground, or a return of one's own flag. A return may chain into a capture through `HandleFlagRoomCapturePoint`.
- `HandleAreaTrigger` (the capture), `HandleKillPlayer`, `RemovePlayerAtLeave`, and the logout and login events; for bots `HandleBotAreaTrigger`, `HandleKillBot`, `LeaveBattlegroundBot`.

### `MatchOutcome.tla`: what a match promises

An abstract specification with `phase` (waiting, running, over), `winner` and `score`. A running match gains one point at a time; the point that reaches `MaxScore` wins it (`Win`); it can be decided for a team that is not behind, or for nobody on a tie (`Decide`: the time limit and the premature finish); or abandoned with its result unchanged (`Abandon`: `EndNow`, an emptied instance). Once over nothing changes.

`BattlegroundWS` implements it: `Outcome == INSTANCE MatchOutcome WITH ...` maps `phase` to `OutcomePhase` (over once `m_SetDeleteThis` or WAIT_LEAVE, running in IN_PROGRESS, else waiting), `winner` to `m_Winner` and `score` to `m_TeamScores`. `OutcomeRefined` is `Outcome!Spec`, checked as a property, and `MatchEnds` is `Outcome!Ends` under the detailed fairness (stated, not checked: see below).

### `BossNajentus.tla`: Warlord Naj'entus

**State.**
- `bossState`: idle, combat, dead or despawned.
- The `EventMap` as `events`: each event has the ticks left, or -1 when it is not scheduled. A tick is 5 seconds.
- `_spineTargetGUID`.
- Auras and objects: `shielded` (Tidal Shield), `berserk`, `impaled` (the players with Impaling Spine), and `spines` (the spine objects with their summoner and remaining life).
- `spineItems`: the players holding a Naj'entus Spine item.

**Actions.**
- `JustEngagedWith` schedules the events.
- `Tick` is UpdateAI's `events.Update`. It is enabled only when no event is due, because `ExecuteEvent` runs every due event in the same UpdateAI.
- `ExecuteShield`, `ExecuteBerserk` and `ExecuteSpine` are the cases of `ExecuteEvent`. `EVENT_NEEDLE` and `EVENT_YELL` only cast damage or talk, so they are left out.
- `OnGossipHello(p, g)` is a click on the spine object `g`. It calls `RemoveImpalingSpine` through `SetData`, and the clicker gets the item.
- `SpellHit(p)` is a hurled spine breaking the shield.
- `ImpaleExpires`, `JustDied`, `EnterEvadeMode` (which despawns) and `Respawn`.

### `BattlegroundCore.tla`: invitations, slots and resurrection

This module is the generic `Battleground` bookkeeping that the map modules above abstract away.

**State.**
- `m_InvitedCount`, `invitations`, `m_Players`, `m_InBGFreeSlotQueue`.
- The two resurrection queues `m_ReviveQueue` (per spirit guide) and `m_ResurrectQueue`, with `m_LastResurrectTime`.
- `alive`, `m_Status`, `m_SetDeleteThis`.
- `registered`: the instance is known to the manager.

`Init` is the constructor, which calls `Reset`.

**Actions.**
- `Invite` and `InviteExpires`. The queue is outside the repository, so these two are modelled from the spec. An invitation is bounded by `GetFreeSlotsForTeam`, which is a pure operator split as in the code into `InvitedDiff`, `MaxDiff`, `PlayersDiff` and `NoBalanceStart`.
- `StartBattleground`, `AddPlayer`, `RemovePlayersAtLeave` (the count, queue and resurrect-queue parts of `RemovePlayerAtLeave`) and `LeaveBattleground`.
- `HandleKillPlayer` and deaths outside the match.
- `AddPlayerToResurrectQueue` and `RelocateDeadPlayers`.
- `ProcessResurrect(diff)`: `_ProcessResurrect`, the two-phase sweep, which first moves ghosts to `m_ResurrectQueue` and revives them half a second later.
- The Updates by status, `EndBattleground` (`EndNow`, with `RemoveFromBGFreeSlotQueue`), and the destructor `Deleted`.

### `SpellHandler.tla`: opening a wrapped gift

**State.** One player's session and the character database:
- `mem`: the player's items. Each has a position, an entry (a gift shows the wrapper's entry), the wrapped flag and the soulbound flag. A destroyed item has position `NoSlot`.
- `online`: `GetPlayer()` is not null.
- `db`: the items as saved. `gifts`: the `character_gifts` row of each item, which holds the entry the gift contains.
- `queue`: the database tasks not yet run. A task is either the gift query, bound to a position and a guid, or a transaction that saves the inventory and may delete one gift row.
- `results`: the answered queries whose callbacks have not run yet.
- `lootGuid`: the item whose loot was last sent.

Tasks run in order, as the default single asynchronous worker of the character database runs them.

**Actions.**
- `HandleUseItemOpcode(s, g)`: refused unless the item at `s` is `g`; binds a bind-on-use item.
- `HandleOpenItemOpcode(s)`: a container sends its loot; a gift queues the query.
- `DatabaseWorker`: runs the oldest task. A query reads the row as it is at that moment.
- `HandleOpenWrappedItemCallback`: takes the oldest answer. It returns without a player or without an item at the position. `OpenWrappedItem` then has three cases:
  - a different item, or one no longer wrapped, is left alone;
  - a gift with no row is destroyed;
  - otherwise the gift takes the row's entry and flags, and the inventory save and `CHAR_DEL_GIFT` are queued as one transaction.
- The environment, which lives outside the repository:
  - `SwapItem` (moves between two positions);
  - `SaveToDB` (the periodic save);
  - `LogoutPlayer` (saves, then no player);
  - `LoginPlayer` (loads `db` once the earlier tasks have run);
  - `ServerCrash` (loses the queue and the answers).

### MC modules

`MC_BattlegroundEY`, `MC_BattlegroundWS`, `MC_BossNajentus` and `MC_BattlegroundCore` declare the players and the guide as model values. `MC_SpellHandler` declares the items and the wrapper entry. They also define the constant sets and sequences the cfgs refer to, and the symmetry sets:
- `MC_BossNajentus` permutes the two players other than the tank;
- `MC_BattlegroundCore` permutes each team (used by `core_resurrect`);
- `MC_SpellHandler` permutes the inventory positions.

Symmetry is used only by safety runs.

## Runs

| Run | Config | Checks | Result |
|---|---|---|---|
| `ey_towers` | `MC_BattlegroundEY.cfg` | `TypeOK`, `PointOwnershipAccounting`, `OwnershipFollowsBar`, `FlagCarrierConsistent`, `FlagReturns`, `OfflineParticipantRemoved` (liveness) | pass (233,512 states) |
| `ey_one_winner` | `MC_EY_OneWinner.cfg` | `MatchHasOneWinner` | violation (code bug) |
| `ey_bar_step` | `MC_EY_BarStep.cfg` | `BarStepBounded` | violation (code bug) |
| `ey_near_once` | `MC_EY_NearOnce.cfg` | `NearPointTrackedOnce` | violation (divergence from spec.md) |
| `ws_flags` | `MC_WS_Flags.cfg` | `TypeOK`, `FlagCarrierConsistent`, `BothFlagsKeptSound`, `ScoreNeedsOwnFlagHome`, `OutcomeRefined`, `FlagReturns` (liveness) | pass (379,560 states) |
| `ws_bot_count` | `MC_WS_BotCount.cfg` | `PlayersCountAccounting` | violation (code bug) |
| `ws_bot_flag` | `MC_WS_BotFlag.cfg` | `BaseFlagTakeable` | violation (code bug) |
| `najentus_shield` | `MC_Najentus_Shield.cfg` | `TypeOK`, `ShieldBreaks` (liveness) | pass (150,298 states) |
| `najentus_spine` | `MC_Najentus_Spine.cfg` | `SpineFreesItsSummoner` | violation (code bug) |
| `core_slots` | `MC_Core_Slots.cfg` | `TypeOK`, `InvitedCountAccounting`, `TeamWithinMax`, `FreeQueueOnlyWhileOpen`, `InviteKeepsBalance`, `ReviveEventually` (liveness) | pass (97,536 states) |
| `core_resurrect` | `MC_Core_Resurrect.cfg` | `ResurrectsOnlyParticipants` | violation (code bug) |
| `spell_gift` | `MC_SpellHandler.cfg` | `GiftKept`, `OwnContents`, `DestroysOnlyOrphans` (action property) | pass (540,190 states, slot symmetry) |

The properties:

- **`PointOwnershipAccounting`**: `m_TeamPointsCount` always equals the number of towers a team owns, and a tower has an owner exactly when it is UNDER_CONTROL. The counters index `BG_EY_TickPoints` and `BG_EY_FlagPoints`, so a miscount is a wrong score or an out-of-bounds read.
- **`OwnershipFollowsBar`**: while the match runs, a team owns a tower only while the bar is on its side of the neutral zone. This must hold whatever the order of the players in the tower's list.
- **`FlagCarrierConsistent`**: a keeper always carries the flag ON_PLAYER. While the match runs the flag is ON_PLAYER only with a keeper, and the keeper is an online participant. This must hold across leave, logout, kill and capture. After the end, `EventPlayerDroppedFlag` clears the keeper and leaves the flag ON_PLAYER (EY.cpp:806); the property allows that only in WAIT_LEAVE, when nothing reads the flag.
- **`FlagReturns`**: a flag on the ground or waiting to respawn returns to its base, unless it is picked up or the match stops.
- **`OfflineParticipantRemoved`**: a participant who logs out of a running match and stays offline is eventually removed from `m_Players`. `_ProcessOfflineQueue` (Battleground.cpp:302–326) looks only at the head of `m_OfflineQueue`. A head that is never popped would keep every player queued behind it in the match.
- **`MatchHasOneWinner`** (violated): the win rewards go to one team only. Two events happen in one tick:
  1. `PostUpdateImpl` adds the tick points to alliance and horde, in that order;
  2. each `AddPoints` may call `EndBattleground`.

  Nothing guards `Battleground::EndBattleground` against a second call. TLC's trace: both teams hold one tower each at 2–2, and the next tick ends the match twice. `m_Winner` ends as HORDE and both teams are rewarded as winners.
- **`BarStepBounded`** (violated): a scan moves a bar by at most `BG_EY_POINT_MAX_CAPTURERS_COUNT`. Line 296 caps only the positive (alliance) difference.
- **`NearPointTrackedOnce`** (violated): a participant is in at most one near-point list, once. `AddPlayer` pushes the guid again for a player who is already in the match. That is the case its own `isInBattleground` check exists for.

Warsong Gulch:
- **`FlagCarrierConsistent`**: as in EY, for both flags, and the keeper is of the other team.
- **`BothFlagsKeptSound`**: `_bothFlagsKept`, which drives the assault debuffs, is set only while both flags are off their bases.
- **`ScoreNeedsOwnFlagHome`** (action property): a team scores only with its carrier in its own room and its own flag at home. This includes the captures chained from a return and from the drop timer.
- **`OutcomeRefined`** (refinement): every step of Warsong Gulch is a step of `MatchOutcome` or leaves its image unchanged. It rules out a point after the end, two points at once, a second end, a decided winner behind on score (time limit, premature winner) and a result changed after the end, over players and bots.
- **`FlagReturns`** (liveness): a flag on the ground or waiting to respawn is back on its base, or carried again, before the time limit, unless the match stops running first (a premature finish, a score win, a bots-only `EndNow`, a deleted instance). It applies to a flag that leaves its base at least `FlagReturnTime` before the limit. The drop and respawn timers of `PostUpdateImpl` (WS.cpp:116–157) are lowered by `diff` and fire below zero, so that is the longer timer plus one `diff`. `PostUpdateImpl` tests the time limit before the timers, and `RespawnFlagAfterDrop` does nothing once the match is over. A flag dropped later may therefore stay on the ground at the end, and the property does not claim it.
- **`PlayersCountAccounting`**: `m_PlayersCount`, which the premature finish reads, counts each team's participants, players and bots, once. No passing run checks it: `ws_flags` bounds `m_PlayersCount` by `PlayersCountBound = 2`, and that bound cuts off exactly the bot re-entry that breaks it. **Violated with bots** (`ws_bot_count`): `Battleground::AddBot` raises the count without the `isInBattleground` test `AddPlayer` has, so re-adding a participant's group counts its bot twice.
- **`BaseFlagTakeable`** (`ws_bot_flag`, violated): a flag ON_BASE has its object spawned, or is hidden only for the respawn delay after a capture. With bots it fails: a flag-carrying bot that FindBot no longer finds leaves; `RemoveBot` calls `RespawnFlag(team, false)`, which sets ON_BASE without spawning the object. The flag cannot be taken until the other team's next capture. For players the same path (WS.cpp:966) is unreachable while the match runs.
- A decided winner is never behind on score: `OutcomeRefined` checks it through `Decide`. `EndNow` ends a bots-only match with no winner on any score, which the refinement admits as `Abandon`.
- `BattlegroundWS` also states `WinnerLeadsScore` and `MatchEnds`. No run checks them. `OutcomeRefined` covers `WinnerLeadsScore` through `Decide`. `MatchEnds` shares `ws_flags` with `FlagReturns`, and checking both there takes about four minutes, too close to the five-minute limit. `FlagReturns` is the one kept: it covers the flag timers, which `TypeOK` does not.

Naj'entus:
- **`ShieldBreaks`**: every Tidal Shield raised in combat is broken before the fight ends. `EVENT_SHIELD` reschedules a spine 50 s later, before the shield repeats 55–60 s later. Players click and hurl when they repeatedly can.
- **`SpineFreesItsSummoner`** (violated): clicking a spine removes Impaling Spine from the player it was summoned on. Spines live 30 s and repeat every 20–25 s, so two coexist. `_spineTargetGUID` holds only the newest target: the older spine frees the wrong player and leaves its own summoner impaled.

Battleground core:
- **`InvitedCountAccounting`**: each team's `m_InvitedCount` equals its players who are invited or present. Entries, leaves, expiries and the end of the match must all keep it so.
- **`TeamWithinMax`**: invited plus present never exceeds `MaxPlayersPerTeam` (spec.md's invariant).
- **`InviteKeepsBalance`** (action property): an invitation after the start never puts one team more than one ahead in invited players.
- **`FreeQueueOnlyWhileOpen`**: an instance that is ending or deleted is never in the free-slot queue. `RemovePlayerAtLeave` re-adds it only while the status is not WAIT_LEAVE.
- **`ReviveEventually`**: a ghost queued at a guide is resurrected, unless it leaves, the match ends or its guide is relocated.
- **`ResurrectsOnlyParticipants`** (violated): `_ProcessResurrect` revives only participants. Leaving removes a player from `m_ReviveQueue` but not from `m_ResurrectQueue`. A player who leaves in the half second between the two phases is resurrected wherever it is.

Wrapped gifts:
- **`GiftKept`**: an item wrapped with a gift row never shows up wrapped without that row. In the database this holds at any time. In memory it holds while the player is online. The row is deleted only in the transaction that saves the unwrapped item, so no order of opens, moves, saves, logouts and server stops separates the two.
- **`OwnContents`**: an item only ever holds the wrapper's entry or its own contents. The callback compares the guid it was bound to with the item it finds at the position. Without that check, a gift swapped into the position while the query ran takes another gift's contents.
- **`DestroysOnlyOrphans`** (action property): the callback destroys an item only when it is a gift whose row was missing from the start. It must not destroy the opened item after a second open, the gift swapped into the position, or an item reloaded after a logout.
- Under in-order execution, the callback's `IsWrapped` test only stops a second unwrap of an opened gift, which writes the same contents again. A query that runs after an earlier `CHAR_DEL_GIFT` needs a second database worker. That hazard is listed in `PROJECT.json` and not modelled.

Each property of a passing run has a mutant in `PROJECT.json`. A mutant is a plausible bug in a mapped definition, and TLC finds the property violated under it. Examples:
- EY: a capture that does not count the tower; `RemovePlayer` that does not give up the flag.
- WS: a pickup that records the wrong flag; a time limit that never lets the horde win; `AddPlayer` counting a re-entering player; `m_StartTime` not advanced; `AddBot` without the counter; a `RemoveBot` hook that does nothing; a bot trigger without the own-flag test; `EndNow` giving the match to the bots' team.
- Naj'entus: a hurled spine that leaves the shield up.
- Core: a leave that does not decrement the invited count; slots without the maximum cap; a leave that always re-queues the instance.
- Gifts: `SendLoot` given the position; a callback without the guid comparison; `CHAR_DEL_GIFT` committed before the inventory save.

## Bounds, and why they are enough

**Players.** EY runs use 1 alliance and 1 horde player. `ey_bar_step` adds a second horde player, because the uncapped horde step needs more horde players than the cap. With one player per team every bar step is at most 1, so the passing runs see no jumps across the neutral zone, as in the real game: the neutral zone is 40 wide, the cap is 5 and a team has at most 15 players.

**Progress bar.** The thresholds 0/30/50/70/100 are scaled to 0/1/2/3/4. The order is kept, and so is a neutral zone wider than one step.

**Towers.** `ey_towers` uses 2 towers, enough for both teams to hold a tower at once and for the second entries of TickPoints and FlagPoints.

**Scores and timers.**
- TickPoints are `<<1, 2>>` and FlagPoints `<<2, 3>>`. The score limit is 3 in the violation runs and 2 in `ey_towers`, whose liveness check has to fit in five minutes: there a single tower needs two ticks, two towers or a flag win at once, and both teams can cross the limit together. A match can end by ticks, by a flag, or by both teams at once.
- The tick timer is 2 update units, the flag respawn timer 1, and `diff` is 1. The tower scan then runs every other Update, and a dropped flag waits one Update before it respawns, so a pickup can race the respawn.
- `PrematureFinishTime` is 0 in `ey_towers`, which keeps that run, liveness included, under five minutes; the EY premature countdown is exercised by the violation runs that turn it on, and the same base-class code is checked in `ws_flags`.

**Re-entry.** `MaxNearCopies` bounds how many copies of one guid `AddPlayer` may create. It is 1 in the passing runs, so re-entry is allowed only when the guid is in no list, for example after a logout in IN_PROGRESS. It is 2 in `ey_near_once`.

**Warsong Gulch.**
- One player per team: each flag needs one carrier, and both flags can be carried at once, which is the `_bothFlagsKept` case.
- The score limit is 2, so a match can be won by captures.
- The time limit is 7 Updates. A match can still be won by captures, and it can also end on time, with either tie-break.
- `PrematureFinishTime` is 1 in `ws_flags`, so the countdown, its cancellation and the premature winner are in the run.
- The respawn and drop timers are 1 and the assault timers 1 and 2, so every timer expires within a match.
- Bots: one alliance bot owned by `a1`, in every WS run. One bot is enough to carry, capture, be killed, vanish, leave with or without its owner, and be left alone in the match. `PlayersCountBound` is 2 in `ws_flags`, which caps the count drift; `ws_bot_count` allows 3, enough for the double count.

**Naj'entus.**
- A tick is 5 s, and the code's times are kept in ticks:
  - shield at 60 s (12 ticks), repeating every 55–60 s (11–12);
  - spine at 30 s (6), repeating every 20–25 s (4–5), and 50 s (10) after a shield;
  - spine objects live 30 s (6).
- So two spines coexist exactly as in the code.
- Three players, one of them the tank: spines target a random player other than the tank, so two spine targets are possible.
- The shield run shortens berserk to 100 s. Berserk changes neither the shield nor the spines. The spine run keeps 480 s.

**Battleground core.**
- Three alliance players and one horde player, at most 2 a team: the cap binds for the alliance, and the alliance can get two ahead, so the balance rule binds. No symmetry, so the liveness check is sound.
- The resurrection interval is 4 with diffs 1 and 2, so the timer both hits the interval exactly and overshoots it.
- One spirit guide.

**Wrapped gifts.**
- Two gifts in three positions: one with its row, whose contents are a container that binds on use, and one without its row. Both destroy and unwrap happen, and a swap puts the other gift where a query was bound. The third, empty position lets a swap move a gift away from a query's position, so a callback also finds no item there.
- The positions are a symmetry set: the handlers only compare them. With it the three-position run has 540,190 distinct states; without it, 3.2 million.
- At most two database tasks and two answers are pending. Two are enough for two opens of one gift before the first answer, and for an unwrap transaction queued behind a second query.

## Fairness

**Battleground Update.** `Battleground::Update` is called for every live battleground on every world tick. That justifies weak fairness of the Update actions, and it is the only fairness in EY, WS and Core.
- In EY it is written out as `<>[]RunningGuard => []<><<UpdateRunningExpired>>_vars`, where `RunningGuard` is the enabling condition. `UpdateRunningExpired` is the running Update in which the head of the offline queue has been gone for `MAX_OFFLINE_TIME`. `GameTime` advances on every world tick, so five minutes after a logout every Update of a running match sees it expired. With the run's constants, every running Update changes a timer, so the guard is exactly its `ENABLED`. It is a step of `UpdateRunning`, so `UpdateRunning` is fair too. Spelling the guard out keeps TLC from evaluating `ENABLED` of the composed handler.
- In WS the fair action is the whole `Update` (empty, only bots, join, running, leave), with the guard `~m_SetDeleteThis`: The running Updates are what `FlagReturns` needs; the join and leave Updates are fair too, as the code calls Update in every status.
- No fairness is assumed for players or the environment.

**Naj'entus.**
- UpdateAI runs every tick, so `Tick` and the due events are weakly fair.
- `ShieldBreaks` is about a fight in which the raid uses the spines. The clicks and the hurl are strongly fair: a spine object is clickable only during its life, so the clicks are only intermittently enabled. The property says the code gives players the chance, which is its claim.

**Wrapped gifts.** `spell_gift` checks safety only and assumes no fairness.

## Not modelled, and why

- **Presentation and rewards.** World states, broadcast texts, sounds, game-object spawning, honor tics and per-player scores are presentation or rewards with no effect on control. The one exception is the EY winner reward, recorded in `rewardedWinners`.
- **Graveyards.** The closest-graveyard searches are geometry.
- **npcbot variants in EY** (`AddBot`, `RemoveBot`, `HandleBot*`, `EventBot*` of `BattlegroundEY.cpp`): planned. Each one changes the same state as its player twin. The two differ only in how the team is found (`GetBotTeamId`, `BotDataMgr::FindBot`) and in the messages they send. Adding a bot to the EY configurations multiplies the state space of `ey_towers`, which is already the longest run: with one owned alliance bot it was measured at 8.2 million distinct states and 14.5 minutes, against 233,512 states and about 90 seconds without it. The WS ones are modelled. Free (wanderer) bots, which `AddBot` assigns a team by faction and `RemoveBotAtLeave` despawns, are not: every modelled bot has an owner.
- **The queue side of invitations.** `BattlegroundQueue` is not in the repository. `Invite` and `InviteExpires` are modelled from spec.md and marked `spec_modelled`.
- **Query handlers** (`QueryHandler.cpp`): request parsing and reply building from caches. They hold no state of their own.
- **The spell opcodes of `SpellHandler.cpp`.** These are cast, cancel cast, cancel aura, pet cancel aura, growth, mount, auto-repeat, channel, totem, self-resurrection, spell click and game-object use. Each checks its packet and calls `Unit`, `Spell` or `Aura`, which are outside the repository. The checks on the item template in `HandleUseItemOpcode` (equipped, `CanUseItem`, arena, combat) read no modelled state. `CastItemUseSpell` lives in `Player`.
- **More than one database worker.** The order in which tasks complete then depends on the worker pool, which is outside the repository.
- **`BattlegroundMgr.h`**: declarations only.
- **`spell_mage.cpp`**: one-step effect hooks into the engine's spell system, outside the repository.
- **Naj'entus needles and yells** (`EVENT_NEEDLE`, `EVENT_YELL`, the Needle Spine target filter): damage and talk only.

## Plan

Done in this sitting:
- `BattlegroundEY`, `BattlegroundWS`, `BossNajentus` and `BattlegroundCore`, with the runs above;
- five findings: three EY, one Naj'entus, one Core.

Done in the second sitting: `MatchOutcome` and its refinement by WS; the npcbots of WS; two findings (the bot count, the unspawned flag of a vanished bot).

Done in the third sitting:
- `SpellHandler`: the wrapped-gift flow with its database, crash and swap cases;
- `FlagCarrierConsistent` of EY extended past the end of the match;
- the two passing WS runs merged into one with bots.

Done in the fourth sitting:
- `OfflineParticipantRemoved`: the offline queue drains in a running match, under fairness of the Update whose offline timeout has passed;
- `spell_gift` grown to three inventory positions, with a symmetry set, so an empty position is reached;
- the EY npcbots measured, and left out for their state space;
- `FlagReturns` of WS corrected and checked in `ws_flags`, in place of `MatchEnds` and of `PlayersCountAccounting`. Its deadline had a slack of two Updates, which no running match reached, so it held vacuously. It is now derived from the timers;
- the type invariant of `SpellHandler` no longer checked: every record there is built typed and the queue bounds are guards, so it held by construction.

Next sittings, most important first:
1. **`MatchOutcome` refined by `BattlegroundEY`.** Its double end (`ey_one_winner`) will show as a violation of the refinement.
2. **`GetFreeSlotsForTeam` checked against a reference definition.** The reference is spec.md's "balance within one and the maximum", over bounded counts.
3. **The npcbot handlers of EY.** Bots are a second kind of participant, found through `BotDataMgr::FindBot`. Add `RemoveBotAtLeave` and `RemoveBotFromResurrectQueue` to Core.
4. **Core's offline queue, logout and login**, composed with the resurrection queues (a ghost that logs out).
5. **WS details:** the premature-finish winner, and the assault debuff stacks.
