--------------------------- MODULE BattlegroundCore ---------------------------
(***************************************************************************)
(* The base class Battleground (Battleground.cpp) of one battleground      *)
(* instance, as the queue and the map see it: the invited counters read by *)
(* GetFreeSlotsForTeam, the players who enter and leave, the instance's    *)
(* place in the free-slot queue, and the resurrection system: players     *)
(* waiting at a spirit guide (m_ReviveQueue), swept every                  *)
(* RESURRECTION_INTERVAL into m_ResurrectQueue and revived a moment later. *)
(*                                                                         *)
(* The battleground queue that invites players, and the spirit-guide       *)
(* gossip that queues a ghost, are not in the repository; they are the     *)
(* actions Invite, InviteExpires and AddPlayerToResurrectQueue.            *)
(* Objectives, scores and the offline queue are in BattlegroundEY and      *)
(* BattlegroundWS; here a match ends by EndBattleground at any moment.     *)
(***************************************************************************)
EXTENDS Integers, FiniteSets

CONSTANTS
    Alliance, Horde,             \* players of each team
    Guides,                      \* spirit guides of the map
    MaxPlayersPerTeam, MinPlayersPerTeam,
    InvitationType,              \* CONFIG_BATTLEGROUND_INVITATION_TYPE
    RESURRECTION_INTERVAL,
    RESURRECTION_DELAY,          \* the 500 ms of "m_LastResurrectTime > 500"
    Diffs                        \* world update diffs

Players == Alliance \cup Horde
ALLIANCE == "ALLIANCE"
HORDE == "HORDE"
Teams == {ALLIANCE, HORDE}
TeamOf(p) == IF p \in Alliance THEN ALLIANCE ELSE HORDE
OtherTeam(t) == IF t = ALLIANCE THEN HORDE ELSE ALLIANCE

\* BattlegroundStatus (Battleground.h)
STATUS_WAIT_JOIN == 2
STATUS_IN_PROGRESS == 3
STATUS_WAIT_LEAVE == 4

\* BattlegroundQueueInvitationType (BattlegroundQueue.h)
BG_QUEUE_INVITATION_TYPE_NO_BALANCE == 0

VARIABLES
    m_Status,
    m_InvitedCount,          \* [team -> m_InvitedAlliance / m_InvitedHorde]
    invitations,             \* players invited and not yet entered
    m_Players,
    alive,                   \* players alive, in the battleground or not
    m_InBGFreeSlotQueue,
    registered,              \* StartBattleground has run
    m_ReviveQueue,           \* [guide -> players waiting there]
    m_ResurrectQueue,
    m_LastResurrectTime,
    m_SetDeleteThis

vars == <<m_Status, m_InvitedCount, invitations, m_Players, alive,
          m_InBGFreeSlotQueue, registered, m_ReviveQueue, m_ResurrectQueue,
          m_LastResurrectTime, m_SetDeleteThis>>

PlayersCountByTeam(t) == Cardinality({p \in m_Players : TeamOf(p) = t})

Queued == UNION {m_ReviveQueue[g] : g \in Guides}

SmallerOf(a, b) == IF a < b THEN a ELSE b

\* GetFreeSlotsForTeam: the difference based on the invited counts.
InvitedDiff(t) ==
    LET this == m_InvitedCount[t]
        other == m_InvitedCount[OtherTeam(t)]
    IN  IF other = this THEN 1 ELSE IF other > this THEN other - this ELSE 0

\* GetFreeSlotsForTeam: the difference based on MaxPlayersPerTeam (diff2).
MaxDiff(t) ==
    IF m_InvitedCount[t] < MaxPlayersPerTeam
      THEN MaxPlayersPerTeam - m_InvitedCount[t] ELSE 0

\* GetFreeSlotsForTeam: the difference based on the players who entered
\* (diff3).
PlayersDiff(t) ==
    LET this == PlayersCountByTeam(t)
        other == PlayersCountByTeam(OtherTeam(t))
    IN  IF other = this THEN 1
        ELSE IF other > this THEN other - this
        ELSE IF m_InvitedCount[t] <= MinPlayersPerTeam
          THEN MinPlayersPerTeam - m_InvitedCount[t] + 1
        ELSE 0

NoBalanceStart ==
    m_Status = STATUS_WAIT_JOIN /\ InvitationType = BG_QUEUE_INVITATION_TYPE_NO_BALANCE

\* Mutant: the no-balance start invites anyone, whatever is invited already.
GetFreeSlotsForTeam_NoCap(t) ==
    IF NoBalanceStart THEN MaxPlayersPerTeam
    ELSE IF m_Status \in {STATUS_IN_PROGRESS, STATUS_WAIT_JOIN}
      THEN SmallerOf(SmallerOf(InvitedDiff(t), MaxDiff(t)), PlayersDiff(t))
    ELSE 0

\* Mutant: the difference of the invited counts is left out of the minimum.
GetFreeSlotsForTeam_NoDiff(t) ==
    IF NoBalanceStart THEN MaxDiff(t)
    ELSE IF m_Status \in {STATUS_IN_PROGRESS, STATUS_WAIT_JOIN}
      THEN SmallerOf(MaxDiff(t), PlayersDiff(t))
    ELSE 0

\* Battleground::GetFreeSlotsForTeam: the minimum of the three differences.
GetFreeSlotsForTeam(t) ==
    IF NoBalanceStart THEN MaxDiff(t)
    ELSE IF m_Status \in {STATUS_IN_PROGRESS, STATUS_WAIT_JOIN}
      THEN SmallerOf(SmallerOf(InvitedDiff(t), MaxDiff(t)), PlayersDiff(t))
    ELSE 0

\* Battleground::Reset: no invitation, no player, not in the free-slot queue,
\* the resurrection timer at zero.
Reset ==
    /\ m_InvitedCount = [t \in Teams |-> 0]
    /\ m_Players = {}
    /\ m_InBGFreeSlotQueue = FALSE
    /\ m_LastResurrectTime = 0

\* The Battleground constructor, which sets what Reset sets, with the status
\* CreateNewBattleground gives a new instance.
Init ==
    /\ Reset
    /\ m_Status = STATUS_WAIT_JOIN
    /\ invitations = {}
    /\ alive = Players
    /\ registered = FALSE
    /\ m_ReviveQueue = [g \in Guides |-> {}]
    /\ m_ResurrectQueue = {}
    /\ m_SetDeleteThis = FALSE

\* BattlegroundQueue inviting p: only into a new instance or one offered in
\* the free-slot queue, and only into a free slot of p's team.
Invite(p) ==
    /\ ~m_SetDeleteThis
    /\ ~registered \/ m_InBGFreeSlotQueue
    /\ p \notin invitations \cup m_Players
    /\ GetFreeSlotsForTeam(TeamOf(p)) > 0
    /\ m_InvitedCount' = [m_InvitedCount EXCEPT ![TeamOf(p)] = @ + 1]
    /\ invitations' = invitations \cup {p}
    /\ UNCHANGED <<m_Status, m_Players, alive, m_InBGFreeSlotQueue, registered,
                   m_ReviveQueue, m_ResurrectQueue, m_LastResurrectTime, m_SetDeleteThis>>

\* The invitation runs out without p entering: the queue gives the slot back.
InviteExpires(p) ==
    /\ p \in invitations
    /\ m_InvitedCount' = [m_InvitedCount EXCEPT ![TeamOf(p)] = @ - 1]
    /\ invitations' = invitations \ {p}
    /\ UNCHANGED <<m_Status, m_Players, alive, m_InBGFreeSlotQueue, registered,
                   m_ReviveQueue, m_ResurrectQueue, m_LastResurrectTime, m_SetDeleteThis>>

\* Battleground::StartBattleground: offer the instance in the free-slot queue
\* (AddToBGFreeSlotQueue) and register it for updates.
StartBattleground ==
    /\ ~registered /\ ~m_SetDeleteThis
    /\ registered' = TRUE
    /\ m_InBGFreeSlotQueue' = TRUE
    /\ m_LastResurrectTime' = 0
    /\ UNCHANGED <<m_Status, m_InvitedCount, invitations, m_Players, alive,
                   m_ReviveQueue, m_ResurrectQueue, m_SetDeleteThis>>

\* Battleground::AddPlayer of an invited player (the invitation is now spent
\* on a player in m_Players, who keeps counting as invited), followed by
\* PlayerAddedToBGCheckIfBGIsRunning.
AddPlayer(p) ==
    /\ registered /\ ~m_SetDeleteThis
    /\ p \in invitations
    /\ invitations' = invitations \ {p}
    /\ m_Players' = m_Players \cup {p}
    /\ UNCHANGED <<m_Status, m_InvitedCount, alive, m_InBGFreeSlotQueue, registered,
                   m_ReviveQueue, m_ResurrectQueue, m_LastResurrectTime, m_SetDeleteThis>>

\* Battleground::RemovePlayerFromResurrectQueue.
RemovePlayerFromResurrectQueue(rq, pl) == [g \in Guides |-> rq[g] \ pl]

\* Mutant: DecreaseInvitedCount is not called.
RemovePlayersAtLeave_NoDecrease(pl) ==
    /\ m_Players' = m_Players \ pl
    /\ m_ReviveQueue' = RemovePlayerFromResurrectQueue(m_ReviveQueue, pl)
    /\ alive' = alive \cup pl
    /\ UNCHANGED m_InvitedCount
    /\ m_InBGFreeSlotQueue' = (m_InBGFreeSlotQueue \/ (pl # {} /\ m_Status < STATUS_WAIT_LEAVE))

\* Mutant: the instance is put back into the free-slot queue even when ending.
RemovePlayersAtLeave_AlwaysRequeue(pl) ==
    /\ m_Players' = m_Players \ pl
    /\ m_ReviveQueue' = RemovePlayerFromResurrectQueue(m_ReviveQueue, pl)
    /\ alive' = alive \cup pl
    /\ m_InvitedCount' = [t \in Teams |->
                            m_InvitedCount[t] - Cardinality({p \in pl : TeamOf(p) = t})]
    /\ m_InBGFreeSlotQueue' = (m_InBGFreeSlotQueue \/ pl # {})

\* Battleground::RemovePlayerAtLeave, for the participants in pl: they leave
\* m_Players and the revive queues, are resurrected on exit, give their
\* invitation back, and while the match is not ending the instance goes back
\* to the free-slot queue.
RemovePlayersAtLeave(pl) ==
    /\ m_Players' = m_Players \ pl
    /\ m_ReviveQueue' = RemovePlayerFromResurrectQueue(m_ReviveQueue, pl)
    /\ alive' = alive \cup pl
    /\ m_InvitedCount' = [t \in Teams |->
                            m_InvitedCount[t] - Cardinality({p \in pl : TeamOf(p) = t})]
    /\ m_InBGFreeSlotQueue' = (m_InBGFreeSlotQueue \/ (pl # {} /\ m_Status < STATUS_WAIT_LEAVE))

\* Player::LeaveBattleground of a participant, at any time.
LeaveBattleground(p) ==
    /\ registered /\ ~m_SetDeleteThis
    /\ p \in m_Players
    /\ RemovePlayersAtLeave({p})
    /\ UNCHANGED <<m_Status, invitations, registered, m_ResurrectQueue,
                   m_LastResurrectTime, m_SetDeleteThis>>

\* Battleground::HandleKillPlayer: a participant dies in the match (the
\* deaths, kills and honour it counts are scores, not modelled).
HandleKillPlayer(p) ==
    /\ registered /\ ~m_SetDeleteThis /\ m_Status = STATUS_IN_PROGRESS
    /\ p \in m_Players /\ p \in alive
    /\ alive' = alive \ {p}
    /\ UNCHANGED <<m_Status, m_InvitedCount, invitations, m_Players, m_InBGFreeSlotQueue,
                   registered, m_ReviveQueue, m_ResurrectQueue, m_LastResurrectTime,
                   m_SetDeleteThis>>

\* A player dies outside the battleground.
Die(p) ==
    /\ p \in alive /\ p \notin m_Players
    /\ alive' = alive \ {p}
    /\ UNCHANGED <<m_Status, m_InvitedCount, invitations, m_Players, m_InBGFreeSlotQueue,
                   registered, m_ReviveQueue, m_ResurrectQueue, m_LastResurrectTime,
                   m_SetDeleteThis>>

\* Battleground::AddPlayerToResurrectQueue, when the ghost of participant p
\* asks spirit guide g to be resurrected.
AddPlayerToResurrectQueue(g, p) ==
    /\ registered /\ ~m_SetDeleteThis /\ m_Status = STATUS_IN_PROGRESS
    /\ p \in m_Players /\ p \notin alive /\ p \notin Queued
    /\ m_ReviveQueue' = [m_ReviveQueue EXCEPT ![g] = @ \cup {p}]
    /\ UNCHANGED <<m_Status, m_InvitedCount, invitations, m_Players, alive,
                   m_InBGFreeSlotQueue, registered, m_ResurrectQueue,
                   m_LastResurrectTime, m_SetDeleteThis>>

\* Battleground::RelocateDeadPlayers, when the objective guarded by g is
\* lost: its ghosts are teleported to another graveyard and dequeued.
RelocateDeadPlayers(g) ==
    /\ registered /\ ~m_SetDeleteThis /\ m_Status = STATUS_IN_PROGRESS
    /\ m_ReviveQueue[g] # {}
    /\ m_ReviveQueue' = [m_ReviveQueue EXCEPT ![g] = {}]
    /\ UNCHANGED <<m_Status, m_InvitedCount, invitations, m_Players, alive,
                   m_InBGFreeSlotQueue, registered, m_ResurrectQueue,
                   m_LastResurrectTime, m_SetDeleteThis>>

\* Mutant: the clock restarts only when someone was queued.
ProcessResurrect_NoIdleReset(diff) ==
    LET t == m_LastResurrectTime + diff IN
    IF t >= RESURRECTION_INTERVAL /\ Queued # {}
      THEN /\ m_ResurrectQueue' = m_ResurrectQueue \cup Queued
           /\ m_ReviveQueue' = [g \in Guides |-> {}]
           /\ m_LastResurrectTime' = 0
           /\ UNCHANGED alive
    ELSE IF t > RESURRECTION_DELAY /\ t < RESURRECTION_INTERVAL
      THEN /\ alive' = alive \cup m_ResurrectQueue
           /\ m_ResurrectQueue' = {}
           /\ m_LastResurrectTime' = t
           /\ UNCHANGED m_ReviveQueue
    ELSE /\ m_LastResurrectTime' = t
         /\ UNCHANGED <<alive, m_ResurrectQueue, m_ReviveQueue>>

\* Mutant: the revival waits for the interval instead of the short delay.
ProcessResurrect_LateRevive(diff) ==
    LET t == m_LastResurrectTime + diff IN
    IF t >= RESURRECTION_INTERVAL
      THEN /\ m_ResurrectQueue' = m_ResurrectQueue \cup Queued
           /\ m_ReviveQueue' = [g \in Guides |-> {}]
           /\ m_LastResurrectTime' = 0
           /\ UNCHANGED alive
    ELSE IF t > RESURRECTION_INTERVAL
      THEN /\ alive' = alive \cup m_ResurrectQueue
           /\ m_ResurrectQueue' = {}
           /\ m_LastResurrectTime' = t
           /\ UNCHANGED m_ReviveQueue
    ELSE /\ m_LastResurrectTime' = t
         /\ UNCHANGED <<alive, m_ResurrectQueue, m_ReviveQueue>>

\* Battleground::_ProcessResurrect(diff): every RESURRECTION_INTERVAL the
\* queued ghosts move to m_ResurrectQueue and the clock restarts; once more
\* than RESURRECTION_DELAY has passed after that, everyone in
\* m_ResurrectQueue that ObjectAccessor finds is resurrected.
ProcessResurrect(diff) ==
    LET t == m_LastResurrectTime + diff IN
    IF t >= RESURRECTION_INTERVAL
      THEN /\ m_ResurrectQueue' = m_ResurrectQueue \cup Queued
           /\ m_ReviveQueue' = [g \in Guides |-> {}]
           /\ m_LastResurrectTime' = 0
           /\ UNCHANGED alive
    ELSE IF t > RESURRECTION_DELAY
      THEN /\ alive' = alive \cup m_ResurrectQueue
           /\ m_ResurrectQueue' = {}
           /\ m_LastResurrectTime' = t
           /\ UNCHANGED m_ReviveQueue
    ELSE /\ m_LastResurrectTime' = t
         /\ UNCHANGED <<alive, m_ResurrectQueue, m_ReviveQueue>>

\* Battleground::Update with players present, STATUS_WAIT_JOIN: _ProcessJoin
\* opens the doors at the end of the countdown (modelled in BattlegroundEY
\* and BattlegroundWS); here the countdown ends at any update.
UpdateJoin ==
    /\ registered /\ ~m_SetDeleteThis /\ m_Players # {}
    /\ m_Status = STATUS_WAIT_JOIN
    /\ m_Status' = STATUS_IN_PROGRESS
    /\ UNCHANGED <<m_InvitedCount, invitations, m_Players, alive, m_InBGFreeSlotQueue,
                   registered, m_ReviveQueue, m_ResurrectQueue, m_LastResurrectTime,
                   m_SetDeleteThis>>

\* Battleground::Update with players present, STATUS_IN_PROGRESS: the
\* resurrection system (no player is offline here, so the offline queue is
\* empty).
UpdateRunning(diff) ==
    /\ registered /\ ~m_SetDeleteThis /\ m_Players # {}
    /\ m_Status = STATUS_IN_PROGRESS
    /\ ProcessResurrect(diff)
    /\ UNCHANGED <<m_Status, m_InvitedCount, invitations, m_Players,
                   m_InBGFreeSlotQueue, registered, m_SetDeleteThis>>

\* Battleground::EndBattleground, called by the subclass when the match is
\* decided, or Battleground::EndNow: leave the free-slot queue and wait for
\* the players to go.
\* Battleground::RemoveFromBGFreeSlotQueue: the instance leaves the manager's
\* free-slot queue (nothing happens when it is not in it).
RemoveFromBGFreeSlotQueue == m_InBGFreeSlotQueue' = FALSE

EndBattleground ==
    /\ registered /\ ~m_SetDeleteThis
    /\ m_Status = STATUS_IN_PROGRESS
    /\ m_Status' = STATUS_WAIT_LEAVE
    /\ RemoveFromBGFreeSlotQueue
    /\ UNCHANGED <<m_InvitedCount, invitations, m_Players, alive, registered,
                   m_ReviveQueue, m_ResurrectQueue, m_LastResurrectTime, m_SetDeleteThis>>

\* Battleground::_ProcessLeave at the end time: every player is removed.
UpdateLeave ==
    /\ registered /\ ~m_SetDeleteThis /\ m_Players # {}
    /\ m_Status = STATUS_WAIT_LEAVE
    /\ RemovePlayersAtLeave(m_Players)
    /\ UNCHANGED <<m_Status, invitations, registered, m_ResurrectQueue,
                   m_LastResurrectTime, m_SetDeleteThis>>

\* Battleground::Update with no player: deleted once nobody is invited.
UpdateEmpty ==
    /\ registered /\ ~m_SetDeleteThis /\ m_Players = {}
    /\ m_SetDeleteThis' = (m_InvitedCount[ALLIANCE] = 0 /\ m_InvitedCount[HORDE] = 0)
    /\ UNCHANGED <<m_Status, m_InvitedCount, invitations, m_Players, alive,
                   m_InBGFreeSlotQueue, registered, m_ReviveQueue, m_ResurrectQueue,
                   m_LastResurrectTime>>

\* BattlegroundMgr::Update deletes the instance: the destructor takes it out
\* of the free-slot queue (RemoveFromBGFreeSlotQueue); nothing happens after.
Deleted ==
    /\ m_SetDeleteThis
    /\ RemoveFromBGFreeSlotQueue
    /\ UNCHANGED <<m_Status, m_InvitedCount, invitations, m_Players, alive, registered,
                   m_ReviveQueue, m_ResurrectQueue, m_LastResurrectTime, m_SetDeleteThis>>

Next ==
    \/ Deleted
    \/ StartBattleground \/ UpdateJoin \/ EndBattleground \/ UpdateLeave \/ UpdateEmpty
    \/ \E d \in Diffs : UpdateRunning(d)
    \/ \E p \in Players :
          \/ Invite(p) \/ InviteExpires(p) \/ AddPlayer(p)
          \/ LeaveBattleground(p) \/ HandleKillPlayer(p) \/ Die(p)
    \/ \E g \in Guides : RelocateDeadPlayers(g)
    \/ \E g \in Guides, p \in Players : AddPlayerToResurrectQueue(g, p)

Spec == Init /\ [][Next]_vars

\* Update is called on every world tick.
FairSpec == Spec /\ WF_vars(\E d \in Diffs : UpdateRunning(d))

TypeOK ==
    /\ m_Status \in {STATUS_WAIT_JOIN, STATUS_IN_PROGRESS, STATUS_WAIT_LEAVE}
    /\ m_InvitedCount \in [Teams -> Nat]
    /\ invitations \subseteq Players /\ m_Players \subseteq Players
    /\ alive \subseteq Players
    /\ m_InBGFreeSlotQueue \in BOOLEAN /\ registered \in BOOLEAN
    /\ m_ReviveQueue \in [Guides -> SUBSET Players]
    /\ m_ResurrectQueue \subseteq Players
    /\ m_LastResurrectTime \in 0..(RESURRECTION_INTERVAL - 1)
    /\ m_SetDeleteThis \in BOOLEAN

\* The invited counter of a team is the number of its players holding an
\* invitation or in the match: Invite/InviteExpires and
\* RemovePlayerAtLeave's DecreaseInvitedCount keep it in step with who is
\* invited, enters and leaves, so GetFreeSlotsForTeam reads true numbers.
InvitedCountAccounting ==
    \A t \in Teams :
        m_InvitedCount[t] = Cardinality({p \in invitations \cup m_Players : TeamOf(p) = t})

\* A team never has more invited players, nor more players in the match,
\* than MaxPlayersPerTeam, with or without the no-balance invitation type
\* (GetFreeSlotsForTeam's diff2).
TeamWithinMax ==
    \A t \in Teams :
        /\ m_InvitedCount[t] <= MaxPlayersPerTeam
        /\ PlayersCountByTeam(t) <= MaxPlayersPerTeam

\* Outside the no-balance start, an invitation never puts a team more than
\* one invited player ahead of the other (GetFreeSlotsForTeam's diff).
InviteKeepsBalance ==
    [][\A t \in Teams :
         /\ m_InvitedCount'[t] > m_InvitedCount[t]
         /\ ~(m_Status = STATUS_WAIT_JOIN
              /\ InvitationType = BG_QUEUE_INVITATION_TYPE_NO_BALANCE)
         => m_InvitedCount'[t] <= m_InvitedCount[OtherTeam(t)] + 1]_vars

\* An instance is offered in the free-slot queue only while players may
\* still join: EndBattleground takes it out and RemovePlayerAtLeave puts it
\* back only before STATUS_WAIT_LEAVE.
FreeQueueOnlyWhileOpen ==
    m_InBGFreeSlotQueue => m_Status < STATUS_WAIT_LEAVE

\* The resurrection system of a battleground revives only that
\* battleground's players: a player who leaves is taken out of its
\* resurrection queues (RemovePlayerAtLeave, RemovePlayerFromResurrectQueue).
ResurrectsOnlyParticipants ==
    [][\A d \in Diffs : UpdateRunning(d) => (alive' \ alive) \subseteq m_Players]_vars

\* A ghost queued at a spirit guide is resurrected by _ProcessResurrect
\* while the match runs, unless it leaves, the match ends or its guide's
\* objective is lost and RelocateDeadPlayers dequeues it.
ReviveEventually ==
    \A p \in Players :
        (p \in m_Players /\ p \in Queued /\ m_Status = STATUS_IN_PROGRESS)
          ~> \/ p \in alive \/ p \notin m_Players
             \/ m_Status # STATUS_IN_PROGRESS
             \/ p \notin Queued \cup m_ResurrectQueue

====
