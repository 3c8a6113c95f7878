\* Three alliance players and one horde player, at most two a team and at
\* least one; invitations unbalanced before the start (type 0) and balanced
\* after. Resurrection every 4 time units, revival after more than 1,
\* updates of 1 or 2, Update on every world tick: slots, the free-slot queue
\* and revival.
CONSTANTS
    a1 = a1
    a2 = a2
    a3 = a3
    h1 = h1
    h2 = h2
    g1 = g1
    Alliance <- MC_Alliance
    Horde <- MC_HordeOne
    Guides <- MC_Guides
    MaxPlayersPerTeam = 2
    MinPlayersPerTeam = 1
    InvitationType = 0
    RESURRECTION_INTERVAL = 4
    RESURRECTION_DELAY = 1
    Diffs <- MC_Diffs
SPECIFICATION FairSpec
INVARIANTS
    TypeOK
    InvitedCountAccounting
    TeamWithinMax
    FreeQueueOnlyWhileOpen
PROPERTIES
    InviteKeepsBalance
    ReviveEventually
