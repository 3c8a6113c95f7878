\* A player queued for resurrection leaves between the sweep into
\* m_ResurrectQueue and the revival, then dies elsewhere.
CONSTANTS
    a1 = a1
    a2 = a2
    a3 = a3
    h1 = h1
    h2 = h2
    g1 = g1
    Alliance <- MC_Alliance
    Horde <- MC_Horde
    Guides <- MC_Guides
    MaxPlayersPerTeam = 2
    MinPlayersPerTeam = 1
    InvitationType = 0
    RESURRECTION_INTERVAL = 4
    RESURRECTION_DELAY = 1
    Diffs <- MC_Diffs
SPECIFICATION Spec
SYMMETRY MC_Symmetry
PROPERTIES
    ResurrectsOnlyParticipants
