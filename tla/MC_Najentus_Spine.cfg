\* Three raid members, one of them the tank; 5s ticks. Clicking a spine
\* frees the player that spine was summoned on.
CONSTANTS
    p1 = p1
    p2 = p2
    p3 = p3
    Players <- MC_Players
    Tank = p1
    SHIELD_FIRST = 12
    SHIELD_REPEAT <- MC_ShieldRepeat
    SPINE_FIRST = 6
    SPINE_REPEAT <- MC_SpineRepeat
    SPINE_AFTER_SHIELD = 10
    SPINE_AFTER_BURST = 1
    BERSERK_TIME = 96
    SPINE_GO_LIFETIME = 6
SPECIFICATION Spec
SYMMETRY MC_Symmetry
PROPERTIES
    SpineFreesItsSummoner
