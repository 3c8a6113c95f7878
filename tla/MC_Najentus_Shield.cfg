\* Three raid members, one of them the tank; 5s ticks. A raised Tidal
\* Shield is broken while the fight goes on. Berserk comes at 100s instead
\* of 480s: it touches neither the shield nor the spines, and the shorter
\* fight keeps the liveness check small.
CONSTANTS
    p1 = p1
    p2 = p2
    p3 = p3
    Players <- MC_Players
    Tank = p1
    SHIELD_FIRST = 12
    SHIELD_REPEAT <- MC_ShieldRepeat
    SPINE_FIRST = 6
    SPINE_REPEAT <- MC_SpineRepeat
    SPINE_AFTER_SHIELD = 10
    SPINE_AFTER_BURST = 1
    BERSERK_TIME = 20
    SPINE_GO_LIFETIME = 6
SPECIFICATION FairSpec
INVARIANTS
    TypeOK
PROPERTIES
    ShieldBreaks
