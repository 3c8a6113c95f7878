--------------------------- MODULE BossNajentus ---------------------------
(***************************************************************************)
(* High Warlord Naj'entus (boss_warlord_najentus.cpp): the boss AI's event *)
(* map, its Impaling Spine target, the spine game objects summoned on the  *)
(* impaled players, the spine item they yield, and the Tidal Shield that a *)
(* hurled spine breaks.                                                    *)
(*                                                                         *)
(* Time is counted in ticks of UpdateAI; the cfg chooses the tick length.  *)
(* EVENT_NEEDLE and EVENT_YELL only cast damage or talk and are left out   *)
(* of the event map.                                                       *)
(***************************************************************************)
EXTENDS Integers, FiniteSets

CONSTANTS
    Players,                 \* raid members in range of the boss
    Tank,                    \* the top-threat player, skipped by SelectTarget(Random, 1)
    SHIELD_FIRST,            \* ScheduleEvent(EVENT_SHIELD, 1min)
    SHIELD_REPEAT,           \* Repeat(55s, 60s), a set of tick counts
    SPINE_FIRST,             \* ScheduleEvent(EVENT_SPINE, 30s)
    SPINE_REPEAT,            \* Repeat(20s, 25s), a set of tick counts
    SPINE_AFTER_SHIELD,      \* RescheduleEvent(EVENT_SPINE, 50s)
    SPINE_AFTER_BURST,       \* RescheduleEvent(EVENT_SPINE, 2s)
    BERSERK_TIME,            \* ScheduleEvent(EVENT_BERSERK, 480s)
    SPINE_GO_LIFETIME        \* SummonGameObject(GO_NAJENTUS_SPINE, ..., 30s)

ASSUME Tank \in Players

\* NajentusEvents handled by this model; NotScheduled is an event not in the map.
EVENT_BERSERK == 1
EVENT_SPINE == 4
EVENT_SHIELD == 5
Events == {EVENT_BERSERK, EVENT_SPINE, EVENT_SHIELD}
NotScheduled == -1

\* An empty ObjectGuid.
NoTarget == "EMPTY"

\* The boss: not engaged, in combat, dead, or despawned after evading.
IDLE == "idle"
COMBAT == "combat"
DEAD == "dead"
DESPAWNED == "despawned"

VARIABLES
    bossState,
    events,          \* EventMap: event -> ticks until due, or NotScheduled
    _spineTargetGUID,
    shielded,        \* the boss has SPELL_TIDAL_SHIELD
    berserk,         \* the boss has SPELL_BERSERK
    impaled,         \* players with the SPELL_IMPALING_SPINE aura
    spines,          \* GO_NAJENTUS_SPINE objects: [summoner, life]
    spineItems       \* players holding the spine item of SPELL_CREATE_NAJENTUS_SPINE

vars == <<bossState, events, _spineTargetGUID, shielded, berserk, impaled,
          spines, spineItems>>

NoEvents == [e \in Events |-> NotScheduled]

\* boss_najentus::Reset: _Reset clears the event map; the spine target is cleared.
Init ==
    /\ bossState = IDLE
    /\ events = NoEvents
    /\ _spineTargetGUID = NoTarget
    /\ shielded = FALSE
    /\ berserk = FALSE
    /\ impaled = {}
    /\ spines = {}
    /\ spineItems = {}

\* boss_najentus::JustEngagedWith (EVENT_NEEDLE and EVENT_YELL left out).
JustEngagedWith ==
    /\ bossState = IDLE
    /\ bossState' = COMBAT
    /\ events' = [e \in Events |->
                    CASE e = EVENT_SHIELD  -> SHIELD_FIRST
                      [] e = EVENT_SPINE   -> SPINE_FIRST
                      [] e = EVENT_BERSERK -> BERSERK_TIME]
    /\ UNCHANGED <<_spineTargetGUID, shielded, berserk, impaled, spines, spineItems>>

Due == {e \in Events : events[e] = 0}

\* Candidates of SelectTarget(SelectTargetMethod::Random, 1, 200.0f, true):
\* every player in range but the top-threat one.
SpineCandidates == Players \ {Tank}

\* boss_najentus::ExecuteEvent, EVENT_SHIELD.
ExecuteShield ==
    /\ bossState = COMBAT /\ EVENT_SHIELD \in Due
    /\ shielded' = TRUE
    /\ \E d \in SHIELD_REPEAT :
          events' = [events EXCEPT ![EVENT_SPINE] = SPINE_AFTER_SHIELD,
                                   ![EVENT_SHIELD] = d]
    /\ UNCHANGED <<bossState, _spineTargetGUID, berserk, impaled, spines, spineItems>>

\* boss_najentus::ExecuteEvent, EVENT_BERSERK: the event is not repeated.
ExecuteBerserk ==
    /\ bossState = COMBAT /\ EVENT_BERSERK \in Due
    /\ berserk' = TRUE
    /\ events' = [events EXCEPT ![EVENT_BERSERK] = NotScheduled]
    /\ UNCHANGED <<bossState, _spineTargetGUID, shielded, impaled, spines, spineItems>>

\* boss_najentus::ExecuteEvent, EVENT_SPINE: impale a random non-tank player,
\* remember it as the spine target and let it summon the clickable spine.
\* With no player to select (the npcbot branch is not modelled) only the
\* repeat happens.
ExecuteSpine ==
    /\ bossState = COMBAT /\ EVENT_SPINE \in Due
    /\ \E d \in SPINE_REPEAT :
          events' = [events EXCEPT ![EVENT_SPINE] = d]
    /\ \/ \E t \in SpineCandidates :
             /\ impaled' = impaled \cup {t}
             /\ _spineTargetGUID' = t
             /\ spines' = spines \cup {[summoner |-> t, life |-> SPINE_GO_LIFETIME]}
       \/ /\ SpineCandidates = {}
          /\ UNCHANGED <<impaled, _spineTargetGUID, spines>>
    /\ UNCHANGED <<bossState, shielded, berserk, spineItems>>

\* Mutant: a spine whose lifetime ran out is not despawned.
Tick_KeepExpired ==
    /\ Due = {} \/ bossState # COMBAT
    /\ events' = IF bossState = COMBAT
                   THEN [e \in Events |-> IF events[e] > 0 THEN events[e] - 1
                                                             ELSE events[e]]
                   ELSE events
    /\ spines' = {[g EXCEPT !.life = @ - 1] : g \in spines}
    /\ UNCHANGED <<bossState, _spineTargetGUID, shielded, berserk, impaled, spineItems>>

\* One world tick: UpdateAI runs the due events before the timers move on,
\* so time passes only when no event is due; summoned spines age and despawn.
Tick ==
    /\ Due = {} \/ bossState # COMBAT
    /\ events' = IF bossState = COMBAT
                   THEN [e \in Events |-> IF events[e] > 0 THEN events[e] - 1
                                                             ELSE events[e]]
                   ELSE events
    /\ spines' = {[g EXCEPT !.life = @ - 1] : g \in {h \in spines : h.life > 1}}
    /\ UNCHANGED <<bossState, _spineTargetGUID, shielded, berserk, impaled, spineItems>>

\* The Impaling Spine aura runs out (its duration is spell data).
ImpaleExpires(p) ==
    /\ p \in impaled
    /\ impaled' = impaled \ {p}
    /\ UNCHANGED <<bossState, events, _spineTargetGUID, shielded, berserk, spines, spineItems>>

\* boss_najentus::RemoveImpalingSpine (through GetData): with a spine target,
\* free it if it still has the aura and answer true; with none answer false.
RemoveImpalingSpine(imp, target) ==
    IF target = NoTarget THEN imp ELSE imp \ {target}

\* go_najentus_spine::OnGossipHello: a player clicks spine g. When the boss
\* answers GetData(DATA_REMOVE_IMPALING_SPINE), its spine target is reset
\* (DoAction), the player receives the spine item and the object is deleted;
\* otherwise nothing happens.
OnGossipHello(p, g) ==
    /\ g \in spines
    /\ bossState # DESPAWNED
    /\ _spineTargetGUID # NoTarget
    /\ impaled' = RemoveImpalingSpine(impaled, _spineTargetGUID)
    /\ _spineTargetGUID' = NoTarget
    /\ spineItems' = spineItems \cup {p}
    /\ spines' = spines \ {g}
    /\ UNCHANGED <<bossState, events, shielded, berserk>>

\* Mutant: the hurled spine is used up but the Tidal Shield stays.
SpellHit_KeepShield(p) ==
    /\ bossState = COMBAT /\ p \in spineItems
    /\ spineItems' = spineItems \ {p}
    /\ UNCHANGED <<shielded, events>>
    /\ UNCHANGED <<bossState, _spineTargetGUID, berserk, impaled, spines>>

\* boss_najentus::SpellHit of SPELL_HURL_SPINE, thrown by a holder of the
\* spine item: with the Tidal Shield up it removes the shield, casts the
\* Tidal Burst and brings the next spine forward.
SpellHit(p) ==
    /\ bossState = COMBAT /\ p \in spineItems
    /\ spineItems' = spineItems \ {p}
    /\ IF shielded
         THEN /\ shielded' = FALSE
              /\ events' = [events EXCEPT ![EVENT_SPINE] = SPINE_AFTER_BURST]
         ELSE UNCHANGED <<shielded, events>>
    /\ UNCHANGED <<bossState, _spineTargetGUID, berserk, impaled, spines>>

\* boss_najentus::JustDied: _JustDied resets the event map; the boss's own
\* auras go with it.
JustDied ==
    /\ bossState = COMBAT
    /\ bossState' = DEAD
    /\ events' = NoEvents
    /\ shielded' = FALSE /\ berserk' = FALSE
    /\ UNCHANGED <<_spineTargetGUID, impaled, spines, spineItems>>

\* boss_najentus::EnterEvadeMode: _EnterEvadeMode drops the boss's auras and
\* _DespawnAtEvade removes it from the map until it respawns.
EnterEvadeMode ==
    /\ bossState = COMBAT
    /\ bossState' = DESPAWNED
    /\ events' = NoEvents
    /\ shielded' = FALSE /\ berserk' = FALSE
    /\ UNCHANGED <<_spineTargetGUID, impaled, spines, spineItems>>

\* The respawn after _DespawnAtEvade, followed by boss_najentus::Reset.
Respawn ==
    /\ bossState = DESPAWNED
    /\ bossState' = IDLE
    /\ _spineTargetGUID' = NoTarget
    /\ UNCHANGED <<events, shielded, berserk, impaled, spines, spineItems>>

Next ==
    \/ JustEngagedWith \/ ExecuteShield \/ ExecuteBerserk \/ ExecuteSpine
    \/ Tick \/ JustDied \/ EnterEvadeMode \/ Respawn
    \/ \E p \in Players : ImpaleExpires(p) \/ SpellHit(p)
    \/ \E p \in Players, g \in spines : OnGossipHello(p, g)

Spec == Init /\ [][Next]_vars

\* UpdateAI runs on every world tick and executes every due event. A spine
\* can be clicked only while it lives, so the players are assumed strongly
\* fair: one who is again and again able to click or hurl a spine does.
Fairness ==
    /\ WF_vars(Tick)
    /\ WF_vars(ExecuteShield) /\ WF_vars(ExecuteSpine) /\ WF_vars(ExecuteBerserk)
    /\ SF_vars(\E p \in Players, g \in spines : OnGossipHello(p, g))
    /\ SF_vars(\E p \in Players : SpellHit(p))

FairSpec == Spec /\ Fairness

TypeOK ==
    /\ bossState \in {IDLE, COMBAT, DEAD, DESPAWNED}
    /\ events \in [Events -> {NotScheduled} \cup Nat]
    /\ _spineTargetGUID \in Players \cup {NoTarget}
    /\ shielded \in BOOLEAN /\ berserk \in BOOLEAN
    /\ impaled \subseteq Players /\ spineItems \subseteq Players
    /\ \A g \in spines : g.summoner \in Players /\ g.life \in 1..SPINE_GO_LIFETIME

\* The spine object is summoned by the impaled player so that clicking it
\* frees that player (boss_najentus::ExecuteEvent, EVENT_SPINE, and
\* go_najentus_spine::OnGossipHello): a click that consumes a spine leaves
\* its summoner without the Impaling Spine aura.
SpineFreesItsSummoner ==
    [][\A p \in Players, g \in spines :
          OnGossipHello(p, g) => g.summoner \notin impaled']_vars

\* A Tidal Shield raised in combat is eventually broken by a hurled spine
\* (EVENT_SHIELD brings the next spine to 50s, before the shield repeats,
\* and SpellHit removes the shield), unless the fight ends first.
ShieldBreaks ==
    (shielded /\ bossState = COMBAT) ~> (~shielded \/ bossState # COMBAT)

====
