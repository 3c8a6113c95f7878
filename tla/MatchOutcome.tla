---------------------------- MODULE MatchOutcome ----------------------------
(***************************************************************************)
(* What a battleground promises about the result of one match, whatever   *)
(* the map: the match waits, runs and is over, once. While it runs a team *)
(* scores one point at a time, and reaching the score limit wins it. It   *)
(* can also be decided (time limit, premature finish) for a team that is  *)
(* not behind, or for nobody on a tie, or be abandoned without a result   *)
(* (Battleground::EndNow, an emptied instance). Once over, neither the    *)
(* result nor the scores change.                                          *)
(*                                                                         *)
(* BattlegroundWS implements this specification under a refinement        *)
(* mapping (BattlegroundWS!Outcome).                                       *)
(***************************************************************************)
EXTENDS Naturals

CONSTANTS
    Teams,      \* the two teams
    NoWinner,   \* the result of a match nobody won
    MaxScore    \* the score that wins a match

ASSUME NoWinner \notin Teams /\ MaxScore \in Nat \ {0}

VARIABLES phase, winner, score

vars == <<phase, winner, score>>

WAITING == "waiting"
RUNNING == "running"
OVER == "over"

\* Team t is not behind any team.
Leads(t, sc) == \A u \in Teams : sc[t] >= sc[u]

Tied(sc) == \A t, u \in Teams : sc[t] = sc[u]

OnePointTo(t) == score' = [score EXCEPT ![t] = @ + 1]

Init ==
    /\ phase = WAITING
    /\ winner = NoWinner
    /\ score = [t \in Teams |-> 0]

Start ==
    /\ phase = WAITING
    /\ phase' = RUNNING
    /\ UNCHANGED <<winner, score>>

\* A point that does not reach the limit.
Score(t) ==
    /\ phase = RUNNING
    /\ score[t] + 1 < MaxScore
    /\ OnePointTo(t)
    /\ UNCHANGED <<phase, winner>>

\* The point that reaches the limit ends the match for its team.
Win(t) ==
    /\ phase = RUNNING
    /\ score[t] + 1 = MaxScore
    /\ OnePointTo(t)
    /\ phase' = OVER
    /\ winner' = t

\* The match is ended by a rule other than the score limit.
Decide(w) ==
    /\ phase = RUNNING
    /\ w \in Teams => Leads(w, score)
    /\ w = NoWinner => Tied(score)
    /\ phase' = OVER
    /\ winner' = w
    /\ UNCHANGED score

\* The match stops without a result.
Abandon ==
    /\ phase \in {WAITING, RUNNING}
    /\ phase' = OVER
    /\ UNCHANGED <<winner, score>>

Next ==
    \/ Start
    \/ \E t \in Teams : Score(t) \/ Win(t)
    \/ \E w \in Teams \cup {NoWinner} : Decide(w)
    \/ Abandon

Spec == Init /\ [][Next]_vars

\* Every match that starts is over some day.
Ends == (phase = RUNNING) ~> (phase = OVER)

====
