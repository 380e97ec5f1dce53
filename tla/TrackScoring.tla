---------------------------- MODULE TrackScoring ----------------------------
(* The behaviour, the anomaly score and the priority of one track.         *)
(*                                                                         *)
(* The classifier is evaluated when the track or a neighbour is updated,   *)
(* the anomaly accumulator when the track is.  Time passes in half-lives   *)
(* of the accumulator; scores are whole points, halved downwards.          *)
EXTENDS Integers, Sequences

CONSTANTS
    Evidence,   \* bound: the conditions an evaluation may find
    Scores      \* bound: instantaneous scores; a missing one counts like 0

VARIABLES
    mind,       \* ClassifierState: [state, pending, ticks]
    anomaly,    \* TrackAnomalyState: [score, qualifying, recovery, on]
    behind,     \* half-lives the accumulator's timestamp lies before the newest one
    priority,   \* the last assessment: [score, level]
    streak,     \* history: [of, length], the last candidate and how often in a row
    settled,    \* history: the candidate that last came EnterTicks times in a row
    above,      \* history: evaluations in a row with 60 or more
    below,      \* history: evaluations in a row with less than 40
    peak        \* history: the highest instantaneous score

vars == <<mind, anomaly, behind, priority, streak, settled, above, below, peak>>

EnterTicks == 2
EnterAnomalous == [threshold |-> 60, ticks |-> 3]
ExitAnomalous == [threshold |-> 40, ticks |-> 5]

(* Conditions in the order of precedence, and the states they stand for.   *)
Precedence == <<"RAPID_CHANGE", "ANOMALOUS", "COORDINATED", "APPROACHING", "DEPARTING",
                "LOITERING", "NORMAL">>

Candidate(found) ==
    LET S == {n \in 1..Len(Precedence) : Precedence[n] \in found \cup {"NORMAL"}}
    IN Precedence[CHOOSE n \in S : \A k \in S : n <= k]

Weight == [RAPID_CHANGE |-> 85, ANOMALOUS |-> 90, COORDINATED |-> 80, APPROACHING |-> 70,
           DEPARTING |-> 20, LOITERING |-> 50, NORMAL |-> 10]

Level(score) ==
    CASE score >= 80 -> "CRITICAL"
      [] score >= 60 -> "HIGH"
      [] score >= 30 -> "MEDIUM"
      [] OTHER -> "LOW"

(* The weighted sum, scaled by the confidence (in hundredths), in points.  *)
Score(geofence, behavior, persistent, coordination, kinematic, confidence) ==
    ((30 * geofence + 25 * behavior + 20 * persistent + 15 * coordination + 10 * kinematic)
        * (30 + (70 * confidence) \div 100)) \div 10000

Init ==
    /\ mind = [state |-> "NORMAL", pending |-> "NONE", ticks |-> 0]
    /\ anomaly = [score |-> 0, qualifying |-> 0, recovery |-> 0, on |-> FALSE]
    /\ behind = 0
    /\ priority = [score |-> 0, level |-> "LOW"]
    /\ streak = [of |-> "NONE", length |-> 0]
    /\ settled = "NORMAL"
    /\ above = 0 /\ below = 0 /\ peak = 0

(* Mutant: the count goes on when the candidate changes. *)
ClassifyAny(candidate) ==
    LET n == mind.ticks + 1
    IN mind' = IF candidate = mind.state THEN [mind EXCEPT !.pending = "NONE", !.ticks = 0]
               ELSE IF n >= EnterTicks
               THEN [state |-> candidate, pending |-> "NONE", ticks |-> 0]
               ELSE [mind EXCEPT !.pending = candidate, !.ticks = n]

Classify(candidate) ==
    LET n == IF candidate = mind.pending THEN mind.ticks + 1 ELSE 1
    IN mind' = IF candidate = mind.state THEN [mind EXCEPT !.pending = "NONE", !.ticks = 0]
               ELSE IF n >= EnterTicks
               THEN [state |-> candidate, pending |-> "NONE", ticks |-> 0]
               ELSE [mind EXCEPT !.pending = candidate, !.ticks = n]

(* dt half-lives after the last timestamp, or before it, which counts as   *)
(* none but takes the timestamp back all the same.                         *)
Decayed(score, dt) == IF dt <= 0 THEN score ELSE score \div 2
Gained(score, dt) == IF dt <= 0 THEN 0 ELSE score \div 2

Accumulate(score, dt) ==
    LET value == Decayed(anomaly.score, dt) + Gained(score, dt)
        high == value >= EnterAnomalous.threshold
        low == value < ExitAnomalous.threshold
        qualifying == IF high THEN anomaly.qualifying + 1 ELSE 0
        recovery == IF anomaly.on /\ low THEN anomaly.recovery + 1 ELSE 0
    IN anomaly' = [score |-> value,
                   qualifying |-> IF qualifying > EnterAnomalous.ticks THEN EnterAnomalous.ticks
                                  ELSE qualifying,
                   recovery |-> recovery,
                   on |-> IF anomaly.on THEN ~(low /\ recovery >= ExitAnomalous.ticks)
                          ELSE qualifying >= EnterAnomalous.ticks]

(* The store gives no geofence to the assessment, and a formation only to  *)
(* the members of a group; speed and confidence are both strong or weak.   *)
Prioritize(found, strong) ==
    LET score == Score(0, Weight[mind'.state], anomaly'.score,
                       IF "COORDINATED" \in found THEN 100 ELSE 0, strong, strong)
    IN priority' = [score |-> score, level |-> Level(score)]

Capped(n, cap) == IF n < cap THEN n + 1 ELSE cap

Follow(candidate) ==
    /\ streak' = [of |-> candidate,
                  length |-> IF candidate = streak.of THEN Capped(streak.length, EnterTicks)
                             ELSE 1]
    /\ settled' = IF streak'.length = EnterTicks THEN candidate ELSE settled

(* An observation of the track itself.  Timestamps may be out of order by  *)
(* a half-life.                                                            *)
Observe(found, score, dt, strong) ==
    /\ dt >= -1 /\ behind - dt <= 1
    /\ behind' = IF behind > dt THEN behind - dt ELSE 0
    /\ Accumulate(score, dt)
    /\ Classify(Candidate(found))
    /\ Prioritize(found, strong)
    /\ Follow(Candidate(found))
    /\ above' = IF anomaly'.score >= EnterAnomalous.threshold
                THEN Capped(above, EnterAnomalous.ticks) ELSE 0
    /\ below' = IF anomaly'.score < ExitAnomalous.threshold
                THEN Capped(below, ExitAnomalous.ticks) ELSE 0
    /\ peak' = IF score > peak THEN score ELSE peak

(* An update of a neighbour evaluates the track again. *)
Neighbour(found, strong) ==
    /\ anomaly' = anomaly
    /\ Classify(Candidate(found))
    /\ Prioritize(found, strong)
    /\ Follow(Candidate(found))
    /\ UNCHANGED <<behind, above, below, peak>>

Next ==
    \E found \in Evidence, strong \in {0, 100} :
        \/ Neighbour(found, strong)
        \/ \E score \in Scores, dt \in -1..1 : Observe(found, score, dt, strong)

Spec == Init /\ [][Next]_vars

-----------------------------------------------------------------------------
(* The state is the condition that last was found by two evaluations in a  *)
(* row, those for a neighbour's sake included, and what is pending is the  *)
(* condition of the last one.                                              *)
StateEarned ==
    /\ mind.state = settled
    /\ mind.pending # "NONE" => mind.pending = streak.of /\ mind.ticks = streak.length

(* The anomaly flag goes up after three evaluations in a row with 60 or    *)
(* more and stays until five in a row were below 40; the score never       *)
(* exceeds what was observed.                                              *)
FlagEarned ==
    /\ above = EnterAnomalous.ticks => anomaly.on
    /\ below = ExitAnomalous.ticks => ~anomaly.on
    /\ anomaly.on => anomaly.recovery = below
    /\ anomaly.score <= peak

(* No assessment of the store is CRITICAL: the geofence's share is missing *)
(* and no state it reports outweighs that.                                 *)
NeverCritical == priority.level # "CRITICAL"

ScoringSound == StateEarned /\ FlagEarned /\ NeverCritical

=============================================================================
