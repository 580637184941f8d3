------------------------------ MODULE Validity ------------------------------
(***************************************************************************)
(* The validity gate of one lap (telemetry/rating/validity.py).            *)
(*                                                                         *)
(* A lap's path is a sequence of points: how far into the lap, increasing, *)
(* and how far across the track, both in whole metres; a lap without       *)
(* positions has an empty path.  Its speed and its braking are sequences   *)
(* over its samples.                                                       *)
(***************************************************************************)
EXTENDS Integers, Sequences, FiniteSets, SequencesExt

CONSTANTS
    LinePoints,     \* config.reference_line_points
    MinLine,        \* config.reference_line_min_laps
    ToleranceFloor, \* config.reference_line_tolerance_floor_m
    ToleranceK,     \* config.reference_line_tolerance_k
    MinOffending,   \* config.track_cut_min_offending_points
    MinSample,      \* config.implausible_floor_min_sample
    SpeedDrop       \* config.speed_drop_threshold_kmh

ASSUME ValidityConfigOK ==
    /\ LinePoints \in Nat \ {0, 1}
    /\ {MinLine, MinOffending, MinSample} \subseteq Nat \ {0}
    /\ {ToleranceFloor, ToleranceK, SpeedDrop} \subseteq Nat

\* No corridor, no floor: too few laps.
NoLine  == <<>>
NoFloor == 0

\* The middle value, or the mean of the two, in whole units.
Median[values \in Seq(Int)] ==
    LET n == Len(values)
        below(v) == Cardinality({i \in 1..n : values[i] < v})
        upto(v) == Cardinality({i \in 1..n : values[i] <= v})
        ranked(k) == CHOOSE v \in Range(values) : below(v) < k /\ k <= upto(v)
    IN (ranked((n + 1) \div 2) + ranked(n \div 2 + 1)) \div 2

Apart(a, b) == IF a > b THEN a - b ELSE b - a

\* How far each value is from a middle.
Deviations[values \in Seq(Int), middle \in Int] ==
    [i \in DOMAIN values |-> Apart(values[i], middle)]

\* Median of the deviations from the median deviation, and at least a floor:
\* one value that is far off makes no difference.
Tolerance[deviations \in Seq(Int)] ==
    LET wide == ToleranceK * Median[Deviations[deviations, Median[deviations]]]
    IN IF wide > ToleranceFloor THEN wide ELSE ToleranceFloor

\* The path at a distance into the lap, between two points on their chord.
OffsetAt(path, x) ==
    LET k == CHOOSE i \in 1..Len(path) - 1 : path[i].at <= x /\ x <= path[i + 1].at
    IN path[k].off + ((x - path[k].at) * (path[k + 1].off - path[k].off))
                        \div (path[k + 1].at - path[k].at)

\* Offsets at equal fractions of the lap, so that laps of different lengths
\* compare.
Point == [at : Int, off : Int]
Resample[path \in Seq(Point)] ==
    LET start == path[1].at
        total == path[Len(path)].at - start
    IN [i \in 1..LinePoints |->
           OffsetAt(path, start + ((i - 1) * total) \div (LinePoints - 1))]

\* The corridor of many laps, resampled: the median path, and a tolerance at
\* each of its points.
BuildReferenceLine[lines \in Seq(Seq(Int))] ==
    IF Len(lines) < MinLine THEN NoLine
    ELSE LET across(i) == [p \in DOMAIN lines |-> lines[p][i]]
             middle == [i \in 1..LinePoints |-> Median[across(i)]]
         IN [i \in 1..LinePoints |->
                [off |-> middle[i],
                 tolerance |-> Tolerance[Deviations[across(i), middle[i]]]]]

\* A cut displaces a run of points; a single one is a stray fix.
IsCut(path, line) ==
    LET own == Resample[path]
    IN Cardinality({i \in 1..LinePoints : Apart(own[i], line[i].off) > line[i].tolerance})
          >= MinOffending

\* Three quarters of the median clean lap: nothing human is faster.
ImplausibleFloor(times) ==
    IF Len(times) < MinSample THEN NoFloor ELSE (Median[times] * 3) \div 4

\* A sudden loss of speed no braking explains.  A braking trace of another
\* length is no braking at all.
SpeedDropWithoutBraking(speed, braking) ==
    \E i \in 1..Len(speed) - 1 :
        /\ speed[i] - speed[i + 1] > SpeedDrop
        /\ ~ (Len(braking) = Len(speed) /\ braking[i + 1])

\* A lap that is out already stays out; one that is odd is held for review.
ClassifyLap(lap, floor, line) ==
    IF lap.outlier \/ lap.withdrawn THEN "excluded"
    ELSE IF \/ floor # NoFloor /\ lap.time < floor
            \/ lap.path # <<>> /\ line # NoLine /\ IsCut(lap.path, line)
            \/ SpeedDropWithoutBraking(lap.speed, lap.braking)
         THEN "flagged" ELSE "verified"
=============================================================================
