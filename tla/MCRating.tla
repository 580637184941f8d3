------------------------------ MODULE MCRating ------------------------------
(***************************************************************************)
(* Instances of Rating for TLC: who drove when, and against whom.          *)
(***************************************************************************)
EXTENDS Rating

CONSTANTS ann, ben, cid

\* A lap of three points, the last two of which are a corner.  Laps of one
\* line may differ in length and in one bad fix.
Path(length, offsets) == [i \in 1..3 |-> [at |-> (i - 1) * length, off |-> offsets[i]]]
Racing(length) == Path(length, <<0, 0, 0>>)
BadFix(length) == Path(length, <<0, 9, 0>>)
Cutting(length) == Path(length, <<0, 9, 9>>)

Lap(time, path, speed, braking) ==
    [outlier |-> FALSE, withdrawn |-> FALSE, time |-> time, path |-> path,
     speed |-> speed, braking |-> braking]
Steady(time, path) == Lap(time, path, <<80, 70, 60>>, <<FALSE, TRUE, TRUE>>)
Braked(time, path) == Lap(time, path, <<80, 45, 60>>, <<FALSE, TRUE, FALSE>>)
InLap(time)        == [Lap(time, <<>>, <<>>, <<>>) EXCEPT !.outlier = TRUE]

Session(driver, format, day, conditions, lap) ==
    [driver |-> driver, start |-> [format |-> format, day |-> day], track |-> "track",
     conditions |-> conditions, class |-> "class", lap |-> lap]

\* Three drivers meet on day 0 in the dry, two of them drive alone later:
\* ann in the same week and conditions, ben two weeks on with a lap that is
\* held for review once the track has a line; cid's second session has no
\* usable date and no lap that counts.
SeasonSessions == 1..6
Season == <<
    Session(ann, "day first",  0, "dry", Steady(60, Racing(100))),
    Session(ben, "year first", 0, "dry", Braked(62, BadFix(102))),
    Session(cid, "day first",  0, "dry", Steady(64, Racing(101))),
    Session(ann, "day first",  3, "dry", Steady(61, Racing(100))),
    Session(ben, "day first", 15, "dry", Steady(63, Cutting(90))),
    Session(cid, "other",      3, "wet", InLap(90)) >>
=============================================================================
