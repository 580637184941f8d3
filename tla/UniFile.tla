------------------------------ MODULE UniFile -------------------------------
(***************************************************************************)
(* The laptimer's own files and their decoder (uni_format.py), as far as   *)
(* it gives time and laps to what was recorded: how the byte stream falls  *)
(* into records, which of them are GPS fixes, when the others were         *)
(* written, and where the kart crossed the line.  The decoded rows go into *)
(* the same split_sessions and lap_table as an Analyser export (Laps).     *)
(*                                                                         *)
(* The device and the kart are external.  A position is a distance along   *)
(* the lap, from the gate; time is counted in fixes.                       *)
(***************************************************************************)
EXTENDS Laps

CONSTANTS
    FixLen,      \* _GPS_FIX_RECLEN, which alone makes a record a GPS fix
    EventLens,   \* lengths of the other records that are decoded
    OtherLens,   \* lengths of those that are not
    Cuts,        \* where the marker's two bytes may occur inside a body
    FixTime,     \* _GPS_FIX_INTERVAL_NS
    MinFixes,    \* no laps are looked for in fewer fixes
    Window,      \* fixes to either side that give the heading at the gate
    Radius,      \* gate_radius_m
    Straight,    \* how far along the lap it stays within Radius to the side
    Debounce,    \* min_lap_time_s, in fixes
    Round,       \* the length of a lap
    Speeds,      \* distance between two fixes, near the gate
    Pit,         \* where the kart joins the track
    Noise,       \* how far a position may be off, at the gate
    MaxFixes, MaxOdd   \* bounds: the fixes in a file, and what else: records
                       \* that are no fix, or hold a marker

ASSUME UniFileConstantsOK ==
    /\ FixLen \notin EventLens \cup OtherLens
    /\ FixLen \in Nat /\ EventLens \cup OtherLens \subseteq Nat \ {0}
    /\ Cuts \subseteq 1..(FixLen - 1)
    /\ FixTime \in Nat \ {0}
    /\ {MinFixes, Window, Radius, Straight, Debounce, Round, Noise} \subseteq Nat
    /\ \A v \in Speeds : v \in 1..Radius
    /\ Noise <= Radius /\ 2 * ((Window + 1) * Radius + Noise) < Round
    /\ Radius <= Straight /\ 2 * Straight < Round
    /\ Pit \in (Radius + 1)..(Round - Radius - 1)

VARIABLES
    device,   \* what recorded: "analyser" exports rows, "laptimer" records
    file,     \* where the two marker bytes are in the laptimer's file, and what
              \* of: [off, fwd, fix, driven]
    size,     \* its length in bytes
    pos       \* the way the kart has come since the line was last counted from

laptimer == <<file, size, pos>>

-----------------------------------------------------------------------------
\* decode_uni_bytes

\* _iter_records: a record reaches to the next marker, also to one that is
\* really data; what follows the last marker is not yielded.
Records(f) ==
    IF f = <<>> THEN <<>>
    ELSE [k \in 1..(Len(f) - 1) |->
             [off |-> f[k].off, len |-> f[k + 1].off - f[k].off, rec |-> f[k]]]

IsFix(r)    == r.len = FixLen
Channel(r)  == r.len \in EventLens
Position(r) == r.rec.fwd

Fixes(f)  == LET all == Records(f) IN At(all, {k \in DOMAIN all : IsFix(all[k])})
Events(f) == LET all == Records(f) IN At(all, {k \in DOMAIN all : Channel(all[k])})

\* The way ahead is that of the fixes around the one closest to the gate.
Size(n) == IF n < 0 THEN -n ELSE n
Distance(r) == Size(Position(r))
Closest(x) == CHOOSE i \in DOMAIN x :
    /\ \A j \in DOMAIN x : Distance(x[i]) <= Distance(x[j])
    /\ \A j \in 1..(i - 1) : Distance(x[i]) < Distance(x[j])
Heading(x, i) ==
    IF Position(x[Min({Len(x), i + Window})]) >= Position(x[Max({1, i - Window})]) THEN 1 ELSE -1
Forward(x) ==
    LET heading == Heading(x, Closest(x)) IN [i \in DOMAIN x |-> heading * Position(x[i])]

\* Mutant: every change of sign is a lap.
CrossAll(cs, c) == Append(cs, c)

\* A crossing counts unless it comes too soon after the one before.  Its time,
\* between two fixes, is the fraction num/den.
Cross(cs, c) ==
    IF cs = <<>> \/ c.num * Last(cs).den - Last(cs).num * c.den >= Debounce * c.den * Last(cs).den
    THEN Append(cs, c) ELSE cs

\* From before the gate to past it, on its straight.
Passed(fwd) == {i \in 2..Len(fwd) : fwd[i - 1] < 0 /\ fwd[i] >= 0 /\ fwd[i] <= Straight}
Crossing(fwd, i) ==
    LET d == fwd[i] - fwd[i - 1] IN [fix |-> i, num |-> (i - 2) * d - fwd[i - 1], den |-> d]
Crossings(fwd, passed) ==
    LET upto[i \in 0..Len(fwd)] ==
            IF i = 0 THEN <<>>
            ELSE IF i \in passed THEN Cross(upto[i - 1], Crossing(fwd, i)) ELSE upto[i - 1]
    IN  upto[Len(fwd)]

\* _detect_lap_numbers: the lap of a fix is the number of crossings up to it.
Laps(x, crossings) ==
    [i \in DOMAIN x |-> Cardinality({k \in DOMAIN crossings : crossings[k].fix <= i})]
LapNumbersOf(x) ==
    IF Len(x) < MinFixes \/ \A i \in DOMAIN x : Distance(x[i]) > Radius
    THEN [i \in DOMAIN x |-> 0]
    ELSE Laps(x, Crossings(Forward(x), Passed(Forward(x))))

\* Fixes are one FixTime apart; what lies between two is placed by its bytes.
Elapsed(x, e) ==
    LET before == {i \in DOMAIN x : x[i].off <= e.off}
        k == Max(before)
    IN  IF before = {} THEN 0
        ELSE IF k = Len(x) THEN (k - 1) * FixTime
        ELSE (k - 1) * FixTime + (FixTime * (e.off - x[k].off)) \div (x[k + 1].off - x[k].off)

\* Mutant of FixBefore: the fix an event is closest to.
FixNearest(x, elapsed) == Min({Len(x), (elapsed + FixTime \div 2) \div FixTime + 1})

\* The fix an event has its lap from.
FixBefore(x, elapsed) == Min({Len(x), elapsed \div FixTime + 1})

\* The rows of the table, in the order of their times.
Clock(laps, t, l) == t - (Min({i \in DOMAIN laps : laps[i] = l}) - 1) * FixTime
RowAt(laps, t, i) == [at |-> t, lap |-> laps[i], clock |-> Clock(laps, t, laps[i])]
EventRow(x, laps, t) == RowAt(laps, t, FixBefore(x, t))
TableOf(x, laps, events) ==
    IF x = <<>> THEN <<>>
    ELSE Sorted([i \in DOMAIN x |-> RowAt(laps, (i - 1) * FixTime, i)]
                \o [k \in DOMAIN events |-> EventRow(x, laps, Elapsed(x, events[k]))])
Decode(f) == TableOf(Fixes(f), LapNumbersOf(Fixes(f)), Events(f))

-----------------------------------------------------------------------------
\* The kart, and the device.

FixCount == Cardinality({i \in DOMAIN file : file[i].fix})
OddCount == Cardinality({i \in DOMAIN file : ~file[i].fix})

\* The position seen from the gate: negative before it.
Seen(p) == LET q == p % Round IN IF 2 * q > Round THEN q - Round ELSE q

\* The kart drives on and its position is recorded, a little off at the gate.
Drive ==
    /\ FixCount < MaxFixes
    /\ \E v \in IF Size(Seen(pos)) <= Radius THEN Speeds ELSE {Radius} :
         /\ pos' = pos + v
         /\ \E n \in IF Size(Seen(pos')) <= Noise THEN -Noise..Noise ELSE {0},
               c \in IF OddCount < MaxOdd THEN Cuts \cup {0} ELSE {0} :
              LET m == [off |-> size, fwd |-> Seen(pos') + n, fix |-> TRUE,
                        driven |-> pos' \div Round]
              IN  file' = file \o IF c = 0 THEN <<m>>
                                  ELSE <<m, [m EXCEPT !.off = size + c, !.fix = FALSE]>>
    /\ size' = size + FixLen

\* Another record, between two fixes.
RecordEvent ==
    /\ OddCount < MaxOdd
    /\ \E l \in EventLens \cup OtherLens : size' = size + l
    /\ file' = Append(file, [off |-> size, fwd |-> 0, fix |-> FALSE, driven |-> pos \div Round])
    /\ UNCHANGED pos

RecordingInit ==
    /\ device \in {"analyser", "laptimer"}
    /\ LoggerInit
    /\ file = <<>> /\ size = 0 /\ pos = Pit

RecordingNext ==
    \/ device = "analyser" /\ LoggerNext /\ UNCHANGED <<device, laptimer>>
    \/ device = "laptimer" /\ (Drive \/ RecordEvent) /\ UNCHANGED <<device, logger>>

RecordingSpec == RecordingInit /\ [][RecordingNext]_<<device, laptimer, logger>>

-----------------------------------------------------------------------------
\* Properties.

\* Decoded rows are a recording: one session for split_sessions, the lap number
\* never goes back or skips one, and the lap's time starts from zero with each
\* lap and never runs backwards in it, whatever records are lost or misread.
Forwards(t) ==
    t # <<>> =>
      /\ SplitSessions(t) = {t}
      /\ \A i \in DOMAIN t :
            /\ t[i].clock >= 0
            /\ i > 1 => /\ t[i].lap \in t[i - 1].lap..(t[i - 1].lap + 1)
                        /\ IF t[i].lap = t[i - 1].lap THEN t[i].clock >= t[i - 1].clock
                           ELSE t[i].clock = 0

\* Every number with at least MinRun rows is one lap of lap_table, and no other
\* is, unless none has so many.
ShowsLongLaps(t) ==
    LET numbers == {t[i].lap : i \in DOMAIN t}
        long    == {n \in numbers : Cardinality({i \in DOMAIN t : t[i].lap = n}) >= MinRun}
        shown   == {e.lap_number : e \in LapTable(t)}
    IN  /\ shown = IF long = {} THEN numbers ELSE long
        /\ Cardinality(LapTable(t)) = Cardinality(shown)

\* What was decoded is a recording whose laps lap_table shows.
RowsRunForward == Forwards(Decode(file)) /\ ShowsLongLaps(Decode(file))

\* The laps driven are found by their crossings of the gate, each once, with
\* positions that waver on the line and a fix that is lost: a fix clear of the
\* line has the lap it was driven in, lap_table shows every lap that has MinRun
\* of them and no lap that was not driven, and a lap's time is that of its
\* fixes, give or take what is lost and one at either end.
ClearOf(x, l) == {i \in DOMAIN x : x[i].rec.driven = l /\ Distance(x[i]) > 2 * Noise}
Agree(x, laps, table) ==
    LET driven(l) == {i \in DOMAIN file : file[i].fix /\ file[i].driven = l}
        shown == {e.lap_number : e \in table}
    IN  Len(x) >= MinFixes =>
          /\ \A l \in 0..(pos \div Round) : \A i \in ClearOf(x, l) : laps[i] = l
          /\ {l \in 0..(pos \div Round) : Cardinality(ClearOf(x, l)) >= MinRun} \subseteq shown
          /\ shown \subseteq 0..(pos \div Round)
          /\ \A e \in table :
                LET n == Cardinality(driven(e.lap_number))
                IN e.lap_time >= (n - 3 - MaxOdd) * FixTime /\ e.lap_time < (n + 2) * FixTime
LapsCounted == Agree(Fixes(file), LapNumbersOf(Fixes(file)), LapTable(Decode(file)))

=============================================================================
