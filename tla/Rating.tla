------------------------------- MODULE Rating -------------------------------
(***************************************************************************)
(* The rating batch (telemetry/rating/engine.py): five phases over the     *)
(* library, each a transaction of its own, run after uploads and nightly.  *)
(* An action is one read or one commit; uploads and changes of visibility  *)
(* come in between.                                                        *)
(*                                                                         *)
(* A rating number is not computed.  What matters of mu is whose results   *)
(* it contains: a rating is the set of sessions that moved it.  Of sigma   *)
(* it is how many full and how many reduced shrinks it went through.  A    *)
(* session has one lap, the one that gives it its pace.                    *)
(***************************************************************************)
EXTENDS Integers, FiniteSets, Validity, Streaks, Functions

CONSTANTS
    Sessions,      \* numbers: session ids, in order of insertion
    Drivers,
    Early,         \* sessions in the library before the first batch
    Row,           \* [Sessions -> row: driver, start date, track, conditions,
                   \*  class, lap]
    Undated,       \* a start date in no known format
    MinOthers,     \* config.min_cohort_others
    MinReference,  \* config.reference_min_sessions
    TopN,          \* config.reference_top_n
    MinPerWeek,    \* config.streak_min_sessions_per_week
    MinBonus,      \* config.midweek_bonus_min_sessions
    Batches,       \* processes that run the batch
    MaxFails,      \* bound: phases that fail
    MaxToggles     \* bound: changes of visibility

ASSUME RatingConstantsOK ==
    /\ IsFiniteSet(Sessions) /\ Sessions = 1..Cardinality(Sessions)
    /\ Early \subseteq Sessions
    /\ DOMAIN Row = Sessions
    /\ \A s \in Sessions : Row[s].driver \in Drivers
    /\ Undated \notin Nat
    /\ {MinOthers, MinReference, TopN, MinPerWeek, MinBonus} \subseteq Nat \ {0}
    /\ MaxFails \in Nat /\ MaxToggles \in Nat

\* _parse_session_date: devices write the date in either of two formats.
ParseSessionDate(raw) ==
    IF raw.format \in {"day first", "year first"} THEN raw.day ELSE Undated

DriverOf == [s \in Sessions |-> Row[s].driver]
Day      == [s \in Sessions |-> ParseSessionDate(Row[s].start)]
Field    == [s \in Sessions |-> <<Row[s].track, Row[s].conditions, Row[s].class>>]

\* A date that parses is a number of days.
ASSUME DatesOK == \A s \in Sessions : Day[s] \in Nat \cup {Undated}

Tracks == {Row[s].track : s \in Sessions}
Fields == {Field[s] : s \in Sessions}
Weeks  == {WeekOf(Day[s]) : s \in {t \in Sessions : Day[t] # Undated}}

VARIABLES
    stored,     \* sessions in the library
    shared,     \* those public-eligible: shared, confirmed, driver claimed
    validity,   \* [Sessions -> "unchecked", "verified", "flagged" or "excluded"]
    line,       \* [Tracks -> reference line, or NoLine]
    bucket,     \* [Fields -> sample_session_count, 0 for no row]
    rating,     \* [Drivers -> row of driver_ratings]
    history,    \* rows of driver_rating_history, by session
    weekly,     \* [Drivers -> rows of driver_weekly_activity, by week:
                \*  how many sessions, and whether they earn the badge]
    streak,     \* [Drivers -> row of driver_streaks]
    pc,         \* [Batches -> where a batch is]
    seen,       \* [Batches -> what its reads returned]
    fails, toggles

vars == <<stored, shared, validity, line, bucket, rating, history, weekly,
          streak, pc, seen, fails, toggles>>

library == <<stored, shared, validity>>

\* mu and sigma, abstracted as said above.
State(mu, full, part) == [mu |-> mu, full |-> full, part |-> part]
Unrated == State({}, 0, 0)
StateOf(r) == State(r.mu, r.full, r.part)

NoReads == [verdict |-> <<>>, paces |-> {}, rated |-> {}, ratings |-> <<>>,
            buckets |-> <<>>]

Init ==
    /\ stored = Early /\ shared = Early
    /\ validity = [s \in Sessions |-> "unchecked"]
    /\ line = [t \in Tracks |-> NoLine]
    /\ bucket = [f \in Fields |-> 0]
    /\ rating = [d \in Drivers |-> [mu |-> {}, full |-> 0, part |-> 0, count |-> 0]]
    /\ history = <<>>
    /\ weekly = [d \in Drivers |-> <<>>]
    /\ streak = [d \in Drivers |-> NoStreak]
    /\ pc = [b \in Batches |-> "idle"]
    /\ seen = [b \in Batches |-> NoReads]
    /\ fails = 0 /\ toggles = 0

-----------------------------------------------------------------------------
(* The library, meanwhile. *)

Upload(s) ==
    /\ s \notin stored
    /\ stored' = stored \cup {s} /\ shared' = shared \cup {s}
    /\ UNCHANGED <<validity, line, bucket, rating, history, weekly, streak, pc,
                   seen, fails, toggles>>

Toggle(s) ==
    /\ s \in stored /\ toggles < MaxToggles
    /\ shared' = IF s \in shared THEN shared \ {s} ELSE shared \cup {s}
    /\ toggles' = toggles + 1
    /\ UNCHANGED <<stored, validity, line, bucket, rating, history, weekly,
                   streak, pc, seen, fails>>

-----------------------------------------------------------------------------
(* What the batch reads and computes. *)

\* _load_session_paces: the sessions a rating may see, with a date that parses.
Paces == {s \in shared : validity[s] = "verified" /\ Day[s] # Undated}

\* One field that day: same track, date, conditions and class.
Cohort(s, paces) == {t \in paces : Day[t] = Day[s] /\ Field[t] = Field[s]}

\* How many of its driver's sessions of that week come before a session, over
\* all of history: the first one has full weight.
IndexInWeek(s, paces) ==
    Cardinality({t \in paces :
        /\ DriverOf[t] = DriverOf[s] /\ WeekOf(Day[t]) = WeekOf(Day[s])
        /\ Day[t] < Day[s] \/ (Day[t] = Day[s] /\ t < s)})

FullWeight(s, paces) == HasFullWeight(IndexInWeek(s, paces))

\* A cohort large enough is a field, else the historical reference stands in.
IsField(C) == Cardinality(C) - 1 >= MinOthers
CanRate(s, paces, buckets) ==
    IsField(Cohort(s, paces)) \/ buckets[Field[s]] # 0

\* Mutant: a day with a rated session is done with.
NewOfNewDays(read) ==
    {s \in read.paces \ read.rated :
        /\ CanRate(s, read.paces, read.buckets)
        /\ ~ \E t \in read.rated : Day[t] = Day[s]}

\* The sessions a walk rates: not rated before, and there is something to
\* compare them with.
New(read) ==
    {s \in read.paces \ read.rated : CanRate(s, read.paces, read.buckets)}

\* Cohorts are walked by date, those of one day one after the other.
Precedes(s, t) == Day[s] < Day[t] \/ (Day[s] = Day[t] /\ Field[s] # Field[t] /\ s < t)

\* Of a driver's sessions in one cohort the last one's result stands.
Stands(s, new) ==
    ~ \E t \in new : /\ DriverOf[t] = DriverOf[s] /\ s < t
                     /\ Day[t] = Day[s] /\ Field[t] = Field[s]

\* A rating that has also been moved by the sessions S, each with its weight.
Moved(old, S, paces) ==
    LET full == {s \in S : FullWeight(s, paces)}
    IN State(old.mu \cup S, old.full + Cardinality(full),
             old.part + Cardinality(S \ full))

\* A session against everyone else's of its field that day,
FieldBasedUpdate(s, before, paces) ==
    [mechanism |-> "field", size |-> Cardinality(Cohort(s, paces)),
     before |-> before, after |-> Moved(before, {s}, paces)]

\* or alone against the historical reference.
ReferenceBasedUpdate(s, before, paces) ==
    [mechanism |-> "reference", size |-> 0,
     before |-> before, after |-> Moved(before, {s}, paces)]

\* The walk: each new session starts from its driver's rating after the
\* cohorts before, and moves it.
Rows(read) ==
    LET new == New(read)
        behind(s) == {t \in new : /\ DriverOf[t] = DriverOf[s] /\ Precedes(t, s)
                                  /\ Stands(t, new)}
        before(s) == Moved(read.ratings[DriverOf[s]], behind(s), read.paces)
    IN [s \in new |->
          IF IsField(Cohort(s, read.paces))
          THEN FieldBasedUpdate(s, before(s), read.paces)
          ELSE ReferenceBasedUpdate(s, before(s), read.paces)]

-----------------------------------------------------------------------------
(* The batch, phase by phase. *)

Goto(b, l) == pc' = [pc EXCEPT ![b] = l]
Read(b, field, value) == seen' = [seen EXCEPT ![b][field] = value]

\* The laps a line and a floor are computed from: neither an outlier nor
\* taken out by the driver, whatever the gate said of them.
Clean(wanted) ==
    SelectSeq([s \in Sessions |-> s],
              LAMBDA s : s \in wanted /\ ~ Row[s].lap.outlier /\ ~ Row[s].lap.withdrawn)

LineFrom[laps \in Seq(Sessions)] ==
    BuildReferenceLine[[i \in DOMAIN laps |-> Resample[Row[laps[i]].lap.path]]]
FloorFrom[laps \in Seq(Sessions)] ==
    ImplausibleFloor([i \in DOMAIN laps |-> Row[laps[i]].lap.time])

\* rebuild_track_reference_lines: with too few laps the old line stays.
RebuildLines(b) ==
    /\ pc[b] = "idle"
    /\ LET laps(t) == Clean({s \in stored : Row[s].track = t /\ Row[s].lap.path # <<>>})
           built(t) == LineFrom[laps(t)]
       IN line' = [t \in Tracks |-> IF built(t) # NoLine THEN built(t) ELSE line[t]]
    /\ Goto(b, "gate")
    /\ UNCHANGED <<library, bucket, rating, history, weekly, streak, seen,
                   fails, toggles>>

\* _implausible_floors, of a track and class.
FloorOf(s) ==
    FloorFrom[Clean({t \in stored : /\ Row[t].track = Row[s].track
                                    /\ Row[t].class = Row[s].class})]

Classify(s) == ClassifyLap(Row[s].lap, FloorOf(s), line[Row[s].track])

\* run_validity_gate reads and classifies, every lap with --recheck-all,
GateRead(b) ==
    /\ pc[b] = "gate"
    /\ \E recheck \in BOOLEAN :
        Read(b, "verdict",
             [s \in {t \in stored : recheck \/ validity[t] = "unchecked"} |-> Classify(s)])
    /\ Goto(b, "gated")
    /\ UNCHANGED <<library, line, bucket, rating, history, weekly, streak,
                   fails, toggles>>

\* and writes the verdicts.
GateWrite(b) ==
    /\ pc[b] = "gated"
    /\ validity' = seen[b].verdict @@ validity
    /\ Read(b, "verdict", <<>>)
    /\ Goto(b, "references")
    /\ UNCHANGED <<stored, shared, line, bucket, rating, history, weekly, streak,
                   fails, toggles>>

\* compute_reference_bucket: the median of the fastest few, of a sample that
\* is large enough.
ReferenceBucket(sample) ==
    IF sample < MinReference THEN 0 ELSE IF sample < TopN THEN sample ELSE TopN

\* rebuild_pace_references: a bucket with too few sessions keeps its old row.
RebuildReferences(b) ==
    /\ pc[b] = "references"
    /\ LET new(f) == ReferenceBucket(Cardinality({s \in Paces : Field[s] = f}))
       IN bucket' = [f \in Fields |-> IF new(f) # 0 THEN new(f) ELSE bucket[f]]
    /\ Goto(b, "paces")
    /\ UNCHANGED <<library, line, rating, history, weekly, streak, seen, fails,
                   toggles>>

\* run_rating_updates, its reads in order: paces,
ReadPaces(b) ==
    /\ pc[b] = "paces"
    /\ Read(b, "paces", Paces)
    /\ Goto(b, "rated")
    /\ UNCHANGED <<library, line, bucket, rating, history, weekly, streak,
                   fails, toggles>>

\* Mutant: every session counts as new.
ReadNothingRated(b) ==
    /\ pc[b] = "rated"
    /\ Read(b, "rated", {})
    /\ Goto(b, "ratings")
    /\ UNCHANGED <<library, line, bucket, rating, history, weekly, streak,
                   fails, toggles>>

\* what has been rated,
ReadRated(b) ==
    /\ pc[b] = "rated"
    /\ Read(b, "rated", DOMAIN history)
    /\ Goto(b, "ratings")
    /\ UNCHANGED <<library, line, bucket, rating, history, weekly, streak,
                   fails, toggles>>

\* ratings and references.
ReadRatings(b) ==
    /\ pc[b] = "ratings"
    /\ seen' = [seen EXCEPT ![b].ratings = [d \in Drivers |-> StateOf(rating[d])],
                            ![b].buckets = bucket]
    /\ Goto(b, "apply")
    /\ UNCHANGED <<library, line, bucket, rating, history, weekly, streak,
                   fails, toggles>>

\* INSERT ... ON CONFLICT DO NOTHING.
Inserted(table, rows) ==
    [s \in DOMAIN table \cup DOMAIN rows |->
        IF s \in DOMAIN table THEN table[s] ELSE rows[s]]

\* The writes, one transaction: a history row that is there stays as it is,
\* a rating is overwritten and its count raised.
Apply(b) ==
    LET read == seen[b]
        new == New(read)
        mine(d) == {s \in new : DriverOf[s] = d}
        stands(d) == {s \in mine(d) : Stands(s, new)}
        moved(d) == Moved(read.ratings[d], stands(d), read.paces)
    IN /\ pc[b] = "apply"
       /\ history' = Inserted(history, Rows(read))
       /\ rating' = [d \in Drivers |->
             IF mine(d) = {} THEN rating[d]
             ELSE [mu |-> moved(d).mu, full |-> moved(d).full, part |-> moved(d).part,
                   count |-> rating[d].count + Cardinality(mine(d))]]
       /\ seen' = [seen EXCEPT ![b] = NoReads]
       /\ Goto(b, "streaks")
       /\ UNCHANGED <<library, line, bucket, weekly, streak, fails, toggles>>

\* How many sessions of d there are to each week.
PerWeek(d, paces) ==
    LET mine == {s \in paces : DriverOf[s] = d}
    IN [w \in {WeekOf(Day[s]) : s \in mine} |->
            Cardinality({s \in mine : WeekOf(Day[s]) = w})]

\* The rows of driver_weekly_activity for these weeks.
Activity(count) ==
    [w \in DOMAIN count |-> [sessions |-> count[w],
                            badge |-> w \in MidweekBonusWeeks(count, MinBonus)]]

\* Mutant: activity follows the ratings instead of the sessions.
RebuildStreaksOfRated(b) ==
    /\ pc[b] = "streaks"
    /\ LET count(d) == PerWeek(d, Paces \cap DOMAIN history)
           new(d) == ComputeStreak(QualifyingWeeks(count(d), MinPerWeek))
       IN /\ weekly' = [d \in Drivers |-> Activity(count(d)) @@ weekly[d]]
          /\ streak' = [d \in Drivers |-> IF DOMAIN count(d) = {} THEN streak[d]
                ELSE [new(d) EXCEPT !.longest = Bigger(@, streak[d].longest)]]
    /\ Goto(b, "idle")
    /\ UNCHANGED <<library, line, bucket, rating, history, seen, fails, toggles>>

\* rebuild_streaks: of every driver with a session to show; rows of weeks
\* without one are left as they are, and the longest streak never shrinks.
RebuildStreaks(b) ==
    /\ pc[b] = "streaks"
    /\ LET count(d) == PerWeek(d, Paces)
           new(d) == ComputeStreak(QualifyingWeeks(count(d), MinPerWeek))
       IN /\ weekly' = [d \in Drivers |-> Activity(count(d)) @@ weekly[d]]
          /\ streak' = [d \in Drivers |-> IF DOMAIN count(d) = {} THEN streak[d]
                ELSE [new(d) EXCEPT !.longest = Bigger(@, streak[d].longest)]]
    /\ Goto(b, "idle")
    /\ UNCHANGED <<library, line, bucket, rating, history, seen, fails, toggles>>

\* A phase raises, or the process dies: its transaction is rolled back, and the
\* next pass, of the worker (_recompute_ratings_best_effort) or of
\* compute_ratings --loop, starts over from the first phase.
Fail(b) ==
    /\ pc[b] # "idle" /\ fails < MaxFails
    /\ fails' = fails + 1
    /\ seen' = [seen EXCEPT ![b] = NoReads]
    /\ Goto(b, "idle")
    /\ UNCHANGED <<library, line, bucket, rating, history, weekly, streak, toggles>>

\* run_rating_batch: the phases, in the one order that is correct.
RunBatch(b) ==
    \/ RebuildLines(b) \/ GateRead(b) \/ GateWrite(b) \/ RebuildReferences(b)
    \/ ReadPaces(b) \/ ReadRated(b) \/ ReadRatings(b) \/ Apply(b)
    \/ RebuildStreaks(b)

Next ==
    \/ \E s \in Sessions : Upload(s) \/ Toggle(s)
    \/ \E b \in Batches : RunBatch(b) \/ Fail(b)

Spec == Init /\ [][Next]_vars

\* The loop of scripts/compute_ratings.py keeps running the batch.  (A batch can
\* always go on, so that weak fairness of RunBatch says just this.)
FairSpec == Spec /\ \A b \in Batches : []<><<RunBatch(b)>>_vars

-----------------------------------------------------------------------------
(* Properties *)

\* The sessions a driver has been rated for.
RatedOf(d) == {s \in DOMAIN history : DriverOf[s] = d}

\* A driver who never has two sessions in one field.
SinglePerField(d) ==
    \A s, t \in Sessions :
        (DriverOf[s] = d /\ DriverOf[t] = d /\ s # t)
            => (Day[s] # Day[t] \/ Field[s] # Field[t])

\* driver_ratings and driver_rating_history, written by upsert and by insert,
\* agree: the rating contains every session of the history and no other,
\* the count is their number, and the history explains it step by step: each
\* row starts where another ended.  Through failures of any phase, late
\* uploads and changes of visibility.  (A driver with two sessions in one
\* field is left out: both start from one rating and the later one stands.)
EachSessionCountsOnce ==
    \A d \in Drivers : SinglePerField(d) =>
        /\ rating[d].mu = RatedOf(d)
        /\ rating[d].count = Cardinality(RatedOf(d))
        /\ rating[d].full + rating[d].part = Cardinality(RatedOf(d))
        /\ \A s \in RatedOf(d) :
              \/ history[s].before = Unrated
              \/ \E t \in RatedOf(d) : history[t].after = history[s].before

\* A session can be rated as things stand: public, verified, and with a field
\* that day or a historical reference.
Rateable(s) ==
    s \in Paces /\ CanRate(s, Paces, bucket)

\* A session that stays rateable is rated in the end: also one of a day that
\* was walked before and had no field then, and after failing phases.
RatedInTheEnd ==
    \A s \in Sessions : (<>[]Rateable(s)) => <>(s \in DOMAIN history)

\* Activity and streaks come to agree with the sessions there are, although
\* they commit after the ratings do and the batch may fail in between.
StreaksSettle ==
    <>[](\A d \in Drivers :
            LET count == PerWeek(d, Paces)
                due   == ComputeStreak(QualifyingWeeks(count, MinPerWeek))
            IN DOMAIN count # {} =>
                  /\ \A w \in DOMAIN count : w \in DOMAIN weekly[d] /\ weekly[d][w] = Activity(count)[w]
                  /\ streak[d].current = due.current /\ streak[d].last = due.last
                  /\ streak[d].freezes = due.freezes /\ streak[d].longest >= due.longest)
=============================================================================
