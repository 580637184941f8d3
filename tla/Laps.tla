-------------------------------- MODULE Laps ---------------------------------
(***************************************************************************)
(* Cutting a logger's file into sessions (split_sessions of parser.py) and *)
(* a session into laps (lap_table of laps.py).  The logger is external: it *)
(* writes rows in nearly the order of their times, now and then one that   *)
(* still carries the previous lap's number and time, and starts again from *)
(* zero when it is restarted.  The two functions are operators; after      *)
(* every row they must find what was driven.                               *)
(***************************************************************************)
EXTENDS Integers, Sequences, FiniteSets, SequencesExt

CONSTANTS
    MinRun,    \* MIN_LAP_RUN_ROWS
    MinDrop,   \* SESSION_RESET_MIN_DROP_S, in milliseconds as all times
    MaxPost,   \* SESSION_RESET_MAX_POST_VALUE_S
    Step,      \* time between two rows
    Jitter,    \* how much a row may come late
    LapTime,   \* no lap is driven faster
    MaxRows, MaxLaps, MaxRestarts   \* bounds: what one file holds

ASSUME LapsConstantsOK ==
    /\ {MinRun, MinDrop, MaxPost, Step, LapTime, MaxRows} \subseteq Nat \ {0}
    /\ MaxLaps \in Nat /\ MaxRestarts \in Nat
    /\ MinRun > 1 /\ LapTime >= (4 * MinRun - 5) * Step
       \* "any real lap, even a very short one, spans far more rows than this"
    /\ Jitter \in 1..(Step - 1) /\ Jitter <= MinDrop

VARIABLES
    rows,     \* the file: [at, lap, clock], and what they are of: run, driven
    run,      \* the session the logger is in, from 0
    now,      \* its Session Time
    lap,      \* its Lap Number
    clock,    \* its Lap Time
    whole,    \* rows of this lap since the last stray one, at most MinRun
    stray,    \* stray rows in this lap
    times     \* lap times driven and shown: the last clock of each run and lap

logger == <<rows, run, now, lap, clock, whole, stray, times>>

Runs       == 0..MaxRestarts
LapNumbers == 0..MaxLaps

LoggerInit ==
    /\ rows = <<>>
    /\ run = 0 /\ now = 0 /\ lap = 0 /\ clock = 0
    /\ whole = 0 /\ stray = 0
    /\ times = [r \in Runs |-> [n \in LapNumbers |-> 0]]

\* What a sequence has at some of its positions, in order.
At(s, is) ==
    LET upto[i \in 0..Len(s)] ==
            IF i = 0 THEN <<>> ELSE IF i \in is THEN Append(upto[i - 1], s[i]) ELSE upto[i - 1]
    IN  upto[Len(s)]

-----------------------------------------------------------------------------
\* split_sessions.

\* Mutant of Boundary: any step back in time is a restart.
BoundaryAtAnyDrop(f, i) == i = 1 \/ f[i].at < f[i - 1].at

\* Where a session starts: the time drops by more than MinDrop, to near zero.
Boundary(f, i) == i = 1 \/ (f[i - 1].at - f[i].at > MinDrop /\ f[i].at < MaxPost)

SplitSessions(f) ==
    LET starts == {i \in DOMAIN f : Boundary(f, i)}
        end(s) == Min({i \in starts : i > s} \cup {Len(f) + 1}) - 1
    IN  {SubSeq(f, s, end(s)) : s \in starts}

-----------------------------------------------------------------------------
\* lap_table.

\* The stable sort by session_time_s: after those that are no later.
Insert(s, e) == InsertAt(s, Cardinality({i \in DOMAIN s : s[i].at <= e.at}) + 1, e)
Sorted(f) ==
    LET upto[i \in 0..Len(f)] == IF i = 0 THEN <<>> ELSE Insert(upto[i - 1], f[i])
    IN  upto[Len(f)]

\* Raw runs of one lap number, by their first row.
RunStarts(s) == {i \in DOMAIN s : i = 1 \/ s[i].lap # s[i - 1].lap}
RunSize(s, i) == Min({j \in RunStarts(s) : j > i} \cup {Len(s) + 1}) - i
Real(s) == {i \in RunStarts(s) : RunSize(s, i) >= MinRun}

\* Mutant of Resolved: noise is given the number of the next real run.
ResolvedAhead(s, real, i) ==
    LET after == {j \in real : j >= i}
    IN  IF after # {} THEN s[Min(after)].lap
        ELSE IF real # {} THEN s[Max(real)].lap
        ELSE s[i].lap

\* The number a run goes by: its own if it is real, else that of the real run
\* before it, or of the first real run.
Resolved(s, real, i) ==
    LET before == {j \in real : j <= i}
    IN  IF before # {} THEN s[Max(before)].lap
        ELSE IF real # {} THEN s[Min(real)].lap
        ELSE s[i].lap

\* The most frequent raw number of a lap's rows, the smaller of two.
Mode(s, is) ==
    LET count(n) == Cardinality({i \in is : s[i].lap = n})
        numbers  == {s[i].lap : i \in is}
    IN  Min({n \in numbers : \A k \in numbers : count(k) <= count(n)})

\* Adjacent runs with one resolved number are one lap.
LapTable(f) ==
    LET s    == Sorted(f)
        real == Real(s)
        runs == RunStarts(s)
        prev(i)  == Max({j \in runs : j < i})
        firsts   == {i \in runs : i = 1 \/ Resolved(s, real, i) # Resolved(s, real, prev(i))}
        last(i)  == Min({j \in firsts : j > i} \cup {Len(s) + 1}) - 1
    IN  {[lap_number |-> Mode(s, i..last(i)),
          lap_time   |-> Max({s[j].clock : j \in i..last(i)}),
          start      |-> s[i].at,
          n_rows     |-> last(i) - i + 1] : i \in firsts}

-----------------------------------------------------------------------------
\* The logger.

Append1(r) == rows' = Append(rows, r)
Full == Len(rows) >= MaxRows

\* A row of the current lap.
Write ==
    /\ ~Full
    /\ Append1([at |-> now, lap |-> lap, clock |-> clock, run |-> run, driven |-> lap])
    /\ now' = now + Step /\ clock' = clock + Step
    /\ whole' = Min({MinRun, whole + 1})
    /\ times' = [times EXCEPT ![run][lap] = clock]
    /\ UNCHANGED <<run, lap, stray>>

\* A row of an earlier moment that was flushed late.
WriteLate ==
    /\ ~Full
    /\ rows # <<>> /\ Last(rows).run = run /\ Last(rows).at = now - Step
    /\ Last(rows).at > 0 /\ Last(rows).lap = Last(rows).driven
    /\ LET e == Last(rows)
           early == IF e.clock = 0 /\ e.driven > 0
                    THEN [e EXCEPT !.lap = e.lap - 1, !.driven = e.driven - 1,
                                   !.clock = times[run][e.lap - 1] + Step - Jitter]
                    ELSE [e EXCEPT !.clock = e.clock - Jitter]
       IN  /\ Append1([early EXCEPT !.at = e.at - Jitter])
           /\ times' = [times EXCEPT ![run][early.driven] = Max({@, early.clock})]
           /\ whole' = IF early.driven = lap THEN Min({MinRun, whole + 1}) ELSE whole
    /\ UNCHANGED <<run, now, lap, clock, stray>>

\* A row that still has the number and the time of the lap before: fewer than
\* MinRun of them, one after the other, in a lap.
WriteStray ==
    /\ ~Full
    /\ lap > 0 /\ stray < MinRun - 1
    /\ stray > 0 => Last(rows).lap # lap
    /\ Append1([at |-> now, lap |-> lap - 1, clock |-> times[run][lap - 1],
                run |-> run, driven |-> lap])
    /\ now' = now + Step /\ clock' = clock + Step
    /\ whole' = IF whole = MinRun THEN whole ELSE 0
    /\ stray' = stray + 1
    /\ UNCHANGED <<run, lap, times>>

\* Over the line, with at least MinRun undisturbed rows of the lap behind.
NextLap ==
    /\ whole = MinRun /\ clock >= LapTime /\ lap < MaxLaps
    /\ lap' = lap + 1 /\ clock' = 0 /\ whole' = 0 /\ stray' = 0
    /\ UNCHANGED <<rows, run, now, times>>

\* Stopped and started again, after more than MinDrop of recording.
Restart ==
    /\ run < MaxRestarts
    /\ rows # <<>> /\ Last(rows).run = run /\ Last(rows).at > MinDrop
    /\ run' = run + 1
    /\ now' = 0 /\ lap' = 0 /\ clock' = 0 /\ whole' = 0 /\ stray' = 0
    /\ UNCHANGED <<rows, times>>

LoggerNext == Write \/ WriteLate \/ WriteStray \/ NextLap \/ Restart

-----------------------------------------------------------------------------
\* Properties.

\* A file falls into the sessions that were recorded, at every restart and at
\* no late row: "both conditions together distinguish an actual restart from
\* ordinary row-ordering jitter" (split_sessions).
RowsOf(r) == {i \in DOMAIN rows : rows[i].run = r}
SessionsRecovered ==
    SplitSessions(rows) = {At(rows, RowsOf(r)) : r \in {rows[i].run : i \in DOMAIN rows}}

\* The laps of a session are the laps driven that have MinRun undisturbed
\* rows, once each, wherever late rows and a stray run fall, also across the
\* line; and a lap without stray rows has the time driven: "absorbing the
\* stray alone isn't enough -- the two real runs it split apart are re-merged"
\* (lap_table).
LapsRecovered ==
    LET session == At(rows, RowsOf(run))
        table   == LapTable(session)
        driven  == 0..(IF whole = MinRun THEN lap ELSE lap - 1)
        clean(n) == \A i \in DOMAIN session :
                       session[i].driven = n => session[i].lap = n
    IN  driven # {} =>
          /\ {e.lap_number : e \in table} = driven
          /\ Cardinality(table) = Cardinality(driven)
          /\ \A e \in table : clean(e.lap_number) => e.lap_time = times[run][e.lap_number]

=============================================================================
