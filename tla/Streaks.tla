------------------------------ MODULE Streaks -------------------------------
(***************************************************************************)
(* Weekly streaks with banked freezes (telemetry/rating/streaks.py).       *)
(* Weeks are numbered; a week is named in the code by its Monday.          *)
(***************************************************************************)
EXTENDS Integers, Sequences, SequencesExt

CONSTANTS
    InitialFreezes,   \* config.streak_initial_freezes
    MaxFreezes,       \* config.streak_max_banked_freezes
    EarnEvery         \* config.streak_freeze_earn_interval_weeks

ASSUME StreakConfigOK ==
    /\ InitialFreezes \in Nat /\ MaxFreezes \in Nat
    /\ InitialFreezes <= MaxFreezes
    /\ EarnEvery \in Nat \ {0}

\* Day 0 is a Monday.
WeekOf(day) == day \div 7

NoWeek == -1

NoStreak == [current |-> 0, longest |-> 0, freezes |-> InitialFreezes,
             last |-> NoWeek]

Bigger(a, b) == IF a > b THEN a ELSE b

\* The streak goes on over no gap, or over one missed week for a freeze.
Continue(s, week) ==
    IF s.last = NoWeek THEN [s EXCEPT !.current = 1]
    ELSE IF week <= s.last + 1 THEN [s EXCEPT !.current = @ + 1]
    ELSE IF week = s.last + 2 /\ s.freezes > 0
         THEN [s EXCEPT !.current = @ + 1, !.freezes = @ - 1]
    ELSE [s EXCEPT !.current = 1]

\* Every so many weeks a freeze is banked, up to the cap.
Earn(s) ==
    IF s.current % EarnEvery = 0 /\ s.freezes < MaxFreezes
    THEN [s EXCEPT !.freezes = @ + 1] ELSE s

\* One qualifying week more.
Feed(s, week) ==
    LET t == Earn(Continue(s, week))
    IN [t EXCEPT !.longest = Bigger(@, t.current), !.last = week]

\* The walk over all weeks in order.  (The state is carried in a singleton
\* set, so that TLC evaluates it once per week.)
ComputeStreak(weeks) ==
    CHOOSE s \in FoldLeft(LAMBDA S, week : {Feed(s, week) : s \in S}, {NoStreak}, weeks) : TRUE

\* Weeks with the badge for training in between, for display only.
MidweekBonusWeeks(count, atLeast) == {w \in DOMAIN count : count[w] >= atLeast}

\* The sessions of a week after the first shrink sigma by less.
HasFullWeight(indexInWeek) == indexInWeek = 0

\* Which weeks had enough verified sessions, in order. `count` has a number
\* for every week in its domain.
QualifyingWeeks(count, atLeast) ==
    SetToSortSeq({w \in DOMAIN count : count[w] >= atLeast}, <)
=============================================================================
