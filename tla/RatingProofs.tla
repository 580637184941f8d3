---------------------------- MODULE RatingProofs ----------------------------
(***************************************************************************)
(* Proof that ratings and their history agree, for every library, every    *)
(* set of drivers and any number of failing phases, as long as one batch   *)
(* runs at a time.                                                         *)
(***************************************************************************)
EXTENDS Rating, FiniteSetTheorems, WellFoundedInduction, TLAPS

\* What the walk rates is dated.
Dated == {s \in Sessions : Day[s] # Undated}

-----------------------------------------------------------------------------
(* Numbers and sets of sessions *)

LEMMA SessionsFinite ==
    /\ IsFiniteSet(Sessions) /\ Sessions \subseteq Nat
    /\ \A S \in SUBSET Sessions : IsFiniteSet(S) /\ Cardinality(S) \in Nat
<1>1. IsFiniteSet(Sessions) /\ Sessions = 1..Cardinality(Sessions)
      BY RatingConstantsOK
<1>2. Sessions \subseteq Nat
      BY <1>1, FS_CardinalityType
<1> QED BY <1>1, <1>2, FS_Subset, FS_CardinalityType

\* Sets without a common session add up.
LEMMA Additive ==
    ASSUME NEW S \in SUBSET Sessions, NEW T \in SUBSET Sessions, S \cap T = {}
    PROVE  Cardinality(S \cup T) = Cardinality(S) + Cardinality(T)
<1>1. IsFiniteSet(S) /\ IsFiniteSet(T) /\ Cardinality(S) \in Nat /\ Cardinality(T) \in Nat
      BY SessionsFinite
<1>2. Cardinality(S \cup T) = Cardinality(S) + Cardinality(T) - Cardinality(S \cap T)
      BY <1>1, FS_Union
<1>3. Cardinality({}) = 0
      BY FS_EmptySet
<1>4. Cardinality(S \cap T) = 0
      BY <1>3
<1> QED BY <1>1, <1>2, <1>4

LEMMA AtMost ==
    ASSUME NEW S \in SUBSET Sessions, NEW T \in SUBSET Sessions
    PROVE  Cardinality(S \cup T) <= Cardinality(S) + Cardinality(T)
<1>1. /\ IsFiniteSet(S) /\ IsFiniteSet(T) /\ S \cap T \in SUBSET Sessions
      /\ Cardinality(S) \in Nat /\ Cardinality(T) \in Nat
      BY SessionsFinite
<1>2. Cardinality(S \cap T) \in Nat
      BY <1>1, SessionsFinite
<1>3. Cardinality(S \cup T) = Cardinality(S) + Cardinality(T) - Cardinality(S \cap T)
      BY <1>1, FS_Union
<1> QED BY <1>1, <1>2, <1>3

\* A set of numbers has a least one.
LEMMA Least == ASSUME NEW N, N \subseteq Nat, N # {} PROVE \E n \in N : \A m \in N : n <= m
<1> DEFINE R == OpToRel(<, Nat)
<1>1. IsWellFoundedOn(R, Nat)
      BY NatLessThanWellFounded
<1>2. \A x, y \in Nat : x < y => <<x, y>> \in R
      BY DEF OpToRel
<1> HIDE DEF R
<1>3. PICK x \in N : \A y \in N : ~ (<<y, x>> \in R)
      BY <1>1, WFMin
<1>4. ASSUME NEW m \in N PROVE x <= m
  <2>1. m \in Nat /\ x \in Nat /\ ~(m < x)
        BY <1>2, <1>3
  <2> QED BY <2>1
<1> QED BY <1>3, <1>4

-----------------------------------------------------------------------------
(* The order of the walk *)

\* The dated sessions of a driver.
DatedOf(d) == {s \in Dated : DriverOf[s] = d}

\* The walk takes the sessions of a driver with one session in each field one
\* after the other.
LEMMA WalkOrder ==
    ASSUME NEW d \in Drivers, SinglePerField(d),
           NEW s \in DatedOf(d), NEW t \in DatedOf(d)
    PROVE  /\ ~Precedes(s, s)
           /\ s # t => Precedes(s, t) \/ Precedes(t, s)
           /\ ~(Precedes(s, t) /\ Precedes(t, s))
           /\ \A r \in DatedOf(d) : Precedes(r, s) /\ Precedes(s, t) => Precedes(r, t)
<1>1. \A r \in DatedOf(d) : r \in Sessions /\ r \in Nat /\ Day[r] \in Nat /\ DriverOf[r] = d
      BY DatesOK, SessionsFinite DEF DatedOf, Dated
<1>2. \A q, r \in DatedOf(d) : q # r => Day[q] # Day[r] \/ Field[q] # Field[r]
      BY <1>1 DEF SinglePerField
<1>3. ~Precedes(s, s) /\ ~(Precedes(s, t) /\ Precedes(t, s))
      BY <1>1 DEF Precedes
<1>4. s # t => Precedes(s, t) \/ Precedes(t, s)
      BY <1>1, <1>2 DEF Precedes
<1>5. ASSUME NEW r \in DatedOf(d), Precedes(r, s), Precedes(s, t) PROVE Precedes(r, t)
      BY <1>1, <1>2, <1>5 DEF Precedes
<1> QED BY <1>3, <1>4, <1>5

\* Of some sessions of such a driver one is the last.
LEMMA LastInWalk ==
    ASSUME NEW d \in Drivers, SinglePerField(d), NEW S \in SUBSET DatedOf(d), S # {}
    PROVE  \E t \in S : \A x \in S : x # t => Precedes(x, t)
<1> DEFINE after(t) == {x \in S : Precedes(t, x)}
           N == {Cardinality(after(t)) : t \in S}
<1>1. S \subseteq Sessions /\ \A t \in S : after(t) \subseteq Sessions
      BY DEF DatedOf, Dated
<1>2. N \subseteq Nat /\ N # {}
      BY <1>1, SessionsFinite
<1>a. PICK n \in N : \A m \in N : n <= m
      BY <1>2, Least
<1>b. PICK t \in S : n = Cardinality(after(t))
      BY <1>a
<1>3. \A x \in S : Cardinality(after(t)) <= Cardinality(after(x))
      BY <1>a, <1>b
<1>4. ASSUME NEW x \in S, Precedes(t, x) PROVE FALSE
  <2>1. after(x) \subseteq after(t) /\ x \in after(t) /\ x \notin after(x)
        BY <1>4, WalkOrder
  <2> HIDE DEF after
  <2>2. IsFiniteSet(after(t)) /\ Cardinality(after(t)) \in Nat /\ Cardinality(after(x)) \in Nat
        BY <1>1, SessionsFinite
  <2>3. Cardinality(after(x)) < Cardinality(after(t))
        BY <2>1, <2>2, FS_Subset
  <2> QED BY <1>3, <2>2, <2>3
<1> QED BY <1>4, WalkOrder

-----------------------------------------------------------------------------
(* Ratings *)

IsState(r) == r = State(r.mu, r.full, r.part) /\ r.full \in Nat /\ r.part \in Nat

LEMMA MovedByNone ==
    ASSUME NEW r, IsState(r), NEW paces PROVE Moved(r, {}, paces) = r
<1>1. Cardinality({}) = 0
      BY FS_EmptySet
<1>2. {s \in {} : FullWeight(s, paces)} = {} /\ {} \ {} = {}
      OBVIOUS
<1> QED BY <1>1, <1>2 DEF Moved, IsState, State

\* A rating moved by sessions and then by others is moved by all of them.
LEMMA MovedTwice ==
    ASSUME NEW r, IsState(r), NEW paces,
           NEW S \in SUBSET Sessions, NEW T \in SUBSET Sessions, S \cap T = {}
    PROVE  Moved(Moved(r, S, paces), T, paces) = Moved(r, S \cup T, paces)
<1> DEFINE fullOf(A) == {s \in A : FullWeight(s, paces)}
<1>1. fullOf(S \cup T) = fullOf(S) \cup fullOf(T) /\ fullOf(S) \cap fullOf(T) = {}
      OBVIOUS
<1>2. /\ (S \cup T) \ fullOf(S \cup T) = (S \ fullOf(S)) \cup (T \ fullOf(T))
      /\ (S \ fullOf(S)) \cap (T \ fullOf(T)) = {}
      OBVIOUS
<1>3. /\ fullOf(S) \in SUBSET Sessions /\ fullOf(T) \in SUBSET Sessions
      /\ S \ fullOf(S) \in SUBSET Sessions /\ T \ fullOf(T) \in SUBSET Sessions
      OBVIOUS
<1>4. \A q : \A A \in SUBSET Sessions : Moved(q, A, paces)
        = State(q.mu \cup A, q.full + Cardinality(fullOf(A)), q.part + Cardinality(A \ fullOf(A)))
      BY DEF Moved
<1> HIDE DEF fullOf
<1>5. /\ Cardinality(fullOf(S \cup T)) = Cardinality(fullOf(S)) + Cardinality(fullOf(T))
      /\ Cardinality((S \cup T) \ fullOf(S \cup T))
            = Cardinality(S \ fullOf(S)) + Cardinality(T \ fullOf(T))
      BY <1>1, <1>2, <1>3, Additive
<1>6. /\ Cardinality(fullOf(S)) \in Nat /\ Cardinality(fullOf(T)) \in Nat
      /\ Cardinality(S \ fullOf(S)) \in Nat /\ Cardinality(T \ fullOf(T)) \in Nat
      BY <1>3, SessionsFinite
<1> DEFINE m == Moved(r, S, paces)
<1>7. m = State(r.mu \cup S, r.full + Cardinality(fullOf(S)), r.part + Cardinality(S \ fullOf(S)))
      BY <1>4
<1>8. /\ m.mu = r.mu \cup S
      /\ m.full = r.full + Cardinality(fullOf(S))
      /\ m.part = r.part + Cardinality(S \ fullOf(S))
      BY <1>7 DEF State
<1> HIDE DEF m
<1>9. Moved(m, T, paces)
        = State(m.mu \cup T, m.full + Cardinality(fullOf(T)), m.part + Cardinality(T \ fullOf(T)))
      BY <1>4
<1>10. Moved(r, S \cup T, paces)
         = State(r.mu \cup (S \cup T), r.full + Cardinality(fullOf(S \cup T)),
                 r.part + Cardinality((S \cup T) \ fullOf(S \cup T)))
      BY <1>4
<1>11. /\ m.mu \cup T = r.mu \cup (S \cup T)
       /\ m.full + Cardinality(fullOf(T)) = r.full + Cardinality(fullOf(S \cup T))
       /\ m.part + Cardinality(T \ fullOf(T)) = r.part + Cardinality((S \cup T) \ fullOf(S \cup T))
      BY <1>5, <1>6, <1>8 DEF IsState
<1>12. Moved(m, T, paces) = Moved(r, S \cup T, paces)
      BY <1>9, <1>10, <1>11
<1> QED BY <1>12 DEF m

\* It has as many shrinks as sessions that moved it.
LEMMA MovedCounts ==
    ASSUME NEW r, IsState(r), NEW paces, NEW S \in SUBSET Sessions
    PROVE  LET m == Moved(r, S, paces)
           IN  /\ IsState(m) /\ m.mu = r.mu \cup S
               /\ m.full + m.part = r.full + r.part + Cardinality(S)
<1> DEFINE full == {s \in S : FullWeight(s, paces)}
<1>1. S = full \cup (S \ full) /\ full \cap (S \ full) = {}
      OBVIOUS
<1>2. full \in SUBSET Sessions /\ S \ full \in SUBSET Sessions
      OBVIOUS
<1>3. Moved(r, S, paces) = State(r.mu \cup S, r.full + Cardinality(full), r.part + Cardinality(S \ full))
      BY DEF Moved
<1> HIDE DEF full
<1>4. Cardinality(S) = Cardinality(full) + Cardinality(S \ full)
      BY <1>1, <1>2, Additive
<1>5. Cardinality(full) \in Nat /\ Cardinality(S \ full) \in Nat
      BY <1>2, SessionsFinite
<1> QED BY <1>3, <1>4, <1>5 DEF State, IsState

-----------------------------------------------------------------------------
(* What a walk computes *)

\* The new sessions of a driver, and those of them that a walk takes before s.
Mine(read, d)   == {s \in New(read) : DriverOf[s] = d}
Behind(read, s) == {t \in Mine(read, DriverOf[s]) : Precedes(t, s)}

LEMMA NewOnes ==
    ASSUME NEW read, read.paces \subseteq Dated, NEW d \in Drivers, SinglePerField(d)
    PROVE  /\ New(read) \subseteq Dated /\ New(read) \cap read.rated = {}
           /\ Mine(read, d) \subseteq DatedOf(d)
           /\ \A s \in Mine(read, d) : Stands(s, New(read))
<1>1. New(read) \subseteq Dated /\ New(read) \cap read.rated = {}
      BY DEF New
<1>2. Mine(read, d) \subseteq DatedOf(d)
      BY <1>1 DEF Mine, DatedOf
<1>3. ASSUME NEW s \in Mine(read, d), NEW t \in New(read), DriverOf[t] = DriverOf[s], s < t,
             Day[t] = Day[s], Field[t] = Field[s]
      PROVE  FALSE
  <2>1. s \in Sessions /\ t \in Sessions /\ s \in Nat /\ t \in Nat /\ DriverOf[s] = d
        BY <1>1, SessionsFinite DEF Mine, Dated
  <2> QED BY <2>1, <1>3 DEF SinglePerField
<1> QED BY <1>1, <1>2, <1>3 DEF Stands

LEMMA RowOfWalk ==
    ASSUME NEW read, read.paces \subseteq Dated, NEW d \in Drivers, SinglePerField(d),
           NEW s \in Mine(read, d)
    PROVE  /\ Rows(read)[s].before = Moved(read.ratings[d], Behind(read, s), read.paces)
           /\ Rows(read)[s].after = Moved(Rows(read)[s].before, {s}, read.paces)
<1> DEFINE behind(x) == {t \in New(read) : /\ DriverOf[t] = DriverOf[x] /\ Precedes(t, x)
                                           /\ Stands(t, New(read))}
           before(x) == Moved(read.ratings[DriverOf[x]], behind(x), read.paces)
<1>1. s \in New(read) /\ DriverOf[s] = d
      BY DEF Mine
<1>2. behind(s) = Behind(read, s)
      BY <1>1, NewOnes DEF Behind, Mine
<1>3. Rows(read)[s] = IF IsField(Cohort(s, read.paces))
                      THEN FieldBasedUpdate(s, before(s), read.paces)
                      ELSE ReferenceBasedUpdate(s, before(s), read.paces)
      BY <1>1 DEF Rows
<1> HIDE DEF behind
<1>4. before(s) = Moved(read.ratings[d], Behind(read, s), read.paces)
      BY <1>1, <1>2
<1> HIDE DEF before
<1> QED BY <1>3, <1>4 DEF FieldBasedUpdate, ReferenceBasedUpdate

\* A row starts from the rating that was read, or where another row ends.
LEMMA RowsChained ==
    ASSUME NEW read, read.paces \subseteq Dated, NEW d \in Drivers, SinglePerField(d),
           IsState(read.ratings[d]), NEW s \in Mine(read, d)
    PROVE  \/ Rows(read)[s].before = read.ratings[d]
           \/ \E t \in Mine(read, d) : Rows(read)[t].after = Rows(read)[s].before
<1>1. DriverOf[s] = d /\ Behind(read, s) \subseteq Mine(read, d)
      BY DEF Mine, Behind
<1>2. Mine(read, d) \subseteq DatedOf(d) /\ Mine(read, d) \subseteq Sessions
      BY NewOnes DEF DatedOf, Dated
<1>3. CASE Behind(read, s) = {}
  <2>1. Rows(read)[s].before = Moved(read.ratings[d], {}, read.paces)
        BY <1>3, RowOfWalk
  <2> QED BY <2>1, MovedByNone
<1>4. CASE Behind(read, s) # {}
  <2>1. PICK t \in Behind(read, s) : \A x \in Behind(read, s) : x # t => Precedes(x, t)
        BY <1>1, <1>2, <1>4, LastInWalk
  <2>2. t \in Mine(read, d) /\ Precedes(t, s) /\ DriverOf[t] = d
        BY <1>1, <2>1 DEF Behind, Mine
  <2>3. \A x \in Mine(read, d) : Precedes(x, t) => Precedes(x, s)
        BY <1>2, <2>2, WalkOrder
  <2>4. ~ Precedes(t, t)
        BY <1>2, <2>2, WalkOrder
  <2>5. Behind(read, s) = Behind(read, t) \cup {t} /\ Behind(read, t) \cap {t} = {}
        BY <1>1, <2>1, <2>2, <2>3, <2>4 DEF Behind
  <2>6. Behind(read, t) \in SUBSET Sessions /\ {t} \in SUBSET Sessions
        BY <1>1, <1>2, <2>2, <2>5
  <2>7. Rows(read)[t].after
          = Moved(Moved(read.ratings[d], Behind(read, t), read.paces), {t}, read.paces)
        BY <2>2, RowOfWalk
  <2>8. Rows(read)[t].after = Moved(read.ratings[d], Behind(read, s), read.paces)
        BY <2>5, <2>6, <2>7, MovedTwice
  <2>9. Rows(read)[t].after = Rows(read)[s].before
        BY <2>8, RowOfWalk
  <2> QED BY <2>2, <2>9
<1> QED BY <1>3, <1>4

\* The last of a driver's new rows ends with the rating that is written.
LEMMA LastRow ==
    ASSUME NEW read, read.paces \subseteq Dated, NEW d \in Drivers, SinglePerField(d),
           IsState(read.ratings[d]), Mine(read, d) # {}
    PROVE  \E t \in Mine(read, d) :
              Rows(read)[t].after = Moved(read.ratings[d], Mine(read, d), read.paces)
<1>1. Mine(read, d) \subseteq DatedOf(d) /\ Mine(read, d) \subseteq Sessions
      BY NewOnes DEF DatedOf, Dated
<1>2. PICK t \in Mine(read, d) : \A x \in Mine(read, d) : x # t => Precedes(x, t)
      BY <1>1, LastInWalk
<1>3. DriverOf[t] = d /\ ~ Precedes(t, t)
      BY <1>1, <1>2, WalkOrder DEF Mine
<1>4. Mine(read, d) = Behind(read, t) \cup {t} /\ Behind(read, t) \cap {t} = {}
      BY <1>2, <1>3 DEF Behind
<1>5. Behind(read, t) \in SUBSET Sessions /\ {t} \in SUBSET Sessions
      BY <1>1, <1>4
<1>6. Rows(read)[t].after
        = Moved(Moved(read.ratings[d], Behind(read, t), read.paces), {t}, read.paces)
      BY RowOfWalk
<1> QED BY <1>4, <1>5, <1>6, MovedTwice

-----------------------------------------------------------------------------
(* The inductive invariant *)

IsReads(r) ==
    /\ DOMAIN r = {"verdict", "paces", "rated", "ratings", "buckets"}
    /\ r = [f \in DOMAIN r |-> r[f]]

Phases == {"idle", "gate", "gated", "references", "paces", "rated", "ratings",
           "apply", "streaks"}

Shape ==
    /\ stored \subseteq Sessions /\ shared \subseteq Sessions
    /\ pc \in [Batches -> Phases]
    /\ seen = [b \in Batches |-> seen[b]] /\ \A b \in Batches : IsReads(seen[b])
    /\ \A d \in Drivers : IsState(StateOf(rating[d])) /\ rating[d].count \in Nat
    /\ DOMAIN history \subseteq Dated

\* A batch works on dated sessions, and on ratings that contain nothing the
\* history has no row of by now.
Seen ==
    \A b \in Batches :
        /\ pc[b] \in {"rated", "ratings", "apply"} => seen[b].paces \subseteq Dated
        /\ pc[b] = "apply" => \A d \in Drivers : /\ IsState(seen[b].ratings[d])
                                                 /\ seen[b].ratings[d].mu \subseteq RatedOf(d)

\* What moved a rating is on record, and is counted.
OnRecord ==
    \A d \in Drivers : /\ rating[d].mu \subseteq RatedOf(d)
                       /\ Cardinality(RatedOf(d)) <= rating[d].count

\* Of any number of batches.
AnyInv == Shape /\ Seen /\ OnRecord

\* What a batch has read is how things are, until it writes.
Fresh ==
    \A b \in Batches :
        /\ pc[b] \in {"ratings", "apply"} => seen[b].rated = DOMAIN history
        /\ pc[b] = "apply" => seen[b].ratings = [d \in Drivers |-> StateOf(rating[d])]

\* A driver's rating is where a row of the history ends.
Chained ==
    \A d \in Drivers : SinglePerField(d) =>
        \/ StateOf(rating[d]) = Unrated
        \/ \E t \in RatedOf(d) : history[t].after = StateOf(rating[d])

\* Of one batch at a time.
IInv == AnyInv /\ Fresh /\ Chained /\ EachSessionCountsOnce

LEMMA InitIInv == Init => IInv
<1> SUFFICES ASSUME Init PROVE IInv
    OBVIOUS
<1>1. DOMAIN history = {} /\ \A d \in Drivers : RatedOf(d) = {}
      BY DEF Init, RatedOf
<1>2. \A d \in Drivers : /\ rating[d].mu = {} /\ rating[d].count = 0
                         /\ rating[d].full = 0 /\ rating[d].part = 0
      BY DEF Init
<1>3. Shape
  <2>1. \A d \in Drivers : IsState(StateOf(rating[d]))
        BY <1>2 DEF IsState, StateOf, State
  <2>2. \A b \in Batches : IsReads(seen[b])
        BY DEF Init, IsReads, NoReads
  <2> QED BY <1>1, <1>2, <2>1, <2>2, RatingConstantsOK DEF Shape, Init, Phases
<1>4. Fresh /\ Seen
      BY DEF Init, Fresh, Seen
<1>5. Chained
      BY <1>2 DEF Chained, StateOf, Unrated
<1>6. EachSessionCountsOnce
  <2>1. Cardinality({}) = 0
        BY FS_EmptySet
  <2>2. 0 + 0 = 0
        OBVIOUS
  <2>3. \A d \in Drivers : /\ rating[d].mu = RatedOf(d)
                           /\ rating[d].count = Cardinality(RatedOf(d))
                           /\ rating[d].full + rating[d].part = Cardinality(RatedOf(d))
        BY <1>1, <1>2, <2>1, <2>2
  <2> QED BY <1>1, <2>3 DEF EachSessionCountsOnce
<1>7. OnRecord
  <2>1. Cardinality({}) = 0
        BY FS_EmptySet
  <2>2. \A d \in Drivers : /\ rating[d].mu \subseteq RatedOf(d)
                           /\ Cardinality(RatedOf(d)) = 0 /\ rating[d].count = 0
        BY <1>1, <1>2, <2>1
  <2> QED BY <2>2 DEF OnRecord
<1> QED BY <1>3, <1>4, <1>5, <1>6, <1>7 DEF IInv, AnyInv

-----------------------------------------------------------------------------
(* Steps that leave ratings and history alone: all but Apply *)

Untouched == UNCHANGED <<rating, history>>

\* Such a step keeps shape, and what was true of the reads.
Quiet == Untouched /\ Shape' /\ (Seen /\ OnRecord => Seen') /\ (Fresh => Fresh')

LEMMA QuietKeeps == Quiet => (AnyInv => AnyInv') /\ (IInv => IInv')
<1> SUFFICES ASSUME Quiet PROVE (AnyInv => AnyInv') /\ (IInv => IInv')
    OBVIOUS
<1>1. rating' = rating /\ history' = history /\ \A d \in Drivers : RatedOf(d)' = RatedOf(d)
      BY DEF Quiet, Untouched, RatedOf
<1>2. OnRecord => OnRecord'
      BY <1>1 DEF OnRecord
<1>3. Chained => Chained'
      BY <1>1 DEF Chained
<1>4. EachSessionCountsOnce => EachSessionCountsOnce'
      BY <1>1 DEF EachSessionCountsOnce
<1> QED BY <1>2, <1>3, <1>4 DEF Quiet, AnyInv, IInv

LEMMA OthersStep ==
    ASSUME Shape, Untouched, stored' \subseteq Sessions, shared' \subseteq Sessions,
           UNCHANGED <<pc, seen>>
    PROVE  Quiet
<1>1. rating' = rating /\ history' = history /\ pc' = pc /\ seen' = seen
      BY DEF Untouched
<1>2. Shape'
      BY <1>1 DEF Shape
<1>3. (Fresh => Fresh') /\ (Seen => Seen')
      BY <1>1 DEF Fresh, Seen, RatedOf
<1> QED BY <1>2, <1>3 DEF Quiet

\* A step of one batch, to a phase where its reads are as they should be.
LEMMA BatchStep ==
    ASSUME Shape, Untouched, UNCHANGED <<stored, shared>>,
           NEW b \in Batches, NEW l \in Phases, Goto(b, l),
           seen' = [c \in Batches |-> seen'[c]],
           \A c \in Batches : IsReads(seen'[c]) /\ (c # b => seen'[c] = seen[c]),
           Seen /\ OnRecord =>
              /\ l \in {"rated", "ratings", "apply"} => seen'[b].paces \subseteq Dated
              /\ l = "apply" => \A d \in Drivers : /\ IsState(seen'[b].ratings[d])
                                                   /\ seen'[b].ratings[d].mu \subseteq RatedOf(d),
           Fresh =>
              /\ l \in {"ratings", "apply"} => seen'[b].rated = DOMAIN history
              /\ l = "apply" => seen'[b].ratings = [d \in Drivers |-> StateOf(rating[d])]
    PROVE  Quiet
<1>1. /\ rating' = rating /\ history' = history /\ \A d \in Drivers : RatedOf(d)' = RatedOf(d)
      /\ pc' \in [Batches -> Phases]
      /\ \A c \in Batches : pc'[c] = IF c = b THEN l ELSE pc[c]
      BY DEF Untouched, Goto, RatedOf, Shape
<1>2. Shape'
      BY <1>1 DEF Shape
<1>3. Seen /\ OnRecord => Seen'
      BY <1>1 DEF Seen
<1>4. Fresh => Fresh'
      BY <1>1 DEF Fresh
<1> QED BY <1>2, <1>3, <1>4 DEF Quiet

\* A read puts its result in a field of what the batch has seen.
LEMMA ReadField ==
    ASSUME Shape, NEW b \in Batches, NEW f \in {"verdict", "paces", "rated"}, NEW v,
           Read(b, f, v)
    PROVE  /\ seen' = [c \in Batches |-> seen'[c]]
           /\ \A c \in Batches : IsReads(seen'[c]) /\ (c # b => seen'[c] = seen[c])
           /\ seen'[b] = [seen[b] EXCEPT ![f] = v]
<1>1. seen = [c \in Batches |-> seen[c]] /\ IsReads(seen[b])
      BY DEF Shape
<1>2. seen' = [seen EXCEPT ![b] = [seen[b] EXCEPT ![f] = v]]
      BY <1>1 DEF Read
<1> DEFINE new == [seen[b] EXCEPT ![f] = v]
<1>3. IsReads(new)
      BY <1>1 DEF IsReads
<1> HIDE DEF new
<1>4. seen' = [c \in Batches |-> IF c = b THEN new ELSE seen[c]]
      BY <1>1, <1>2 DEF new
<1> QED BY <1>3, <1>4 DEF new, Shape

\* A batch moves on to a phase that relies on no read.
LEMMA PhaseStep ==
    ASSUME Shape, Untouched, UNCHANGED <<stored, shared>>,
           NEW b \in Batches, NEW l \in {"idle", "gate", "gated", "references", "paces"},
           Goto(b, l),
           \/ seen' = seen \/ seen' = [seen EXCEPT ![b] = NoReads]
           \/ \E v : Read(b, "verdict", v)
    PROVE  Quiet
<1>1. /\ seen' = [c \in Batches |-> seen'[c]]
      /\ \A c \in Batches : IsReads(seen'[c]) /\ (c # b => seen'[c] = seen[c])
  <2>1. CASE seen' = seen
        BY <2>1 DEF Shape
  <2>2. CASE seen' = [seen EXCEPT ![b] = NoReads]
        BY <2>2 DEF Shape, IsReads, NoReads
  <2>3. CASE \E v : Read(b, "verdict", v)
        BY <2>3, ReadField
  <2> QED BY <2>1, <2>2, <2>3
<1>2. l \in Phases /\ l \notin {"rated", "ratings", "apply"}
      BY DEF Phases
<1> QED BY <1>1, <1>2, BatchStep

LEMMA ReadPacesStep == ASSUME Shape, NEW b \in Batches, ReadPaces(b) PROVE Quiet
<1>1. /\ Untouched /\ UNCHANGED <<stored, shared>> /\ Goto(b, "rated")
      /\ Read(b, "paces", Paces)
      BY DEF ReadPaces, Untouched, library
<1>2. seen'[b] = [seen[b] EXCEPT !["paces"] = Paces]
      BY <1>1, ReadField
<1>3. /\ seen' = [c \in Batches |-> seen'[c]]
      /\ \A c \in Batches : IsReads(seen'[c]) /\ (c # b => seen'[c] = seen[c])
      /\ seen'[b].paces = Paces
      BY <1>1, <1>2, ReadField DEF Shape, IsReads
<1>4. Paces \subseteq Dated
      BY DEF Paces, Dated, Shape
<1>5. "rated" \in Phases
      BY DEF Phases
<1> QED BY <1>1, <1>3, <1>4, <1>5, BatchStep

LEMMA ReadRatedStep == ASSUME Shape, NEW b \in Batches, ReadRated(b) PROVE Quiet
<1>1. /\ Untouched /\ UNCHANGED <<stored, shared>> /\ Goto(b, "ratings")
      /\ pc[b] = "rated" /\ Read(b, "rated", DOMAIN history)
      BY DEF ReadRated, Untouched, library
<1>2. seen'[b] = [seen[b] EXCEPT !["rated"] = DOMAIN history]
      BY <1>1, ReadField
<1>3. /\ seen' = [c \in Batches |-> seen'[c]]
      /\ \A c \in Batches : IsReads(seen'[c]) /\ (c # b => seen'[c] = seen[c])
      /\ seen'[b].paces = seen[b].paces /\ seen'[b].rated = DOMAIN history
      BY <1>1, <1>2, ReadField DEF Shape, IsReads
<1>4. Seen => seen[b].paces \subseteq Dated
      BY <1>1 DEF Seen
<1>5. "ratings" \in Phases
      BY DEF Phases
<1> QED BY <1>1, <1>3, <1>4, <1>5, BatchStep

LEMMA ReadRatingsStep == ASSUME Shape, NEW b \in Batches, ReadRatings(b) PROVE Quiet
<1> DEFINE r == [d \in Drivers |-> StateOf(rating[d])]
           new == [seen[b] EXCEPT !.ratings = r, !.buckets = bucket]
<1>1. /\ Untouched /\ UNCHANGED <<stored, shared>> /\ Goto(b, "apply")
      /\ pc[b] = "ratings"
      /\ seen' = [seen EXCEPT ![b].ratings = r, ![b].buckets = bucket]
      BY DEF ReadRatings, Untouched, library
<1>2. \A d \in Drivers : /\ IsState(r[d]) /\ r[d].mu = rating[d].mu
      BY DEF Shape, StateOf, State
<1> HIDE DEF r
<1>3. seen = [c \in Batches |-> seen[c]] /\ IsReads(seen[b])
      BY DEF Shape
<1>4. /\ IsReads(new) /\ new.ratings = r
      /\ new.paces = seen[b].paces /\ new.rated = seen[b].rated
      BY <1>3 DEF IsReads
<1>5. seen' = [c \in Batches |-> IF c = b THEN new ELSE seen[c]]
      BY <1>1, <1>3
<1> HIDE DEF new
<1>6. /\ seen' = [c \in Batches |-> seen'[c]]
      /\ \A c \in Batches : IsReads(seen'[c]) /\ (c # b => seen'[c] = seen[c])
      /\ seen'[b].paces = seen[b].paces /\ seen'[b].rated = seen[b].rated
      /\ seen'[b].ratings = r
      BY <1>4, <1>5 DEF Shape
<1>7. /\ Seen => seen[b].paces \subseteq Dated
      /\ Fresh => seen[b].rated = DOMAIN history
      /\ OnRecord => \A d \in Drivers : r[d].mu \subseteq RatedOf(d)
      BY <1>1, <1>2 DEF Seen, Fresh, OnRecord
<1>8. "apply" \in Phases
      BY DEF Phases
<1> QED BY <1>1, <1>2, <1>6, <1>7, <1>8, BatchStep DEF r

-----------------------------------------------------------------------------
(* The step that writes *)

LEMMA ApplyEffect ==
    ASSUME Shape, Seen, NEW b \in Batches, Apply(b)
    PROVE  /\ Shape' /\ pc[b] = "apply" /\ pc' = [pc EXCEPT ![b] = "streaks"]
           /\ \A c \in Batches : c # b => seen'[c] = seen[c]
           /\ DOMAIN history' = DOMAIN history \cup New(seen[b])
           /\ \A s \in DOMAIN history : history'[s] = history[s]
           /\ \A s \in New(seen[b]) \ DOMAIN history : history'[s] = Rows(seen[b])[s]
           /\ \A d \in Drivers :
                 /\ RatedOf(d)' = RatedOf(d) \cup Mine(seen[b], d)
                 /\ Mine(seen[b], d) \in SUBSET Sessions /\ RatedOf(d) \in SUBSET Sessions
                 /\ rating'[d] = IF Mine(seen[b], d) = {} THEN rating[d]
                       ELSE LET stands == {s \in Mine(seen[b], d) : Stands(s, New(seen[b]))}
                                m == Moved(seen[b].ratings[d], stands, seen[b].paces)
                            IN [mu |-> m.mu, full |-> m.full, part |-> m.part,
                                count |-> rating[d].count + Cardinality(Mine(seen[b], d))]
<1> DEFINE read == seen[b]
<1>1. /\ pc[b] = "apply" /\ pc' = [pc EXCEPT ![b] = "streaks"]
      /\ UNCHANGED <<stored, shared>> /\ history' = Inserted(history, Rows(read))
      BY DEF Apply, Goto, library
<1>2. /\ seen' = [c \in Batches |-> seen'[c]]
      /\ \A c \in Batches : IsReads(seen'[c]) /\ (c # b => seen'[c] = seen[c])
  <2>1. seen' = [seen EXCEPT ![b] = NoReads]
        BY DEF Apply
  <2>2. IsReads(NoReads)
        BY DEF IsReads, NoReads
  <2> HIDE DEF NoReads
  <2> QED BY <2>1, <2>2 DEF Shape
<1>3. read.paces \subseteq Dated /\ \A d \in Drivers : IsState(read.ratings[d])
      BY <1>1 DEF Seen
<1>4. ASSUME NEW d \in Drivers
      PROVE  rating'[d] = IF Mine(read, d) = {} THEN rating[d]
                ELSE LET stands == {s \in Mine(read, d) : Stands(s, New(read))}
                         m == Moved(read.ratings[d], stands, read.paces)
                     IN [mu |-> m.mu, full |-> m.full, part |-> m.part,
                         count |-> rating[d].count + Cardinality(Mine(read, d))]
      BY DEF Apply, Mine
<1> HIDE DEF read
<1>5. New(read) \subseteq Dated
      BY <1>3 DEF New
<1>6. /\ DOMAIN history' = DOMAIN history \cup New(read)
      /\ \A s \in DOMAIN history : history'[s] = history[s]
      /\ \A s \in New(read) \ DOMAIN history : history'[s] = Rows(read)[s]
  <2>1. DOMAIN Rows(read) = New(read)
        BY DEF Rows
  <2> QED BY <1>1, <2>1 DEF Inserted
<1>7. \A d \in Drivers : /\ RatedOf(d)' = RatedOf(d) \cup Mine(read, d)
                         /\ Mine(read, d) \in SUBSET Sessions /\ RatedOf(d) \in SUBSET Sessions
      BY <1>5, <1>6 DEF RatedOf, Mine, Shape, Dated
<1>8. ASSUME NEW d \in Drivers
      PROVE  IsState(StateOf(rating'[d])) /\ rating'[d].count \in Nat
  <2>1. CASE Mine(read, d) = {}
        BY <1>4, <2>1 DEF Shape
  <2>2. CASE Mine(read, d) # {}
    <3> DEFINE stands == {s \in Mine(read, d) : Stands(s, New(read))}
               m == Moved(read.ratings[d], stands, read.paces)
    <3>1. stands \in SUBSET Sessions
          BY <1>7
    <3>2. rating'[d] = [mu |-> m.mu, full |-> m.full, part |-> m.part,
                        count |-> rating[d].count + Cardinality(Mine(read, d))]
          BY <1>4, <2>2
    <3> HIDE DEF stands
    <3>3. IsState(m)
          BY <3>1, <1>3, MovedCounts
    <3> HIDE DEF m
    <3>4. StateOf(rating'[d]) = m
          BY <3>2, <3>3 DEF StateOf, IsState, State
    <3>5. rating[d].count \in Nat /\ Cardinality(Mine(read, d)) \in Nat
          BY <1>7, SessionsFinite DEF Shape
    <3> QED BY <3>2, <3>3, <3>4, <3>5
  <2> QED BY <2>1, <2>2
<1>9. Shape'
      BY <1>1, <1>2, <1>5, <1>6, <1>8 DEF Shape, Phases
<1> QED BY <1>1, <1>2, <1>4, <1>6, <1>7, <1>9 DEF read

\* Whatever other batches have written meanwhile.
LEMMA ApplyAny == ASSUME AnyInv, NEW b \in Batches, Apply(b) PROVE AnyInv'
<1> DEFINE read == seen[b]
<1>1. Shape /\ Seen /\ OnRecord
      BY DEF AnyInv
<1>2. /\ Shape' /\ pc[b] = "apply" /\ pc' = [pc EXCEPT ![b] = "streaks"]
      /\ \A c \in Batches : c # b => seen'[c] = seen[c]
      /\ \A d \in Drivers : /\ RatedOf(d)' = RatedOf(d) \cup Mine(read, d)
                            /\ Mine(read, d) \in SUBSET Sessions /\ RatedOf(d) \in SUBSET Sessions
      BY <1>1, ApplyEffect
<1>3. \A c \in Batches : pc'[c] = IF c = b THEN "streaks" ELSE pc[c]
      BY <1>1, <1>2 DEF Shape
<1>4. Seen'
      BY <1>1, <1>2, <1>3 DEF Seen
<1>5. ASSUME NEW d \in Drivers
      PROVE  rating'[d].mu \subseteq RatedOf(d)' /\ Cardinality(RatedOf(d)') <= rating'[d].count
  <2>1. /\ rating[d].mu \subseteq RatedOf(d) /\ Cardinality(RatedOf(d)) <= rating[d].count
        /\ rating[d].count \in Nat
        BY <1>1 DEF OnRecord, Shape
  <2>2. CASE Mine(read, d) = {}
    <3>1. rating'[d] = rating[d] /\ RatedOf(d)' = RatedOf(d)
          BY <1>1, <1>2, <2>2, ApplyEffect
    <3> QED BY <2>1, <3>1
  <2>3. CASE Mine(read, d) # {}
    <3> DEFINE stands == {s \in Mine(read, d) : Stands(s, New(read))}
               m == Moved(read.ratings[d], stands, read.paces)
    <3>1. rating'[d] = [mu |-> m.mu, full |-> m.full, part |-> m.part,
                        count |-> rating[d].count + Cardinality(Mine(read, d))]
          BY <1>1, <2>3, ApplyEffect
    <3>2. stands \in SUBSET Sessions /\ stands \subseteq Mine(read, d)
          BY <1>2
    <3>3. IsState(read.ratings[d]) /\ read.ratings[d].mu \subseteq RatedOf(d)
          BY <1>1, <1>2 DEF Seen
    <3> HIDE DEF stands
    <3>4. m.mu = read.ratings[d].mu \cup stands
          BY <3>2, <3>3, MovedCounts
    <3> HIDE DEF m, read
    <3>5. rating'[d].mu \subseteq RatedOf(d)'
          BY <1>2, <3>1, <3>2, <3>3, <3>4
    <3>6. Cardinality(RatedOf(d)') <= Cardinality(RatedOf(d)) + Cardinality(Mine(read, d))
          BY <1>2, AtMost
    <3>7. Cardinality(RatedOf(d)) \in Nat /\ Cardinality(Mine(read, d)) \in Nat
          /\ Cardinality(RatedOf(d)') \in Nat
          BY <1>2, SessionsFinite
    <3> QED BY <2>1, <3>1, <3>5, <3>6, <3>7
  <2> QED BY <2>2, <2>3
<1> QED BY <1>2, <1>4, <1>5 DEF AnyInv, OnRecord

\* The read of one batch is the read of all.
OneBatch == \A b, c \in Batches : b = c

\* Writing history and ratings keeps them in agreement.
LEMMA ApplyStep == OneBatch => \A b \in Batches : IInv /\ Apply(b) => IInv'
<1> SUFFICES ASSUME OneBatch, NEW b \in Batches, IInv, Apply(b) PROVE IInv'
    OBVIOUS
<1> DEFINE read == seen[b]
           written(d) == Moved(read.ratings[d], Mine(read, d), read.paces)
<1>1. Shape /\ Seen /\ Fresh
      BY DEF IInv, AnyInv
<1>2. /\ Shape' /\ pc[b] = "apply" /\ pc' = [pc EXCEPT ![b] = "streaks"]
      /\ DOMAIN history' = DOMAIN history \cup New(read)
      /\ \A s \in DOMAIN history : history'[s] = history[s]
      /\ \A s \in New(read) \ DOMAIN history : history'[s] = Rows(read)[s]
      BY <1>1, ApplyEffect
<1>4. /\ read.paces \subseteq Dated /\ read.rated = DOMAIN history
      /\ \A d \in Drivers : read.ratings[d] = StateOf(rating[d])
      BY <1>1, <1>2 DEF Seen, Fresh
<1>5. ASSUME NEW d \in Drivers
      PROVE  rating'[d] = IF Mine(read, d) = {} THEN rating[d]
                ELSE LET stands == {s \in Mine(read, d) : Stands(s, New(read))}
                         m == Moved(read.ratings[d], stands, read.paces)
                     IN [mu |-> m.mu, full |-> m.full, part |-> m.part,
                         count |-> rating[d].count + Cardinality(Mine(read, d))]
      BY <1>1, ApplyEffect
<1>6. \A d \in Drivers : IsState(read.ratings[d])
      BY <1>1, <1>2 DEF Seen
<1>7. New(read) \cap DOMAIN history = {}
      BY <1>4 DEF New
<1>8. /\ \A s \in DOMAIN history : history'[s] = history[s]
      /\ \A s \in New(read) : history'[s] = Rows(read)[s]
  <2>1. \A s \in New(read) : s \in New(read) \ DOMAIN history
        BY <1>7
  <2> QED BY <1>2, <2>1
<1>9. \A d \in Drivers : /\ RatedOf(d)' = RatedOf(d) \cup Mine(read, d)
                         /\ RatedOf(d) \cap Mine(read, d) = {}
                         /\ Mine(read, d) \in SUBSET Sessions /\ RatedOf(d) \in SUBSET Sessions
  <2>1. \A d \in Drivers : RatedOf(d) \cap Mine(read, d) = {}
        BY <1>7 DEF RatedOf, Mine
  <2> QED BY <1>1, <2>1, ApplyEffect
<1> HIDE DEF read
<1>11. AnyInv'
       BY ApplyAny DEF IInv
<1>12. Fresh'
  <2>1. \A c \in Batches : pc'[c] = "streaks"
        BY <1>1, <1>2 DEF OneBatch, Shape
  <2> QED BY <2>1 DEF Fresh
<1>13. ASSUME NEW d \in Drivers, SinglePerField(d), Mine(read, d) # {}
       PROVE  /\ StateOf(rating'[d]) = written(d)
              /\ rating'[d].count = rating[d].count + Cardinality(Mine(read, d))
              /\ rating'[d].mu = rating[d].mu \cup Mine(read, d)
              /\ rating'[d].full + rating'[d].part
                    = rating[d].full + rating[d].part + Cardinality(Mine(read, d))
  <2>1. {s \in Mine(read, d) : Stands(s, New(read))} = Mine(read, d)
        BY <1>4, <1>13, NewOnes
  <2>2. rating'[d] = [mu |-> written(d).mu, full |-> written(d).full, part |-> written(d).part,
                      count |-> rating[d].count + Cardinality(Mine(read, d))]
        BY <1>5, <1>13, <2>1
  <2>3. LET m == written(d) r == read.ratings[d]
        IN  /\ IsState(m) /\ m.mu = r.mu \cup Mine(read, d)
            /\ m.full + m.part = r.full + r.part + Cardinality(Mine(read, d))
        BY <1>6, <1>9, MovedCounts
  <2>4. /\ read.ratings[d].mu = rating[d].mu /\ read.ratings[d].full = rating[d].full
        /\ read.ratings[d].part = rating[d].part
    <3>1. \A r : StateOf(r).mu = r.mu /\ StateOf(r).full = r.full /\ StateOf(r).part = r.part
          BY DEF StateOf, State
    <3>2. read.ratings[d] = StateOf(rating[d])
          BY <1>4
    <3> QED BY <3>1, <3>2
  <2> HIDE DEF written
  <2>5. StateOf(rating'[d]) = written(d)
        BY <2>2, <2>3 DEF StateOf, IsState, State
  <2> QED BY <2>2, <2>3, <2>4, <2>5
<1>14. Chained'
  <2> SUFFICES ASSUME NEW d \in Drivers, SinglePerField(d)
               PROVE  \/ StateOf(rating'[d]) = Unrated
                      \/ \E t \in RatedOf(d)' : history'[t].after = StateOf(rating'[d])
      BY DEF Chained
  <2>1. CASE Mine(read, d) = {}
        BY <1>5, <1>8, <1>9, <2>1 DEF IInv, Chained, RatedOf
  <2>2. CASE Mine(read, d) # {}
    <3>1. PICK t \in Mine(read, d) : Rows(read)[t].after = written(d)
          BY <1>4, <1>6, <2>2, LastRow
    <3>2. t \in New(read) /\ t \in RatedOf(d)'
          BY <1>9, <3>1 DEF Mine
    <3>3. history'[t].after = StateOf(rating'[d])
          BY <1>8, <1>13, <2>2, <3>1, <3>2
    <3> QED BY <3>2, <3>3
  <2> QED BY <2>1, <2>2
<1>15. EachSessionCountsOnce'
  <2> SUFFICES ASSUME NEW d \in Drivers, SinglePerField(d)
               PROVE  /\ rating'[d].mu = RatedOf(d)'
                      /\ rating'[d].count = Cardinality(RatedOf(d)')
                      /\ rating'[d].full + rating'[d].part = Cardinality(RatedOf(d)')
                      /\ \A s \in RatedOf(d)' :
                            \/ history'[s].before = Unrated
                            \/ \E t \in RatedOf(d)' : history'[t].after = history'[s].before
      BY DEF EachSessionCountsOnce
  <2>1. /\ rating[d].mu = RatedOf(d)
        /\ rating[d].count = Cardinality(RatedOf(d))
        /\ rating[d].full + rating[d].part = Cardinality(RatedOf(d))
        /\ \A s \in RatedOf(d) :
              \/ history[s].before = Unrated
              \/ \E t \in RatedOf(d) : history[t].after = history[s].before
        BY DEF IInv, EachSessionCountsOnce
  <2>2. Cardinality(RatedOf(d)') = Cardinality(RatedOf(d)) + Cardinality(Mine(read, d))
        BY <1>9, Additive
  <2>3. rating'[d].mu = RatedOf(d)' /\ rating'[d].count = Cardinality(RatedOf(d)')
        /\ rating'[d].full + rating'[d].part = Cardinality(RatedOf(d)')
    <3>1. CASE Mine(read, d) = {}
          BY <1>5, <1>9, <2>1, <3>1
    <3>2. CASE Mine(read, d) # {}
          BY <1>9, <1>13, <2>1, <2>2, <3>2
    <3> QED BY <3>1, <3>2
  <2>4. ASSUME NEW s \in RatedOf(d)
        PROVE  \/ history'[s].before = Unrated
               \/ \E t \in RatedOf(d)' : history'[t].after = history'[s].before
    <3>1. RatedOf(d) \subseteq DOMAIN history /\ RatedOf(d) \subseteq RatedOf(d)'
          BY <1>9 DEF RatedOf
    <3> QED BY <1>8, <2>1, <3>1
  <2>5. ASSUME NEW s \in Mine(read, d)
        PROVE  \/ history'[s].before = Unrated
               \/ \E t \in RatedOf(d)' : history'[t].after = history'[s].before
    <3>1. /\ \A x \in Mine(read, d) : x \in RatedOf(d)' /\ history'[x] = Rows(read)[x]
          /\ \A x \in RatedOf(d) : x \in RatedOf(d)' /\ history'[x] = history[x]
          BY <1>8, <1>9 DEF Mine, RatedOf
    <3>2. CASE Rows(read)[s].before = read.ratings[d]
      <4>1. history'[s].before = StateOf(rating[d])
            BY <1>4, <3>1, <3>2
      <4> QED BY <3>1, <4>1 DEF IInv, Chained
    <3>3. CASE \E t \in Mine(read, d) : Rows(read)[t].after = Rows(read)[s].before
          BY <3>1, <3>3
    <3> QED BY <1>4, <1>6, <3>2, <3>3, RowsChained
  <2> QED BY <1>9, <2>3, <2>4, <2>5
<1> QED BY <1>11, <1>12, <1>14, <1>15 DEF IInv

LEMMA QuietSteps ==
    ASSUME Shape, [Next]_vars, ~ \E b \in Batches : Apply(b) PROVE Quiet
<1>1. ASSUME NEW s \in Sessions, Upload(s) PROVE Quiet
      BY <1>1, OthersStep DEF Upload, Untouched, Shape
<1>2. ASSUME NEW s \in Sessions, Toggle(s) PROVE Quiet
  <2>1. /\ Untouched /\ UNCHANGED <<pc, seen>>
        /\ stored' \subseteq Sessions /\ shared' \subseteq Sessions
        BY <1>2 DEF Toggle, Untouched, Shape
  <2> QED BY <2>1, OthersStep
<1>3. ASSUME NEW b \in Batches, RebuildLines(b) PROVE Quiet
      BY <1>3, PhaseStep DEF RebuildLines, Untouched, library
<1>4. ASSUME NEW b \in Batches, GateRead(b) PROVE Quiet
      BY <1>4, PhaseStep DEF GateRead, Untouched, library
<1>5. ASSUME NEW b \in Batches, GateWrite(b) PROVE Quiet
      BY <1>5, PhaseStep DEF GateWrite, Untouched
<1>6. ASSUME NEW b \in Batches, RebuildReferences(b) PROVE Quiet
      BY <1>6, PhaseStep DEF RebuildReferences, Untouched, library
<1>7. ASSUME NEW b \in Batches, RebuildStreaks(b) PROVE Quiet
      BY <1>7, PhaseStep DEF RebuildStreaks, Untouched, library
<1>8. ASSUME NEW b \in Batches, Fail(b) PROVE Quiet
      BY <1>8, PhaseStep DEF Fail, Untouched, library
<1>9. CASE UNCHANGED vars
      BY <1>9, OthersStep DEF vars, Untouched, Shape
<1> QED BY <1>1, <1>2, <1>3, <1>4, <1>5, <1>6, <1>7, <1>8, <1>9,
           ReadPacesStep, ReadRatedStep, ReadRatingsStep
        DEF Next, RunBatch

\* For any number of batches at once, the one a worker runs after an upload and
\* the nightly one: a rating is moved only by sessions the history has rows of,
\* and its count is never less than their number.
THEOREM RatingsOnRecord == Spec => []OnRecord
<1>1. Init => AnyInv
      BY InitIInv DEF IInv
<1>2. AnyInv /\ [Next]_vars => AnyInv'
      BY ApplyAny, QuietSteps, QuietKeeps DEF AnyInv
<1>3. AnyInv => OnRecord
      BY DEF AnyInv
<1> QED BY <1>1, <1>2, <1>3, PTL DEF Spec

\* Ratings and history agree, whatever batches fail and whatever is uploaded,
\* shown or hidden between their phases, as long as batches run one at a time
\* (two at once both count what neither has seen rated).
THEOREM RatingsMatchHistory == OneBatch /\ Spec => []EachSessionCountsOnce
<1> SUFFICES ASSUME OneBatch PROVE Spec => []EachSessionCountsOnce
    OBVIOUS
<1>1. Init => IInv
      BY InitIInv
<1>2. IInv /\ [Next]_vars => IInv'
      BY ApplyStep, QuietSteps, QuietKeeps DEF IInv, AnyInv
<1>3. IInv => EachSessionCountsOnce
      BY DEF IInv
<1> QED BY <1>1, <1>2, <1>3, PTL DEF Spec
=============================================================================
