------------------------- MODULE IngestWorkerProofs -------------------------
(***************************************************************************)
(* Theorems about the upload pipeline for every set of workers, batches    *)
(* and files.  The inductive invariant is built in layers: types and the   *)
(* worker's loop variables first, then what the loop has stored so far,    *)
(* then, for timely workers, who owns which batch, and what its sessions   *)
(* still lack.                                                             *)
(***************************************************************************)
EXTENDS IngestWorker, SequenceTheorems, FiniteSetTheorems, TLAPS

\* The loop variables of worker w, inside and outside process_batch.
LoopOf(w) ==
    /\ pc[w] \notin Busy \/ pc[w] = "fetch" => at[w] = 1
    /\ pc[w] \in Busy => job[w] \in Batches
    /\ pc[w] \in {"save", "link", "finish", "attribute"} =>
           at[w] <= Len(Content[job[w]])
    /\ pc[w] \in {"link", "finish", "attribute"} =>
           /\ row[w] \in 1..Len(library)
           /\ library[row[w]].key = Current(w)
           /\ library[row[w]].driver = DriverOf[job[w]]

LoopOK == \A w \in Workers : LoopOf(w)

TypeInv == TypeOK /\ LoopOK

\* The library only grows, and a row keeps the identity it was saved with.
Grows ==
    /\ Len(library) <= Len(library')
    /\ \A i \in 1..Len(library) :
           /\ library'[i].key = library[i].key
           /\ library'[i].driver = library[i].driver

-----------------------------------------------------------------------------
\* Types, and the shape of a step on the library.

LEMMA CurrentType ==
    ASSUME TypeInv, NEW w \in Workers,
           pc[w] \in {"save", "link", "finish", "attribute"}
    PROVE  /\ job[w] \in Batches
           /\ at[w] \in 1..Len(Content[job[w]])
           /\ Current(w) \in Sessions
           /\ DriverOf[job[w]] \in Drivers \cup {NoDriver}
<1>1. job[w] \in Batches /\ at[w] <= Len(Content[job[w]]) /\ at[w] \in Nat \ {0}
  BY DEF TypeInv, TypeOK, LoopOK, LoopOf, Busy
<1>2. Content[job[w]] \in Seq(Sessions)
  BY <1>1, ConstantsOK
<1>3. at[w] \in 1..Len(Content[job[w]])
  BY <1>1, <1>2, LenProperties
<1>4. Content[job[w]][at[w]] \in Sessions
  BY <1>2, <1>3, ElementOfSeq
<1> QED
  BY <1>1, <1>3, <1>4, ConstantsOK DEF Current

\* What the four kinds of statement on the sessions table do to the library.
LEMMA SaveStep ==
    ASSUME TypeInv, NEW w \in Workers, Save(w)
    PROVE  /\ library' \in Seq(Row)
           /\ Len(library') = Len(library) + 1
           /\ \A i \in 1..Len(library) : library'[i] = library[i]
           /\ library'[Len(library) + 1].key = Current(w)
           /\ library'[Len(library) + 1].driver = DriverOf[job[w]]
           /\ Grows
<1> DEFINE r == [key |-> Current(w), driver |-> DriverOf[job[w]],
                 profile |-> DriverOf[job[w]],
                 batch |-> NoBatch, analysed |-> FALSE]
<1>1. library \in Seq(Row) /\ library' = Append(library, r)
  BY DEF Save, TypeInv, TypeOK
<1>2. r \in Row
  BY CurrentType DEF Save, Row
<1>3. r.key = Current(w) /\ r.driver = DriverOf[job[w]]
  OBVIOUS
<1> HIDE DEF r
<1>4. Len(library) \in Nat
  BY <1>1, LenProperties
<1> QED
  BY <1>1, <1>2, <1>3, <1>4, AppendProperties DEF Grows

LEMMA UpdateStep ==
    ASSUME TypeInv, NEW w \in Workers, row[w] \in 1..Len(library), NEW r \in Row,
           r.key = library[row[w]].key, r.driver = library[row[w]].driver,
           library' = [library EXCEPT ![row[w]] = r]
    PROVE  /\ library' \in Seq(Row)
           /\ Len(library') = Len(library)
           /\ Grows
<1>1. library \in Seq(Row)
  BY DEF TypeInv, TypeOK
<1>2. Len(library) \in Nat
  BY <1>1, LenProperties
<1>3. /\ library' \in Seq(Row)
      /\ Len(library') = Len(library)
      /\ \A j \in 1..Len(library) : library'[j] = IF j = row[w] THEN r ELSE library[j]
  BY <1>1, ExceptSeq
<1> QED
  BY <1>2, <1>3 DEF Grows

LEMMA RowType ==
    ASSUME TypeInv, NEW w \in Workers, pc[w] \in {"link", "finish", "attribute"}
    PROVE  /\ row[w] \in 1..Len(library)
           /\ library[row[w]] \in Row
<1>1. library \in Seq(Row) /\ row[w] \in 1..Len(library)
  BY DEF TypeInv, TypeOK, LoopOK, LoopOf
<1> QED
  BY <1>1, ElementOfSeq

LEMMA LinkStep ==
    ASSUME TypeInv, NEW w \in Workers, Link(w)
    PROVE  library' \in Seq(Row) /\ Len(library') = Len(library) /\ Grows
<1>1. CASE library' = [library EXCEPT ![row[w]].batch = job[w]]
  <2> DEFINE r == [library[row[w]] EXCEPT !.batch = job[w]]
  <2>1. row[w] \in 1..Len(library) /\ library[row[w]] \in Row /\ job[w] \in Batches
    BY RowType, CurrentType DEF Link
  <2>2. r \in Row /\ r.key = library[row[w]].key /\ r.driver = library[row[w]].driver
    BY <2>1 DEF Row
  <2>3. library' = [library EXCEPT ![row[w]] = r]
    BY <1>1
  <2> HIDE DEF r
  <2> QED
    BY <2>1, <2>2, <2>3, UpdateStep
<1>2. CASE UNCHANGED library
  BY <1>2, LenProperties DEF Grows, TypeInv, TypeOK
<1> QED
  BY <1>1, <1>2 DEF Link

LEMMA FinishStep ==
    ASSUME TypeInv, NEW w \in Workers, Finish(w)
    PROVE  library' \in Seq(Row) /\ Len(library') = Len(library) /\ Grows
<1>1. CASE library' = [library EXCEPT ![row[w]].analysed = TRUE]
  <2> DEFINE r == [library[row[w]] EXCEPT !.analysed = TRUE]
  <2>1. row[w] \in 1..Len(library) /\ library[row[w]] \in Row
    BY RowType DEF Finish
  <2>2. r \in Row /\ r.key = library[row[w]].key /\ r.driver = library[row[w]].driver
    BY <2>1 DEF Row
  <2>3. library' = [library EXCEPT ![row[w]] = r]
    BY <1>1
  <2> HIDE DEF r
  <2> QED
    BY <2>1, <2>2, <2>3, UpdateStep
<1>2. CASE UNCHANGED library
  BY <1>2, LenProperties DEF Grows, TypeInv, TypeOK
<1> QED
  BY <1>1, <1>2 DEF Finish

LEMMA AttributeStep ==
    ASSUME TypeInv, NEW w \in Workers, Attribute(w)
    PROVE  library' \in Seq(Row) /\ Len(library') = Len(library) /\ Grows
<1> DEFINE r == [library[row[w]] EXCEPT !.profile = DriverOf[job[w]]]
<1>1. /\ row[w] \in 1..Len(library) /\ library[row[w]] \in Row
      /\ DriverOf[job[w]] \in Drivers \cup {NoDriver}
  BY RowType, CurrentType DEF Attribute
<1>2. r \in Row /\ r.key = library[row[w]].key /\ r.driver = library[row[w]].driver
  BY <1>1 DEF Row
<1>3. library' = [library EXCEPT ![row[w]] = r]
  BY DEF Attribute
<1> HIDE DEF r
<1> QED
  BY <1>1, <1>2, <1>3, UpdateStep

LEMMA ReassignStep ==
    ASSUME TypeInv, NEW d \in Placeholders, Reassign(d)
    PROVE  library' \in Seq(Row) /\ Len(library') = Len(library) /\ Grows
<1> DEFINE f(i) == IF library[i].profile = d
                   THEN [library[i] EXCEPT !.profile = Claimant] ELSE library[i]
<1>1. library \in Seq(Row) /\ Claimant \in Drivers
  BY ConstantsOK DEF TypeInv, TypeOK
<1>2. Len(library) \in Nat /\ \A i \in 1..Len(library) : library[i] \in Row
  BY <1>1, LenProperties, ElementOfSeq
<1>3. \A i \in 1..Len(library) :
         f(i) \in Row /\ f(i).key = library[i].key /\ f(i).driver = library[i].driver
  BY <1>1, <1>2 DEF Row
<1>4. library' = [i \in 1..Len(library) |-> f(i)]
  BY DEF Reassign
<1> HIDE DEF f
<1>5. library' \in [1..Len(library) -> Row]
  BY <1>3, <1>4
<1>6. library' \in Seq(Row)
  BY <1>2, <1>5, SeqDef
<1>7. Len(library') = Len(library)
  <2>1. DOMAIN library' = 1..Len(library')  /\ Len(library') \in Nat
    BY <1>6, LenProperties
  <2>2. DOMAIN library' = 1..Len(library)
    BY <1>4
  <2> QED
    BY <2>1, <2>2, <1>2
<1> QED
  BY <1>2, <1>3, <1>4, <1>6, <1>7 DEF Grows

\* Every other step leaves the library alone.
LEMMA OtherStep ==
    ASSUME Next,
           ~ \E w \in Workers : Save(w) \/ Link(w) \/ Finish(w) \/ Attribute(w),
           ~ \E d \in Placeholders : Reassign(d)
    PROVE  UNCHANGED library
  BY DEF Next, Submit, Age, Step, Stop, Start, Sweep, Nap, Drained, Claim, Process,
         Fetch, Raise, Find, Complete, Fail

LEMMA LibraryStep ==
    ASSUME TypeInv, [Next]_vars
    PROVE  library' \in Seq(Row) /\ Grows
<1>1. CASE \E w \in Workers : Save(w) \/ Link(w) \/ Finish(w) \/ Attribute(w)
  BY <1>1, SaveStep, LinkStep, FinishStep, AttributeStep
<1>2. CASE \E d \in Placeholders : Reassign(d)
  BY <1>2, ReassignStep
<1>3. CASE UNCHANGED library
  BY <1>3, LenProperties DEF Grows, TypeInv, TypeOK
<1> QED
  BY <1>1, <1>2, <1>3, OtherStep DEF vars

LEMMA GrowsStored ==
    ASSUME TypeInv, library' \in Seq(Row), Grows, NEW k, NEW d, Stored(k, d)
    PROVE  Stored(k, d)'
<1>1. PICK i \in 1..Len(library) : Matches(library[i], k, d)
  BY DEF Stored
<1>2. Len(library) \in Nat /\ Len(library') \in Nat
  BY LenProperties DEF TypeInv, TypeOK
<1>3. i \in 1..Len(library')
  BY <1>2 DEF Grows
<1>4. Matches(library'[i], k, d)
  BY <1>1 DEF Grows, Matches
<1> QED
  BY <1>3, <1>4 DEF Stored

LEMMA TypeOKStep == TypeInv /\ [Next]_vars => TypeOK'
<1> SUFFICES ASSUME TypeInv, [Next]_vars PROVE TypeOK'
  OBVIOUS
<1> USE ConstantsOK DEF TypeInv, TypeOK, queueVars, workerVars, Goto
<1>0. library' \in Seq(Row)
  BY LibraryStep
<1>1. ASSUME NEW b \in Batches, Submit(b) \/ Age(b) PROVE TypeOK'
  BY <1>0, <1>1 DEF Submit, Age, Status
<1>2. ASSUME NEW w \in Workers, Start(w) \/ Sweep(w) \/ Nap(w) \/ Drained(w)
      PROVE TypeOK'
  BY <1>0, <1>2 DEF Start, Sweep, Nap, Drained, Status, PC
<1>3. ASSUME NEW w \in Workers, NEW b \in Batches, Claim(w, b) PROVE TypeOK'
  BY <1>0, <1>3 DEF Claim, Status, PC, Busy
<1>4. ASSUME NEW w \in Workers, Stop(w) PROVE TypeOK'
  BY <1>0, <1>4 DEF Stop, Release, PC
<1>5. ASSUME NEW w \in Workers, Fetch(w) \/ Raise(w) \/ Find(w) PROVE TypeOK'
  <2>1. at[w] + 1 \in Nat \ {0}
    OBVIOUS
  <2>2. at' \in [Workers -> Nat \ {0}]
    BY <1>5, <2>1 DEF Fetch, Raise, Find
  <2>3. pc' \in [Workers -> PC]
    BY <1>5 DEF Fetch, Raise, Find, PC, Busy
  <2> QED
    BY <1>0, <1>5, <2>2, <2>3 DEF Fetch, Raise, Find
<1>6. ASSUME NEW w \in Workers, Save(w) PROVE TypeOK'
  <2>1. Len(library) + 1 \in Nat
    BY LenProperties
  <2>2. row' \in [Workers -> Nat]
    BY <1>6, <2>1 DEF Save
  <2> QED
    BY <1>0, <1>6, <2>2 DEF Save, PC, Busy
<1>7. ASSUME NEW w \in Workers, NextSession(w) \/ UNCHANGED <<at, row, made>>
      PROVE  at' \in [Workers -> Nat \ {0}] /\ row' \in [Workers -> Nat]
             /\ made' \in [Workers -> Nat]
  <2>1. at[w] + 1 \in Nat \ {0} /\ made[w] + 1 \in Nat
    OBVIOUS
  <2>2. CASE NextSession(w)
    <3>1. /\ at' = [at EXCEPT ![w] = @ + 1] /\ row' = [row EXCEPT ![w] = 0]
          /\ made' = [made EXCEPT ![w] = @ + 1]
      BY <2>2 DEF NextSession
    <3> QED
      BY <2>1, <3>1
  <2> QED
    BY <1>7, <2>2
<1>8. ASSUME NEW w \in Workers, Link(w) \/ Finish(w) \/ Attribute(w) PROVE TypeOK'
  <2>1. /\ at' \in [Workers -> Nat \ {0}]
        /\ row' \in [Workers -> Nat]
        /\ made' \in [Workers -> Nat]
    <3>1. NextSession(w) \/ UNCHANGED <<at, row, made>>
      BY <1>8 DEF Link, Finish, Attribute
    <3> QED
      BY <1>7, <3>1
  <2>2. pc' \in [Workers -> PC]
    BY <1>8 DEF Link, Finish, Attribute, NextSession, PC, Busy
  <2> QED
    BY <1>0, <1>8, <2>1, <2>2 DEF Link, Finish, Attribute
<1>9. ASSUME NEW w \in Workers, Complete(w) \/ Fail(w) PROVE TypeOK'
  <2>1. job[w] \in Batches
    BY <1>9 DEF Complete, Fail, LoopOK, LoopOf, Busy
  <2>2. /\ pc' \in [Workers -> PC] /\ job' \in [Workers -> Batches \cup {NoBatch}]
        /\ at' \in [Workers -> Nat \ {0}] /\ row' \in [Workers -> Nat]
        /\ made' \in [Workers -> Nat]
    <3>1. Release(w, "poll")
      BY <1>9 DEF Complete, Fail
    <3> QED
      BY <3>1 DEF Release, PC
  <2>3. status' \in [Batches -> Status] /\ error' \in [Batches -> BOOLEAN]
    BY <1>9, <2>1 DEF Complete, Fail, Status
  <2>4. created' \in [Batches -> Nat \cup {-1}]
    BY <1>9, <2>1 DEF Complete, Fail
  <2> QED
    BY <1>0, <1>9, <2>2, <2>3, <2>4 DEF Complete, Fail
<1>10. ASSUME NEW d \in Placeholders, Reassign(d) PROVE TypeOK'
  BY <1>0, <1>10 DEF Reassign
<1>11. CASE UNCHANGED vars
  BY <1>11 DEF vars
<1> QED
  BY <1>1, <1>2, <1>3, <1>4, <1>5, <1>6, <1>8, <1>9, <1>10, <1>11
     DEF Next, Step, Process

-----------------------------------------------------------------------------
\* The worker's loop.

\* A step of one worker leaves the others where they are.
LEMMA OthersStay ==
    ASSUME TypeInv, NEW w \in Workers, Step(w) \/ Stop(w), NEW v \in Workers, v # w
    PROVE  /\ pc'[v] = pc[v] /\ job'[v] = job[v] /\ at'[v] = at[v]
           /\ row'[v] = row[v] /\ made'[v] = made[v]
<1> USE DEF TypeInv, TypeOK, Goto
<1>1. CASE Start(w) \/ Sweep(w) \/ Nap(w) \/ Drained(w) \/ Stop(w)
  BY <1>1 DEF Start, Sweep, Nap, Drained, Stop, Release
<1>2. CASE \E b \in Batches : Claim(w, b)
  BY <1>2 DEF Claim
<1>3. CASE Fetch(w) \/ Raise(w) \/ Find(w) \/ Save(w)
  BY <1>3 DEF Fetch, Raise, Find, Save
<1>4. CASE Link(w) \/ Finish(w) \/ Attribute(w)
  BY <1>4 DEF Link, Finish, Attribute, NextSession
<1>5. CASE Complete(w) \/ Fail(w)
  BY <1>5 DEF Complete, Fail, Release
<1> QED
  BY <1>1, <1>2, <1>3, <1>4, <1>5 DEF Step, Process

LEMMA LoopKept ==
    ASSUME TypeInv, Grows, library' \in Seq(Row), NEW v \in Workers,
           pc'[v] = pc[v], job'[v] = job[v], at'[v] = at[v], row'[v] = row[v]
    PROVE  LoopOf(v)'
<1>1. Len(library) \in Nat /\ Len(library') \in Nat /\ LoopOf(v)
  BY LenProperties DEF TypeInv, TypeOK, LoopOK
<1>2. Current(v)' = Current(v)
  BY DEF Current
<1> QED
  BY <1>1, <1>2 DEF LoopOf, Grows

\* The worker that took the step.
LEMMA LoopOfStepper ==
    ASSUME TypeInv, NEW w \in Workers, Step(w) \/ Stop(w),
           library' \in Seq(Row), Grows
    PROVE  LoopOf(w)'
<1> USE DEF TypeInv, TypeOK, Goto, Busy
<1>0. LoopOf(w)
  BY DEF LoopOK
<1>1. CASE Start(w) \/ Sweep(w) \/ Nap(w) \/ Drained(w)
  BY <1>0, <1>1 DEF Start, Sweep, Nap, Drained, LoopOf
<1>2. CASE Release(w, "down") \/ Release(w, "poll")
  BY <1>2 DEF Release, LoopOf
<1>3. CASE \E b \in Batches : Claim(w, b)
  BY <1>0, <1>3 DEF Claim, LoopOf
<1>4. CASE Fetch(w) \/ Raise(w) \/ Find(w)
  <2>1. Len(Content[job[w]]) \in Nat
    <3>1. job[w] \in Batches
      BY <1>0, <1>4 DEF LoopOf, Fetch, Raise, Find
    <3> QED
      BY <3>1, ConstantsOK, LenProperties
  <2>2. pc'[w] \in {"find", "fail", "save"} /\ job'[w] = job[w]
    BY <1>4 DEF Fetch, Raise, Find
  <2>3. pc'[w] = "save" => at'[w] <= Len(Content[job[w]])
    BY <1>4 DEF Fetch, Raise, Find
  <2> QED
    BY <1>0, <1>4, <2>2, <2>3 DEF LoopOf, Fetch, Raise, Find
<1>5. CASE Save(w)
  <2>1. /\ row'[w] = Len(library) + 1 /\ pc'[w] = "link"
        /\ at'[w] = at[w] /\ job'[w] = job[w] /\ pc[w] = "save"
    BY <1>5 DEF Save
  <2>2. Current(w)' = Current(w)
    BY <2>1 DEF Current
  <2>3. Len(library) \in Nat
    BY LenProperties
  <2> QED
    BY <1>0, <1>5, <2>1, <2>2, <2>3, SaveStep DEF LoopOf
<1>6. CASE NextSession(w) /\ UNCHANGED job /\ pc[w] \in Busy
  BY <1>0, <1>6 DEF NextSession, LoopOf
<1>7. CASE pc[w] \in {"link", "finish"} /\ pc'[w] \in {"finish", "attribute"}
           /\ UNCHANGED <<job, at, row>>
  <2>1. Current(w)' = Current(w) /\ Len(library) \in Nat /\ Len(library') \in Nat
    BY <1>7, LenProperties DEF Current
  <2> QED
    BY <1>0, <1>7, <2>1 DEF LoopOf, Grows
<1>8. CASE Link(w)
  BY <1>7, <1>8 DEF Link
<1>9. CASE Finish(w)
  BY <1>6, <1>7, <1>9 DEF Finish
<1>10. CASE Attribute(w)
  BY <1>6, <1>10 DEF Attribute
<1> QED
  BY <1>1, <1>2, <1>3, <1>4, <1>5, <1>8, <1>9, <1>10
     DEF Step, Process, Stop, Complete, Fail

LEMMA TypeInvStep == TypeInv /\ [Next]_vars => TypeInv'
<1> SUFFICES ASSUME TypeInv, [Next]_vars PROVE TypeInv'
  OBVIOUS
<1>1. TypeOK' /\ library' \in Seq(Row) /\ Grows
  BY TypeOKStep, LibraryStep
<1>2. ASSUME NEW v \in Workers PROVE LoopOf(v)'
  <2>1. CASE \E w \in Workers : Step(w) \/ Stop(w)
    <3>1. PICK w \in Workers : Step(w) \/ Stop(w)
      BY <2>1
    <3>2. CASE v = w
      BY <1>1, <3>1, <3>2, LoopOfStepper
    <3>3. CASE v # w
      BY <1>1, <3>1, <3>3, OthersStay, LoopKept
    <3> QED
      BY <3>2, <3>3
  <2>2. CASE UNCHANGED workerVars
    BY <1>1, <2>2, LoopKept DEF workerVars
  <2> QED
    BY <2>1, <2>2 DEF Next, Submit, Age, Reassign, vars, workerVars
<1> QED
  BY <1>1, <1>2 DEF TypeInv, LoopOK

LEMMA TypeInvInit == Init => TypeInv
<1> SUFFICES ASSUME Init PROVE TypeInv
  OBVIOUS
<1>1. <<>> \in Seq(Row)
  BY EmptySeq
<1> QED
  BY <1>1, ConstantsOK DEF Init, TypeInv, TypeOK, LoopOK, LoopOf, Status, PC, Busy

\* Every variable keeps its type, the growing sessions table included, and a
\* worker's loop variables stay in range of the file it works on.
THEOREM TypeCorrect == Spec => []TypeOK
<1>1. TypeInv => TypeOK
  BY DEF TypeInv
<1> QED
  BY <1>1, TypeInvInit, TypeInvStep, PTL DEF Spec

-----------------------------------------------------------------------------
\* What the loop has passed is in the library, whatever else happens to the
\* batch meanwhile: no assumption on timeliness, failures or stops.

PassedOf(w) ==
    pc[w] \in Busy =>
        \A n \in 1..Len(Content[job[w]]) :
            n < at[w] => Stored(Content[job[w]][n], DriverOf[job[w]])

StoredInv == TypeInv /\ (\A w \in Workers : PassedOf(w)) /\ StoredBeforeComplete

LEMMA PassedKept ==
    ASSUME TypeInv, Grows, library' \in Seq(Row), NEW v \in Workers, PassedOf(v),
           pc'[v] = pc[v] \/ pc'[v] \notin Busy \/ pc[v] \in Busy,
           job'[v] = job[v], at'[v] = at[v]
    PROVE  PassedOf(v)'
<1> SUFFICES ASSUME pc'[v] \in Busy, NEW n \in 1..Len(Content[job[v]]), n < at[v]
             PROVE  Stored(Content[job[v]][n], DriverOf[job[v]])'
  BY DEF PassedOf
<1>1. Stored(Content[job[v]][n], DriverOf[job[v]])
  BY DEF PassedOf
<1> QED
  BY <1>1, GrowsStored

\* The row a worker has saved counts as its current session.
LEMMA SavedIsStored ==
    ASSUME TypeInv, NEW w \in Workers, pc[w] \in {"link", "finish", "attribute"}
    PROVE  Stored(Current(w), DriverOf[job[w]])
  BY DEF TypeInv, LoopOK, LoopOf, Stored, Matches

LEMMA PassedNext ==
    ASSUME TypeInv, Grows, library' \in Seq(Row), NEW w \in Workers, PassedOf(w),
           pc[w] \in Busy, at'[w] = at[w] + 1, job'[w] = job[w],
           Stored(Current(w), DriverOf[job[w]])
    PROVE  PassedOf(w)'
<1> SUFFICES ASSUME NEW n \in 1..Len(Content[job[w]]), n < at[w] + 1
             PROVE  Stored(Content[job[w]][n], DriverOf[job[w]])'
  BY DEF PassedOf
<1>1. at[w] \in Nat /\ Len(Content[job[w]]) \in Nat
  <2>1. job[w] \in Batches
    BY DEF TypeInv, LoopOK, LoopOf
  <2> QED
    BY <2>1, ConstantsOK, LenProperties DEF TypeInv, TypeOK
<1>2. Stored(Content[job[w]][n], DriverOf[job[w]])
  <2>1. CASE n < at[w]
    BY <2>1 DEF PassedOf
  <2>2. CASE n = at[w]
    BY <2>2 DEF Current
  <2> QED
    BY <1>1, <2>1, <2>2
<1> QED
  BY <1>2, GrowsStored

LEMMA PassedOfStepper ==
    ASSUME TypeInv, Grows, library' \in Seq(Row), NEW w \in Workers,
           Step(w) \/ Stop(w), PassedOf(w)
    PROVE  PassedOf(w)'
<1> USE DEF Goto
<1>0. pc[w] \in PC /\ pc \in [Workers -> PC] /\ at \in [Workers -> Nat \ {0}]
      /\ job \in [Workers -> Batches \cup {NoBatch}] /\ LoopOf(w)
  BY DEF TypeInv, TypeOK, LoopOK
<1>1. CASE Start(w) \/ Sweep(w) \/ Nap(w) \/ Drained(w)
  BY <1>0, <1>1 DEF Start, Sweep, Nap, Drained, PassedOf, Busy
<1>2. CASE Release(w, "down") \/ Release(w, "poll")
  BY <1>0, <1>2 DEF Release, PassedOf, Busy
<1>3. CASE \E b \in Batches : Claim(w, b)
  <2>1. at'[w] = 1
    BY <1>0, <1>3 DEF Claim, LoopOf, Busy
  <2> QED
    BY <2>1 DEF PassedOf
<1>4. CASE /\ pc[w] \in Busy /\ job'[w] = job[w] /\ at'[w] = at[w]
  BY <1>4, PassedKept
<1>5. CASE Fetch(w) \/ Raise(w) \/ Save(w) \/ Link(w)
  <2>1. pc[w] \in Busy /\ job'[w] = job[w] /\ at'[w] = at[w]
    BY <1>5 DEF Fetch, Raise, Save, Link, Busy
  <2> QED
    BY <1>4, <2>1
<1>6. CASE Find(w)
  <2>1. pc[w] \in Busy /\ job'[w] = job[w]
    BY <1>6 DEF Find, Busy
  <2>2. CASE Stored(Current(w), DriverOf[job[w]])
    <3>1. at'[w] = at[w] + 1
      BY <1>0, <1>6, <2>2 DEF Find
    <3> QED
      BY <2>1, <2>2, <3>1, PassedNext
  <2>3. CASE ~Stored(Current(w), DriverOf[job[w]])
    <3>1. at'[w] = at[w]
      BY <1>6, <2>3 DEF Find
    <3> QED
      BY <1>4, <2>1, <3>1
  <2> QED
    BY <2>2, <2>3
<1>7. CASE NextSession(w) /\ UNCHANGED job /\ pc[w] \in {"finish", "attribute"}
  <2>1. pc[w] \in Busy /\ job'[w] = job[w] /\ at'[w] = at[w] + 1
    BY <1>0, <1>7 DEF NextSession, Busy
  <2> QED
    BY <1>7, <2>1, SavedIsStored, PassedNext
<1>8. CASE Finish(w)
  <2>1. CASE DriverOf[job[w]] = NoDriver
    BY <1>7, <1>8, <2>1 DEF Finish
  <2>2. CASE DriverOf[job[w]] # NoDriver
    BY <1>4, <1>8, <2>2 DEF Finish, Busy
  <2> QED
    BY <2>1, <2>2
<1>9. CASE Attribute(w)
  BY <1>7, <1>9 DEF Attribute
<1> QED
  BY <1>1, <1>2, <1>3, <1>5, <1>6, <1>8, <1>9
     DEF Step, Process, Stop, Complete, Fail

\* A batch turns complete only by a Complete, at the end of its loop.
LEMMA CompletesAtTheEnd ==
    ASSUME TypeInv, [Next]_vars, NEW b \in Batches,
           status[b] # "complete", status'[b] = "complete"
    PROVE  \E w \in Workers : Complete(w) /\ job[w] = b
<1> USE DEF TypeInv, TypeOK, queueVars
<1>1. CASE \E c \in Batches : Submit(c) \/ Age(c)
  BY <1>1 DEF Submit, Age
<1>2. CASE \E d \in Placeholders : Reassign(d)
  BY <1>2 DEF Reassign
<1>3. CASE UNCHANGED vars
  BY <1>3 DEF vars
<1>4. ASSUME NEW w \in Workers,
             Start(w) \/ Sweep(w) \/ Nap(w) \/ Drained(w) \/ Stop(w)
      PROVE  FALSE
  BY <1>4 DEF Start, Sweep, Nap, Drained, Stop
<1>5. ASSUME NEW w \in Workers, NEW c \in Batches, Claim(w, c) PROVE FALSE
  BY <1>5 DEF Claim
<1>6. ASSUME NEW w \in Workers,
             Fetch(w) \/ Raise(w) \/ Find(w) \/ Save(w) \/ Link(w) \/ Finish(w)
                \/ Attribute(w) \/ Fail(w)
      PROVE  FALSE
  BY <1>6 DEF Fetch, Raise, Find, Save, Link, Finish, Attribute, Fail
<1>7. ASSUME NEW w \in Workers, Complete(w) PROVE job[w] = b
  BY <1>7 DEF Complete
<1> QED
  BY <1>1, <1>2, <1>3, <1>4, <1>5, <1>6, <1>7 DEF Next, Step, Process

LEMMA StoredInvStep == StoredInv /\ [Next]_vars => StoredInv'
<1> SUFFICES ASSUME StoredInv, [Next]_vars PROVE StoredInv'
  OBVIOUS
<1>1. TypeInv /\ TypeInv' /\ library' \in Seq(Row) /\ Grows
  BY TypeInvStep, LibraryStep DEF StoredInv
<1>2. ASSUME NEW v \in Workers PROVE PassedOf(v)'
  <2>0. PassedOf(v)
    BY DEF StoredInv
  <2>1. CASE \E w \in Workers : Step(w) \/ Stop(w)
    <3>1. PICK w \in Workers : Step(w) \/ Stop(w)
      BY <2>1
    <3>2. CASE v = w
      BY <1>1, <2>0, <3>1, <3>2, PassedOfStepper
    <3>3. CASE v # w
      <4>1. pc'[v] = pc[v] /\ job'[v] = job[v] /\ at'[v] = at[v]
        BY <1>1, <3>1, <3>3, OthersStay
      <4> QED
        BY <1>1, <2>0, <4>1, PassedKept
    <3> QED
      BY <3>2, <3>3
  <2>2. CASE UNCHANGED workerVars
    BY <1>1, <2>0, <2>2, PassedKept DEF workerVars
  <2> QED
    BY <2>1, <2>2 DEF Next, Submit, Age, Reassign, vars, workerVars
<1>3. ASSUME NEW b \in Batches, status'[b] = "complete", NEW n \in 1..Len(Content[b])
      PROVE  Stored(Content[b][n], DriverOf[b])
  <2>1. CASE status[b] = "complete"
    BY <1>3, <2>1 DEF StoredInv, StoredBeforeComplete
  <2>2. CASE status[b] # "complete"
    <3>1. PICK w \in Workers : Complete(w) /\ job[w] = b
      BY <1>1, <1>3, <2>2, CompletesAtTheEnd
    <3>2. pc[w] \in Busy /\ at[w] > Len(Content[b]) /\ at[w] \in Nat
      BY <1>1, <3>1 DEF Complete, Busy, TypeInv, TypeOK
    <3>3. Len(Content[b]) \in Nat
      BY ConstantsOK, LenProperties
    <3>4. n < at[w]
      BY <3>2, <3>3
    <3> QED
      BY <3>1, <3>2, <3>4 DEF StoredInv, PassedOf
  <2> QED
    BY <2>1, <2>2
<1>4. StoredBeforeComplete'
  BY <1>1, <1>3, GrowsStored DEF StoredBeforeComplete
<1> QED
  BY <1>1, <1>2, <1>4 DEF StoredInv

\* A batch is reported complete only when every session of its file is in the
\* library, for any number of workers, slow ones included: mark_complete comes
\* after a loop that stores or finds each session in turn, and rows never go.
THEOREM CompleteMeansStored == Spec => []StoredBeforeComplete
<1>1. Init => StoredInv
  <2>1. Init => TypeInv
    BY TypeInvInit
  <2>2. Init => \A w \in Workers : PassedOf(w)
    BY DEF Init, PassedOf, Busy
  <2>3. Init => StoredBeforeComplete
    BY DEF Init, StoredBeforeComplete
  <2> QED
    BY <2>1, <2>2, <2>3 DEF StoredInv
<1>2. StoredInv => StoredBeforeComplete
  BY DEF StoredInv
<1> QED
  BY <1>1, <1>2, StoredInvStep, PTL DEF Spec

-----------------------------------------------------------------------------
\* Error messages and failed batches correspond.

LEMMA ErrorStep ==
    ASSUME TypeInv, ErrorIffFailed, [Next]_vars
    PROVE  ErrorIffFailed'
<1>0. status \in [Batches -> Status] /\ error \in [Batches -> BOOLEAN]
  BY DEF TypeInv, TypeOK
<1>1. ASSUME NEW b \in Batches, Submit(b) PROVE ErrorIffFailed'
  BY <1>0, <1>1 DEF Submit, ErrorIffFailed
<1>2. ASSUME NEW w \in Workers, Sweep(w) PROVE ErrorIffFailed'
  BY <1>0, <1>2 DEF Sweep, ErrorIffFailed
<1>3. ASSUME NEW w \in Workers, NEW b \in Batches, Claim(w, b) PROVE ErrorIffFailed'
  BY <1>0, <1>3 DEF Claim, ErrorIffFailed
<1>4. ASSUME NEW w \in Workers, Complete(w) PROVE ErrorIffFailed'
  <2>1. job[w] \in Batches
    BY <1>4 DEF Complete, TypeInv, LoopOK, LoopOf, Busy
  <2> QED
    BY <1>0, <1>4, <2>1 DEF Complete, ErrorIffFailed
<1>5. ASSUME NEW w \in Workers, Fail(w) PROVE ErrorIffFailed'
  <2>1. job[w] \in Batches
    BY <1>5 DEF Fail, TypeInv, LoopOK, LoopOf, Busy
  <2> QED
    BY <1>0, <1>5, <2>1 DEF Fail, ErrorIffFailed
<1>6. CASE UNCHANGED <<status, error>>
  BY <1>6 DEF ErrorIffFailed
<1>7. ASSUME NEW w \in Workers,
             Start(w) \/ Nap(w) \/ Drained(w) \/ Stop(w) \/ Fetch(w) \/ Raise(w)
             \/ Find(w) \/ Save(w) \/ Link(w) \/ Finish(w) \/ Attribute(w)
      PROVE  UNCHANGED <<status, error>>
  BY <1>7 DEF Start, Nap, Drained, Stop, Fetch, Raise, Find, Save, Link, Finish,
              Attribute, queueVars
<1>8. ASSUME NEW b \in Batches, Age(b) PROVE UNCHANGED <<status, error>>
  BY <1>8 DEF Age
<1>9. ASSUME NEW d \in Placeholders, Reassign(d) PROVE UNCHANGED <<status, error>>
  BY <1>9 DEF Reassign, queueVars
<1>10. CASE UNCHANGED vars
  BY <1>6, <1>10 DEF vars, queueVars
<1> QED
  BY <1>1, <1>2, <1>3, <1>4, <1>5, <1>6, <1>7, <1>8, <1>9, <1>10 DEF Next, Step, Process

\* The uploader is shown an error exactly on a failed batch, for any number of
\* workers, any number of them settling one batch in any order: a row leaves
\* `failed` only by mark_complete, which clears the message.
THEOREM ErrorsTellTheOutcome == Spec => []ErrorIffFailed
<1>1. Init => TypeInv /\ ErrorIffFailed
  BY TypeInvInit DEF Init, ErrorIffFailed
<1>2. TypeInv /\ ErrorIffFailed /\ [Next]_vars => (TypeInv /\ ErrorIffFailed)'
  BY TypeInvStep, ErrorStep
<1> QED
  BY <1>1, <1>2, PTL DEF Spec


-----------------------------------------------------------------------------
\* What "Stored n sessions" counts.

\* The rows of a library that are sessions of b's file.
RowsOf(lib, b) == {i \in 1..Len(lib) : InFile(b, lib[i].key)}

Counted(lib, b) == Cardinality(RowsOf(lib, b))

\* Every session worker w has counted, and the one it has just saved, is such
\* a row.
CountOf(w) ==
    /\ pc[w] \notin Busy \/ pc[w] = "fetch" => made[w] = 0
    /\ pc[w] \in {"find", "save"} => made[w] <= Counted(library, job[w])
    /\ pc[w] \in {"link", "finish", "attribute"} =>
           made[w] + 1 <= Counted(library, job[w])

CountInv == TypeInv /\ NeverOverclaims /\ \A w \in Workers : CountOf(w)

LEMMA CountedType ==
    ASSUME NEW lib, lib \in Seq(Row), NEW b
    PROVE  IsFiniteSet(RowsOf(lib, b)) /\ Counted(lib, b) \in Nat
<1>1. Len(lib) \in Nat
  BY LenProperties
<1>2. IsFiniteSet(1..Len(lib)) /\ RowsOf(lib, b) \in SUBSET (1..Len(lib))
  BY <1>1, FS_Interval DEF RowsOf
<1> QED
  BY <1>2, FS_Subset, FS_CardinalityType DEF Counted

\* Rows never go, and keep their identity.
LEMMA CountedGrows ==
    ASSUME TypeInv, library' \in Seq(Row), Grows
    PROVE  \A b : Counted(library, b) <= Counted(library', b)
<1> SUFFICES ASSUME NEW b PROVE Counted(library, b) <= Counted(library', b)
  OBVIOUS
<1>1. Len(library) \in Nat /\ Len(library') \in Nat /\ library \in Seq(Row)
  BY LenProperties DEF TypeInv, TypeOK
<1>2. RowsOf(library, b) \in SUBSET RowsOf(library', b)
  BY <1>1 DEF RowsOf, Grows
<1>3. IsFiniteSet(RowsOf(library', b))
  BY CountedType
<1> QED
  BY <1>2, <1>3, FS_Subset DEF Counted

\* A save adds one row to the batch's.
LEMMA SaveAddsRow ==
    ASSUME TypeInv, NEW w \in Workers, Save(w)
    PROVE  Counted(library, job[w]) + 1 <= Counted(library', job[w])
<1> DEFINE n == Len(library) + 1
           old == RowsOf(library, job[w])
           new == RowsOf(library', job[w])
<1>1. Len(library) \in Nat /\ Len(library') = n /\ Grows
      /\ library'[n].key = Current(w) /\ library \in Seq(Row) /\ library' \in Seq(Row)
  BY SaveStep, LenProperties DEF TypeInv, TypeOK
<1>2. at[w] \in 1..Len(Content[job[w]])
  BY CurrentType DEF Save
<1>3. InFile(job[w], Current(w))
  BY <1>2 DEF InFile, Current
<1>4. old \cup {n} \in SUBSET new /\ n \notin old
  BY <1>1, <1>3 DEF RowsOf, Grows
<1>5. IsFiniteSet(old) /\ Cardinality(old) \in Nat /\ IsFiniteSet(new)
  BY <1>1, CountedType DEF Counted
<1> HIDE DEF n, old, new
<1>7. Cardinality(old \cup {n}) = Cardinality(old) + 1
  BY <1>4, <1>5, FS_AddElement
<1>8. Cardinality(old \cup {n}) <= Cardinality(new)
  BY <1>4, <1>5, FS_Subset
<1> QED
  BY <1>7, <1>8 DEF Counted, old, new

\* A worker that stays where it is counts what it counted.
LEMMA CountKept ==
    ASSUME TypeInv, library' \in Seq(Row), Grows, NEW v \in Workers, CountOf(v),
           pc'[v] = pc[v], job'[v] = job[v], made'[v] = made[v]
    PROVE  CountOf(v)'
<1>1. Counted(library, job[v]) <= Counted(library', job[v])
  BY CountedGrows
<1>2. /\ Counted(library, job[v]) \in Nat /\ Counted(library', job[v]) \in Nat
      /\ made[v] \in Nat
  BY CountedType DEF TypeInv, TypeOK
<1> QED
  BY <1>1, <1>2 DEF CountOf

LEMMA CountOfStepper ==
    ASSUME TypeInv, library' \in Seq(Row), Grows, NEW w \in Workers, CountOf(w),
           Step(w) \/ Stop(w)
    PROVE  CountOf(w)'
<1>0. Counted(library, job[w]) <= Counted(library', job[w])
  BY CountedGrows
<1>1. /\ Counted(library, job[w]) \in Nat /\ Counted(library', job[w]) \in Nat
      /\ made \in [Workers -> Nat] /\ pc \in [Workers -> PC]
      /\ job \in [Workers -> Batches \cup {NoBatch}]
  BY CountedType DEF TypeInv, TypeOK
<1>2. CASE Start(w) \/ Sweep(w) \/ Nap(w) \/ Drained(w) \/ Raise(w)
  BY <1>1, <1>2 DEF Start, Sweep, Nap, Drained, Raise, Goto, CountOf, Busy
<1>3. CASE Stop(w) \/ Complete(w) \/ Fail(w)
  BY <1>1, <1>3 DEF Stop, Complete, Fail, Release, Goto, CountOf, Busy
<1>4. ASSUME NEW b \in Batches, Claim(w, b) PROVE CountOf(w)'
  BY <1>1, <1>4 DEF Claim, Goto, CountOf, Busy
<1>5. CASE Fetch(w)
  BY <1>0, <1>1, <1>5 DEF Fetch, Goto, CountOf, Busy
<1>6. CASE Find(w)
  BY <1>0, <1>1, <1>6 DEF Find, Goto, CountOf, Busy
<1>7. CASE Save(w)
  <2>1. Counted(library, job[w]) + 1 <= Counted(library', job[w])
    BY <1>7, SaveAddsRow
  <2>2. pc[w] = "save" /\ pc'[w] = "link" /\ job'[w] = job[w] /\ made'[w] = made[w]
    BY <1>1, <1>7 DEF Save, Goto
  <2>3. made[w] <= Counted(library, job[w]) /\ made[w] \in Nat
    BY <1>1, <2>2 DEF CountOf
  <2> QED
    BY <1>1, <2>1, <2>2, <2>3 DEF CountOf, Busy
<1>8. CASE Link(w)
  <2>1. pc[w] = "link" /\ pc'[w] = "finish" /\ job'[w] = job[w] /\ made'[w] = made[w]
    BY <1>1, <1>8 DEF Link, Goto
  <2> QED
    BY <1>0, <1>1, <2>1 DEF CountOf, Busy
<1>9. CASE Finish(w) \/ Attribute(w)
  <2>1. /\ pc[w] \in {"finish", "attribute"} /\ job'[w] = job[w]
        /\ \/ pc'[w] = "find" /\ made'[w] = made[w] + 1
           \/ pc'[w] = "attribute" /\ made'[w] = made[w]
    BY <1>1, <1>9 DEF Finish, Attribute, NextSession, Goto
  <2>2. made[w] + 1 <= Counted(library, job[w]) /\ made[w] \in Nat
    BY <1>1, <2>1 DEF CountOf
  <2>3. made[w] + 1 <= Counted(library', job[w])
    BY <1>0, <1>1, <2>2
  <2> QED
    BY <1>1, <2>1, <2>3 DEF CountOf, Busy
<1> QED
  BY <1>2, <1>3, <1>4, <1>5, <1>6, <1>7, <1>8, <1>9 DEF Step, Process

\* sessions_created is written at the end of the loop only.
LEMMA CreatedStep ==
    ASSUME TypeInv, [Next]_vars
    PROVE  \A b \in Batches : created'[b] # created[b] =>
               \E w \in Workers : Complete(w) /\ job[w] = b /\ created'[b] = made[w]
<1>0. created \in [Batches -> Nat \cup {-1}]
  BY DEF TypeInv, TypeOK
<1>1. CASE \E w \in Workers : Complete(w)
  BY <1>0, <1>1 DEF Complete
<1>2. CASE UNCHANGED created
  BY <1>2
<1> QED
  BY <1>1, <1>2 DEF Next, Step, Process, Submit, Age, Start, Sweep, Nap, Drained, Claim,
     Stop, Fetch, Raise, Find, Save, Link, Finish, Attribute, Fail, Reassign,
     vars, queueVars

LEMMA CountInvStep == CountInv /\ [Next]_vars => CountInv'
<1> SUFFICES ASSUME CountInv, [Next]_vars PROVE CountInv'
  OBVIOUS
<1>1. TypeInv /\ TypeInv' /\ library' \in Seq(Row) /\ Grows
  BY TypeInvStep, LibraryStep DEF CountInv
<1>2. ASSUME NEW v \in Workers PROVE CountOf(v)'
  <2>0. CountOf(v)
    BY DEF CountInv
  <2>1. CASE \E w \in Workers : Step(w) \/ Stop(w)
    <3>1. PICK w \in Workers : Step(w) \/ Stop(w)
      BY <2>1
    <3>2. CASE v = w
      BY <1>1, <2>0, <3>1, <3>2, CountOfStepper
    <3>3. CASE v # w
      <4>1. pc'[v] = pc[v] /\ job'[v] = job[v] /\ made'[v] = made[v]
        BY <1>1, <3>1, <3>3, OthersStay
      <4> QED
        BY <1>1, <2>0, <4>1, CountKept
    <3> QED
      BY <3>2, <3>3
  <2>2. CASE UNCHANGED workerVars
    BY <1>1, <2>0, <2>2, CountKept DEF workerVars
  <2> QED
    BY <2>1, <2>2 DEF Next, Submit, Age, Reassign, vars, workerVars
<1>3. ASSUME NEW b \in Batches PROVE created'[b] <= Counted(library', b)
  <2>1. /\ Counted(library, b) \in Nat /\ Counted(library', b) \in Nat
        /\ Counted(library, b) <= Counted(library', b)
        /\ created[b] \in Nat \cup {-1}
    BY <1>1, CountedType, CountedGrows DEF TypeInv, TypeOK
  <2>2. CASE created'[b] = created[b]
    <3>1. created[b] <= Counted(library, b)
      BY DEF CountInv, NeverOverclaims, Counted, RowsOf
    <3> QED
      BY <2>1, <2>2, <3>1
  <2>3. CASE created'[b] # created[b]
    <3>1. PICK w \in Workers : Complete(w) /\ job[w] = b /\ created'[b] = made[w]
      BY <1>1, <2>3, CreatedStep
    <3>2. made[w] <= Counted(library, b) /\ made[w] \in Nat
      BY <3>1 DEF Complete, CountInv, CountOf, TypeInv, TypeOK
    <3> QED
      BY <2>1, <3>1, <3>2
  <2> QED
    BY <2>2, <2>3
<1>4. NeverOverclaims'
  BY <1>3 DEF NeverOverclaims, Counted, RowsOf
<1> QED
  BY <1>1, <1>2, <1>4 DEF CountInv

\* "Stored n sessions" never says more than the library holds of that file,
\* for any number of workers, slow ones and restarted ones included:
\* sessions_created is a count of this worker's own saves since its claim, and
\* rows never go.
THEOREM NeverTooMany == Spec => []NeverOverclaims
<1>1. Init => CountInv
  <2>1. Init => TypeInv
    BY TypeInvInit
  <2>2. Init => \A w \in Workers : CountOf(w)
    BY DEF Init, CountOf, Busy
  <2>3. ASSUME Init PROVE NeverOverclaims
    <3>1. \A b \in Batches : created[b] = -1 /\ Counted(library, b) \in Nat
      BY <2>1, <2>3, CountedType DEF Init, TypeInv, TypeOK
    <3> QED
      BY <3>1 DEF NeverOverclaims, Counted, RowsOf
  <2> QED
    BY <2>1, <2>2, <2>3 DEF CountInv
<1>2. CountInv => NeverOverclaims
  BY DEF CountInv
<1> QED
  BY <1>1, <1>2, CountInvStep, PTL DEF Spec

-----------------------------------------------------------------------------
\* Who owns which batch, when workers are timely or there is only one.

Alone == \A v, w \in Workers : v = w

OwnedBy(w, b) ==
    /\ status[b] = "processing"
    /\ Timely => claimed[b] = "recent"
    /\ \A v \in Workers : Holds(v, b) => v = w

OwnInv == TypeInv /\ \A w \in Workers, b \in Batches : Holds(w, b) => OwnedBy(w, b)

\* A worker comes to hold a batch only by claiming it.
LEMMA HeldOrClaimed ==
    ASSUME TypeInv, [Next]_vars, NEW v \in Workers, NEW b \in Batches, Holds(v, b)'
    PROVE  Holds(v, b) \/ Claim(v, b)
<1> USE DEF TypeInv, TypeOK, Goto, Holds
<1>1. CASE UNCHANGED <<pc, job>>
  BY <1>1
<1>2. ASSUME NEW w \in Workers, Step(w) \/ Stop(w), w # v PROVE Holds(v, b)
  BY <1>2, OthersStay
<1>3. CASE Start(v) \/ Sweep(v) \/ Nap(v) \/ Drained(v)
  BY <1>3 DEF Start, Sweep, Nap, Drained, Busy
<1>4. ASSUME NEW c \in Batches, Claim(v, c) PROVE Claim(v, b)
  BY <1>4 DEF Claim
<1>5. CASE pc[v] \in Busy /\ UNCHANGED job
  BY <1>5
<1>6. CASE Process(v) /\ ~Complete(v) /\ ~Fail(v)
  <2>1. pc[v] \in Busy /\ UNCHANGED job
    BY <1>6 DEF Process, Fetch, Raise, Find, Save, Link, Finish, Attribute, Busy
  <2> QED
    BY <1>5, <2>1
<1>7. CASE Release(v, "down") \/ Release(v, "poll")
  BY <1>7 DEF Release, Busy
<1> QED
  BY <1>1, <1>2, <1>3, <1>4, <1>6, <1>7
     DEF Next, Step, Stop, Complete, Fail, Submit, Age, Reassign, vars, workerVars

\* The claim of a batch that stays held survives every step.
LEMMA ClaimKept ==
    ASSUME Timely \/ Alone, OwnInv, [Next]_vars, NEW v \in Workers, NEW b \in Batches,
           Holds(v, b), Holds(v, b)'
    PROVE  status'[b] = "processing" /\ (Timely => claimed'[b] = "recent")
<1>0. /\ OwnedBy(v, b) /\ pc[v] \in Busy /\ job[v] = b
      /\ status \in [Batches -> Status]
      /\ claimed \in [Batches -> {"null", "recent", "old"}]
      /\ pc \in [Workers -> PC]
  BY DEF OwnInv, Holds, TypeInv, TypeOK
<1> USE <1>0 DEF OwnedBy
<1>1. CASE UNCHANGED <<status, claimed>>
  BY <1>1
<1>2. ASSUME NEW c \in Batches, Submit(c) \/ Age(c)
      PROVE  status'[b] = "processing" /\ (Timely => claimed'[b] = "recent")
  <2>1. CASE Submit(c)
    BY <2>1 DEF Submit
  <2>2. CASE Age(c)
    BY <2>2 DEF Age
  <2> QED
    BY <1>2, <2>1, <2>2
<1>3. ASSUME NEW w \in Workers, NEW c \in Batches, Claim(w, c)
      PROVE  status'[b] = "processing" /\ (Timely => claimed'[b] = "recent")
  BY <1>3 DEF Claim
<1>4. ASSUME NEW w \in Workers, Sweep(w)
      PROVE  status'[b] = "processing" /\ (Timely => claimed'[b] = "recent")
  <2>1. CASE Timely
    BY <1>4, <2>1 DEF Sweep
  <2>2. CASE Alone
    BY <1>4, <2>2 DEF Sweep, Alone, Busy
  <2> QED
    BY <2>1, <2>2
<1>5. ASSUME NEW w \in Workers, Complete(w) \/ Fail(w)
      PROVE  status'[b] = "processing" /\ (Timely => claimed'[b] = "recent")
  <2>1. w # v
    <3>1. pc'[w] = "poll"
      BY <1>5 DEF Complete, Fail, Release, Goto
    <3> QED
      BY <3>1 DEF Holds, Busy
  <2>2. pc[w] \in Busy
    BY <1>5 DEF Complete, Fail, Busy
  <2>3. job[w] # b
    BY <2>1, <2>2 DEF Holds
  <2> QED
    BY <1>5, <2>3 DEF Complete, Fail
<1>6. ASSUME NEW w \in Workers,
             \/ Start(w) \/ Nap(w) \/ Drained(w) \/ Stop(w) \/ Fetch(w) \/ Raise(w)
             \/ Find(w) \/ Save(w) \/ Link(w) \/ Finish(w) \/ Attribute(w)
      PROVE  UNCHANGED <<status, claimed>>
  BY <1>6 DEF Start, Nap, Drained, Stop, Fetch, Raise, Find, Save, Link, Finish,
              Attribute, queueVars
<1> QED
  BY <1>1, <1>2, <1>3, <1>4, <1>5, <1>6
     DEF Next, Step, Process, Reassign, vars, queueVars

LEMMA OwnInvStep ==
    ASSUME Timely \/ Alone, OwnInv, [Next]_vars
    PROVE  OwnInv'
<1>1. TypeInv /\ TypeInv'
  BY TypeInvStep DEF OwnInv
<1>2. ASSUME NEW v \in Workers, NEW b \in Batches, Claim(v, b)
      PROVE  /\ status[b] = "pending" /\ status'[b] = "processing"
             /\ claimed'[b] = "recent" /\ pc[v] = "poll"
             /\ \A u \in Workers : u # v => pc'[u] = pc[u]
  BY <1>1, <1>2 DEF Claim, Goto, TypeInv, TypeOK
<1>3. ASSUME NEW u \in Workers, NEW v \in Workers, NEW b \in Batches,
             Holds(u, b)', Holds(v, b)'
      PROVE  u = v
  <2>1. (Holds(u, b) \/ Claim(u, b)) /\ (Holds(v, b) \/ Claim(v, b))
    BY <1>1, <1>3, HeldOrClaimed
  <2>2. ~(Holds(u, b) /\ Claim(v, b)) /\ ~(Holds(v, b) /\ Claim(u, b))
    BY <1>2 DEF OwnInv, OwnedBy
  <2>3. Holds(u, b) /\ Holds(v, b) => u = v
    BY DEF OwnInv, OwnedBy
  <2>4. Claim(u, b) /\ Claim(v, b) => u = v
    BY <1>2, <1>3 DEF Holds, Busy
  <2> QED
    BY <2>1, <2>2, <2>3, <2>4
<1>4. ASSUME NEW v \in Workers, NEW b \in Batches, Holds(v, b)'
      PROVE  status'[b] = "processing" /\ (Timely => claimed'[b] = "recent")
  BY <1>1, <1>2, <1>4, HeldOrClaimed, ClaimKept
<1> QED
  BY <1>1, <1>3, <1>4 DEF OwnInv, OwnedBy

LEMMA OwnInvInit == Init => OwnInv
  BY TypeInvInit DEF Init, OwnInv, Holds, Busy

\* If no live worker outlives its claim, no two workers are ever at work on
\* one batch: SKIP LOCKED, the sweep's age limit and the updates by id of
\* mark_complete and mark_failed together keep a claim exclusive.
THEOREM ClaimIsExclusive ==
    ASSUME Timely
    PROVE  Spec => []OneWorkerPerBatch
<1>1. OwnInv => OneWorkerPerBatch
  BY DEF OwnInv, OwnedBy, OneWorkerPerBatch
<1>2. OwnInv /\ [Next]_vars => OwnInv'
  BY OwnInvStep
<1> QED
  BY <1>1, <1>2, OwnInvInit, PTL DEF Spec

-----------------------------------------------------------------------------
\* Duplicates.  find_session and save_session are two transactions; what was
\* not in the library at the first must still not be there at the second.

\* No two queued files share a session that one of them could duplicate.
Unrivalled ==
    \A b, c \in Batches :
        \A m \in 1..Len(Content[b]), n \in 1..Len(Content[c]) :
            b # c /\ Content[b][m] = Content[c][n] =>
                /\ DriverOf[b] # DriverOf[c]
                /\ DriverOf[b] # NoDriver /\ DriverOf[c] # NoDriver

NoRace == Alone \/ (Timely /\ Unrivalled)

FreshOf(w) == pc[w] = "save" => ~Stored(Current(w), DriverOf[job[w]])

FreshInv == OwnInv /\ NoDuplicates /\ \A w \in Workers : FreshOf(w)

\* Every row of the library after a step is an old one, or the one just saved.
LEMMA OldOrSaved ==
    ASSUME TypeInv, [Next]_vars, NEW i \in 1..Len(library')
    PROVE  \/ /\ i \in 1..Len(library)
              /\ library'[i].key = library[i].key
              /\ library'[i].driver = library[i].driver
           \/ \E w \in Workers :
                  /\ Save(w) /\ i = Len(library) + 1
                  /\ library'[i].key = Current(w)
                  /\ library'[i].driver = DriverOf[job[w]]
<1>1. library' \in Seq(Row) /\ Grows /\ Len(library) \in Nat /\ Len(library') \in Nat
  BY LibraryStep, LenProperties DEF TypeInv, TypeOK
<1>2. CASE \E w \in Workers : Save(w)
  <2>1. PICK w \in Workers : Save(w)
    BY <1>2
  <2>2. /\ Len(library') = Len(library) + 1
        /\ library'[Len(library) + 1].key = Current(w)
        /\ library'[Len(library) + 1].driver = DriverOf[job[w]]
    BY <2>1, SaveStep
  <2>3. CASE i = Len(library) + 1
    BY <2>1, <2>2, <2>3
  <2>4. CASE i # Len(library) + 1
    <3>1. i \in 1..Len(library)
      BY <1>1, <2>2, <2>4
    <3> QED
      BY <1>1, <3>1 DEF Grows
  <2> QED
    BY <2>3, <2>4
<1>3. CASE \E w \in Workers : Link(w) \/ Finish(w) \/ Attribute(w)
  BY <1>1, <1>3, LinkStep, FinishStep, AttributeStep DEF Grows
<1>4. CASE \E d \in Placeholders : Reassign(d)
  BY <1>1, <1>4, ReassignStep DEF Grows
<1>5. CASE UNCHANGED library
  BY <1>5
<1> QED
  BY <1>2, <1>3, <1>4, <1>5, OtherStep DEF vars

\* A worker about to save finds the library as find_session found it.
LEMMA FreshKept ==
    ASSUME NoRace, FreshInv, [Next]_vars, NEW w \in Workers, pc[w] = "save",
           pc'[w] = "save", job'[w] = job[w], at'[w] = at[w]
    PROVE  FreshOf(w)'
<1> SUFFICES ASSUME Stored(Current(w), DriverOf[job[w]])' PROVE FALSE
  BY DEF FreshOf
<1>0. TypeInv /\ OwnInv
  BY DEF FreshInv, OwnInv
<1>1. PICK i \in 1..Len(library') :
         Matches(library'[i], Content[job[w]][at[w]], DriverOf[job[w]])
  BY DEF Stored, Current
<1>2. ~ \E j \in 1..Len(library) :
           Matches(library[j], Content[job[w]][at[w]], DriverOf[job[w]])
  BY DEF FreshInv, FreshOf, Stored, Current
<1>3. PICK v \in Workers : /\ Save(v)
                           /\ library'[i].key = Current(v)
                           /\ library'[i].driver = DriverOf[job[v]]
  BY <1>0, <1>1, <1>2, OldOrSaved DEF Matches
<1>4. v # w
  <2>1. pc'[v] = "link"
    BY <1>0, <1>3 DEF Save, Goto, TypeInv, TypeOK
  <2> QED
    BY <2>1
<1>5. Unrivalled
  BY <1>4 DEF NoRace, Alone
<1>6. /\ job[v] \in Batches /\ at[v] \in 1..Len(Content[job[v]])
      /\ job[w] \in Batches /\ at[w] \in 1..Len(Content[job[w]])
  BY <1>0, <1>3, CurrentType DEF Save
<1>7. job[v] # job[w]
  <2>1. pc[v] \in Busy /\ pc[w] \in Busy
    BY <1>3 DEF Save, Busy
  <2> QED
    BY <1>0, <1>4, <1>6, <2>1 DEF OwnInv, OwnedBy, Holds
<1>8. Content[job[v]][at[v]] = Content[job[w]][at[w]]
  BY <1>1, <1>3 DEF Matches, Current
<1>9. DriverOf[job[w]] = NoDriver \/ DriverOf[job[v]] = DriverOf[job[w]]
  BY <1>1, <1>3 DEF Matches
<1> QED
  BY <1>5, <1>6, <1>7, <1>8, <1>9 DEF Unrivalled

LEMMA FreshStep ==
    ASSUME NoRace, FreshInv, [Next]_vars, NEW w \in Workers
    PROVE  FreshOf(w)'
<1> SUFFICES ASSUME pc'[w] = "save" PROVE FreshOf(w)'
  BY DEF FreshOf
<1>0. TypeInv
  BY DEF FreshInv, OwnInv
<1> USE DEF Goto
<1>1. CASE Find(w)
  <2>1. pc[w] = "find"
    BY <1>1 DEF Find
  <2>2. ~Stored(Current(w), DriverOf[job[w]])
    BY <1>1, <2>1 DEF Find
  <2>3. UNCHANGED <<job, at, library>>
    BY <1>1, <2>2 DEF Find
  <2> QED
    BY <2>2, <2>3 DEF FreshOf, Stored, Current
<1>2. CASE (Step(w) \/ Stop(w)) /\ ~Find(w)
  <2>1. pc'[w] # "save"
    BY <1>0, <1>2 DEF Step, Stop, Start, Sweep, Nap, Drained, Claim, Release, Process,
       Fetch, Raise, Save, Link, Finish, Attribute, NextSession, Complete, Fail,
       TypeInv, TypeOK
  <2> QED
    BY <2>1
<1>3. ASSUME NEW v \in Workers, Step(v) \/ Stop(v), v # w PROVE FreshOf(w)'
  BY <1>0, <1>3, OthersStay, FreshKept
<1>4. CASE UNCHANGED workerVars
  BY <1>4, FreshKept DEF workerVars
<1> QED
  BY <1>1, <1>2, <1>3, <1>4 DEF Next, Submit, Age, Reassign, vars, workerVars

LEMMA FreshInvStep ==
    ASSUME NoRace, FreshInv, [Next]_vars
    PROVE  FreshInv'
<1>0. TypeInv /\ OwnInv /\ Len(library) \in Nat
  BY LenProperties DEF FreshInv, OwnInv, TypeInv, TypeOK
<1>1. OwnInv'
  BY <1>0, OwnInvStep DEF NoRace
<1>2. ASSUME NEW w \in Workers, Save(w), NEW j \in 1..Len(library),
             library[j].key = Current(w), library[j].driver = DriverOf[job[w]]
      PROVE  FALSE
  BY <1>2 DEF FreshInv, FreshOf, Save, Stored, Matches
<1>3. NoDuplicates'
  <2> SUFFICES ASSUME NEW i \in 1..Len(library'), NEW j \in 1..Len(library'),
                      library'[i].key = library'[j].key,
                      library'[i].driver = library'[j].driver
               PROVE  i = j
    BY DEF NoDuplicates
  <2>1. CASE i \in 1..Len(library) /\ j \in 1..Len(library)
    <3>1. library[i].key = library[j].key /\ library[i].driver = library[j].driver
      BY <1>0, <2>1, LibraryStep DEF Grows
    <3> QED
      BY <2>1, <3>1 DEF FreshInv, NoDuplicates
  <2>2. CASE i \notin 1..Len(library) /\ j \notin 1..Len(library)
    BY <1>0, <2>2, OldOrSaved
  <2>3. CASE i \in 1..Len(library) /\ j \notin 1..Len(library)
    <3>1. library'[i].key = library[i].key /\ library'[i].driver = library[i].driver
      BY <1>0, <2>3, LibraryStep DEF Grows
    <3> QED
      BY <1>0, <1>2, <2>3, <3>1, OldOrSaved
  <2>4. CASE i \notin 1..Len(library) /\ j \in 1..Len(library)
    <3>1. library'[j].key = library[j].key /\ library'[j].driver = library[j].driver
      BY <1>0, <2>4, LibraryStep DEF Grows
    <3> QED
      BY <1>0, <1>2, <2>4, <3>1, OldOrSaved
  <2> QED
    BY <2>1, <2>2, <2>3, <2>4
<1>4. \A w \in Workers : FreshOf(w)'
  BY FreshStep
<1> QED
  BY <1>1, <1>3, <1>4 DEF FreshInv

LEMMA FreshInvInit == Init => FreshInv
<1>1. Init => Len(library) = 0
  BY EmptySeq DEF Init
<1> QED
  BY <1>1, OwnInvInit DEF Init, FreshInv, FreshOf, NoDuplicates

\* A session is never stored twice for a driver: for one worker, however slow
\* and however often killed, and for several timely ones as long as no two
\* queued files hold the same session for the same driver.  Both conditions
\* are needed: without them two workers store a session twice (README, 4).
THEOREM NothingTwice ==
    ASSUME NoRace
    PROVE  Spec => []NoDuplicates
<1>1. FreshInv => NoDuplicates
  BY DEF FreshInv
<1>2. FreshInv /\ [Next]_vars => FreshInv'
  BY FreshInvStep
<1> QED
  BY <1>1, <1>2, FreshInvInit, PTL DEF Spec

-----------------------------------------------------------------------------
\* Copies of a session, whoever races for it: what a worker holds between
\* find_session and save_session is counted with what is stored.

\* Who is about to save has looked, now or before.
LEMMA RacersLooked ==
    ASSUME TypeInv, [Next]_vars, NEW w \in Workers, pc'[w] = "save"
    PROVE  \/ pc[w] = "save" /\ job'[w] = job[w] /\ at'[w] = at[w]
           \/ /\ ~Stored(Current(w), DriverOf[job[w]])
              /\ UNCHANGED <<job, at, library>>
<1> USE DEF Goto
<1>1. CASE Find(w)
  <2>1. pc[w] = "find"
    BY <1>1 DEF Find
  <2>2. ~Stored(Current(w), DriverOf[job[w]])
    BY <1>1, <2>1 DEF Find
  <2> QED
    BY <1>1, <2>2 DEF Find
<1>2. CASE (Step(w) \/ Stop(w)) /\ ~Find(w)
  <2>1. pc'[w] # "save"
    BY <1>2 DEF Step, Stop, Start, Sweep, Nap, Drained, Claim, Release, Process,
       Fetch, Raise, Save, Link, Finish, Attribute, NextSession, Complete, Fail,
       TypeInv, TypeOK
  <2> QED
    BY <2>1
<1>3. ASSUME NEW v \in Workers, Step(v) \/ Stop(v), v # w
      PROVE  pc'[w] = pc[w] /\ job'[w] = job[w] /\ at'[w] = at[w]
  BY <1>3, OthersStay
<1>4. CASE UNCHANGED workerVars
  BY <1>4 DEF workerVars
<1> QED
  BY <1>1, <1>2, <1>3, <1>4 DEF Next, Submit, Age, Reassign, vars, workerVars

\* A session there are copies of gains no racer.
LEMMA RacersLeave ==
    ASSUME TypeInv, [Next]_vars, NEW k, NEW d, Copies(k, d) # {}
    PROVE  Racing(k, d)' \subseteq Racing(k, d)
<1> SUFFICES ASSUME NEW w \in Racing(k, d)' PROVE w \in Racing(k, d)
  OBVIOUS
<1>1. /\ w \in Workers /\ pc'[w] = "save"
      /\ Content[job'[w]][at'[w]] = k /\ DriverOf[job'[w]] = d
  BY DEF Racing, Current
<1>2. Stored(k, d)
  BY DEF Copies, Stored, Matches
<1>3. CASE pc[w] = "save" /\ job'[w] = job[w] /\ at'[w] = at[w]
  BY <1>1, <1>3 DEF Racing, Current
<1>4. CASE ~Stored(Current(w), DriverOf[job[w]]) /\ UNCHANGED <<job, at, library>>
  BY <1>1, <1>2, <1>4 DEF Current
<1> QED
  BY <1>1, <1>3, <1>4, RacersLooked

\* A copy more is saved by a racer, which then races no more.
LEMMA CopiesStep ==
    ASSUME TypeInv, [Next]_vars, NEW k, NEW d
    PROVE  \/ Copies(k, d)' = Copies(k, d)
           \/ \E w \in Racing(k, d) :
                 /\ Copies(k, d)' = Copies(k, d) \cup {Len(library) + 1}
                 /\ Racing(k, d)' \subseteq Racing(k, d) \ {w}
<1>1. /\ Grows /\ Len(library) \in Nat /\ Len(library') \in Nat
  BY LibraryStep, LenProperties DEF TypeInv, TypeOK
<1>2. Copies(k, d) \subseteq Copies(k, d)'
  BY <1>1 DEF Copies, Grows
<1>3. CASE Copies(k, d)' \subseteq Copies(k, d)
  BY <1>2, <1>3
<1>4. ASSUME NEW i \in Copies(k, d)', i \notin Copies(k, d)
      PROVE  \E w \in Racing(k, d) :
                 /\ Copies(k, d)' = Copies(k, d) \cup {Len(library) + 1}
                 /\ Racing(k, d)' \subseteq Racing(k, d) \ {w}
  <2>1. i \in 1..Len(library') /\ library'[i].key = k /\ library'[i].driver = d
    BY DEF Copies
  <2>2. ~(i \in 1..Len(library) /\ library[i].key = k /\ library[i].driver = d)
    BY <1>4 DEF Copies
  <2>3. PICK w \in Workers : /\ Save(w) /\ i = Len(library) + 1
                             /\ Current(w) = k /\ DriverOf[job[w]] = d
    BY <2>1, <2>2, OldOrSaved
  <2>4. w \in Racing(k, d)
    BY <2>3 DEF Racing, Save
  <2>5. Copies(k, d)' = Copies(k, d) \cup {Len(library) + 1}
    <3>1. /\ Len(library') = Len(library) + 1
          /\ \A j \in 1..Len(library) : library'[j] = library[j]
      BY <2>3, SaveStep
    <3> QED
      BY <1>1, <2>1, <2>3, <3>1 DEF Copies
  <2>6. Racing(k, d)' \subseteq Racing(k, d) \ {w}
    <3> SUFFICES ASSUME NEW v \in Racing(k, d)' PROVE v \in Racing(k, d) /\ v # w
      OBVIOUS
    <3>1. v \in Workers /\ pc'[v] = "save" /\ UNCHANGED <<job, at>>
      BY <2>3 DEF Racing, Save
    <3>2. v # w
      BY <2>3, <3>1 DEF Save, Goto, TypeInv, TypeOK
    <3>3. pc'[v] = pc[v]
      BY <2>3, <3>1, <3>2 DEF Save, Goto, TypeInv, TypeOK
    <3>4. Content[job[v]][at[v]] = k /\ DriverOf[job[v]] = d
      BY <3>1 DEF Racing, Current
    <3> QED
      BY <3>1, <3>2, <3>3, <3>4 DEF Racing, Current
  <2> QED
    BY <2>4, <2>5, <2>6
<1> QED
  BY <1>3, <1>4

LEMMA RaceStep ==
    ASSUME TypeInv, OnlyRacersDuplicate, [Next]_vars,
           NEW k \in Sessions, NEW d \in Drivers \cup {NoDriver}, Copies(k, d)' # {}
    PROVE  Cardinality(Copies(k, d)') + Cardinality(Racing(k, d)') <= Cardinality(Workers)
<1> DEFINE C == Copies(k, d)  R == Racing(k, d)  n == Len(library) + 1
           D == Copies(k, d)' S == Racing(k, d)'
<1>1. Len(library) \in Nat /\ IsFiniteSet(1..Len(library)) /\ C \subseteq 1..Len(library)
  BY LenProperties, FS_Interval DEF TypeInv, TypeOK, Copies
<1>2. R \subseteq Workers /\ IsFiniteSet(Workers)
  BY ConstantsOK DEF Racing
<1>3. /\ IsFiniteSet(C) /\ IsFiniteSet(R) /\ Cardinality(C) \in Nat /\ Cardinality(R) \in Nat
      /\ Cardinality(R) <= Cardinality(Workers) /\ Cardinality(Workers) \in Nat
  BY <1>1, <1>2, FS_Subset, FS_CardinalityType
<1>4. CASE D = C
  <2>1. C # {}
    BY <1>4
  <2>2. S \subseteq R
    BY <2>1, RacersLeave
  <2>3. Cardinality(S) <= Cardinality(R) /\ Cardinality(S) \in Nat
    BY <1>3, <2>2, FS_Subset, FS_CardinalityType
  <2>4. Cardinality(C) + Cardinality(R) <= Cardinality(Workers)
    BY <2>1 DEF OnlyRacersDuplicate
  <2>5. Cardinality(D) = Cardinality(C)
    BY <1>4
  <2> HIDE DEF C, R, D, S
  <2>6. Cardinality(D) + Cardinality(S) <= Cardinality(Workers)
    BY <1>3, <2>3, <2>4, <2>5
  <2> QED
    BY <2>6 DEF D, S
<1>5. ASSUME NEW w \in R, D = C \cup {n}, S \subseteq R \ {w}
      PROVE  Cardinality(D) + Cardinality(S) <= Cardinality(Workers)
  <2>1. IsFiniteSet(R \ {w}) /\ Cardinality(R \ {w}) = Cardinality(R) - 1
    BY <1>3, <1>5, FS_RemoveElement
  <2>2. Cardinality(S) <= Cardinality(R) - 1 /\ Cardinality(S) \in Nat
    BY <1>5, <2>1, FS_Subset, FS_CardinalityType
  <2>3. n \notin C
    BY <1>1
  <2>4. Cardinality(D) = Cardinality(C) + 1
    BY <1>3, <1>5, <2>3, FS_AddElement
  <2>5. C = {} => Cardinality(C) = 0
    BY FS_EmptySet
  <2>6. C # {} => Cardinality(C) + Cardinality(R) <= Cardinality(Workers)
    BY DEF OnlyRacersDuplicate
  <2> HIDE DEF C, R, D, S
  <2> QED
    BY <1>3, <2>2, <2>4, <2>5, <2>6
<1> QED
  BY <1>4, <1>5, CopiesStep

\* However many workers, uploads, retries, slow claims and kills there are: a
\* session in the library is stored again for its driver only by workers that had
\* looked for it before it was there, and so never more often than there are
\* workers.
THEOREM CopiesAreRacers == Spec => []OnlyRacersDuplicate
<1>1. Init => OnlyRacersDuplicate
  <2>1. Init => Len(library) = 0
    BY EmptySeq DEF Init
  <2> QED
    BY <2>1 DEF OnlyRacersDuplicate, Copies
<1>2. TypeInv /\ OnlyRacersDuplicate /\ [Next]_vars => OnlyRacersDuplicate'
  BY RaceStep DEF OnlyRacersDuplicate
<1> QED
  BY <1>1, <1>2, TypeInvInit, TypeInvStep, PTL DEF Spec

-----------------------------------------------------------------------------
\* What a session still lacks, when nothing fails and nobody is stopped, its
\* worker is about to add.

InProgress(i) ==
    /\ library[i].batch = NoBatch => \E w \in Workers : pc[w] = "link" /\ row[w] = i
    /\ ~library[i].analysed =>
           \E w \in Workers : pc[w] \in {"link", "finish"} /\ row[w] = i
    /\ library[i].profile \in {library[i].driver, Claimant}

FinishInv ==
    /\ OwnInv /\ StoredInv /\ CompleteMeansFinished
    /\ calm => \A i \in 1..Len(library) : InProgress(i)

LEMMA CalmStays == [Next]_vars => calm' = calm
  BY DEF Next, Submit, Age, Step, Stop, Start, Sweep, Nap, Drained, Claim, Process,
         Fetch, Raise, Find, Save, Link, Finish, Attribute, Complete, Fail, Reassign, vars

\* What a row has been given it keeps.
Keeps(i) ==
    /\ library'[i].key = library[i].key /\ library'[i].driver = library[i].driver
    /\ library[i].batch # NoBatch => library'[i].batch # NoBatch
    /\ library[i].analysed => library'[i].analysed
    /\ library'[i].profile \in {library[i].profile, library[i].driver, Claimant}

\* The three statements that fill in a row.
LEMMA FillSteps ==
    ASSUME TypeInv, calm, NEW w \in Workers
    PROVE  /\ Link(w) => /\ library' = [library EXCEPT ![row[w]].batch = job[w]]
                         /\ job[w] # NoBatch
           /\ Finish(w) => library' = [library EXCEPT ![row[w]].analysed = TRUE]
           /\ Attribute(w) => /\ library' = [library EXCEPT ![row[w]].profile = DriverOf[job[w]]]
                              /\ library[row[w]].driver = DriverOf[job[w]]
           /\ Link(w) \/ Finish(w) \/ Attribute(w) => row[w] \in 1..Len(library)
<1>1. Link(w) => job[w] # NoBatch
  BY CurrentType, ConstantsOK DEF Link
<1>2. Attribute(w) => library[row[w]].driver = DriverOf[job[w]]
  BY DEF Attribute, TypeInv, LoopOK, LoopOf
<1>3. Link(w) \/ Finish(w) \/ Attribute(w) => row[w] \in 1..Len(library)
  BY RowType DEF Link, Finish, Attribute
<1> QED
  BY <1>1, <1>2, <1>3 DEF Link, Finish, Attribute

LEMMA OldRows ==
    ASSUME TypeInv, calm, [Next]_vars, NEW i \in 1..Len(library)
    PROVE  Keeps(i)
<1>0. library \in Seq(Row) /\ library[i] \in Row
  BY ElementOfSeq DEF TypeInv, TypeOK
<1>1. CASE UNCHANGED library
  BY <1>1 DEF Keeps
<1>2. ASSUME NEW w \in Workers, Save(w) PROVE Keeps(i)
  BY <1>2, SaveStep DEF Keeps
<1>a. DOMAIN library = 1..Len(library)
  BY <1>0, LenProperties
<1>3. ASSUME NEW w \in Workers, Link(w) PROVE Keeps(i)
  <2>1. library'[i] = IF row[w] = i THEN [library[i] EXCEPT !.batch = job[w]] ELSE library[i]
    <3>1. library' = [library EXCEPT ![row[w]].batch = job[w]]
      BY <1>3, FillSteps
    <3> QED
      BY <1>a, <3>1
  <2>2. job[w] # NoBatch
    BY <1>3, FillSteps
  <2> QED
    BY <1>0, <2>1, <2>2 DEF Keeps, Row
<1>4. ASSUME NEW w \in Workers, Finish(w) PROVE Keeps(i)
  <2>1. library'[i] = IF row[w] = i THEN [library[i] EXCEPT !.analysed = TRUE] ELSE library[i]
    <3>1. library' = [library EXCEPT ![row[w]].analysed = TRUE]
      BY <1>4, FillSteps
    <3> QED
      BY <1>a, <3>1
  <2> QED
    BY <1>0, <2>1 DEF Keeps, Row
<1>5. ASSUME NEW w \in Workers, Attribute(w) PROVE Keeps(i)
  <2>1. library'[i] = IF row[w] = i THEN [library[i] EXCEPT !.profile = DriverOf[job[w]]]
                      ELSE library[i]
    <3>1. library' = [library EXCEPT ![row[w]].profile = DriverOf[job[w]]]
      BY <1>5, FillSteps
    <3> QED
      BY <1>a, <3>1
  <2>2. row[w] = i => library[i].driver = DriverOf[job[w]]
    BY <1>5, FillSteps
  <2> QED
    BY <1>0, <2>1, <2>2 DEF Keeps, Row
<1>6. ASSUME NEW d \in Placeholders, Reassign(d) PROVE Keeps(i)
  BY <1>0, <1>6 DEF Reassign, Keeps, Row
<1> QED
  BY <1>1, <1>2, <1>3, <1>4, <1>5, <1>6, OtherStep DEF vars

\* A worker that has something to add to a row is still about to, or has.
LEMMA HandlerStep ==
    ASSUME TypeInv, calm, [Next]_vars, NEW i \in 1..Len(library), NEW w \in Workers, row[w] = i
    PROVE  /\ pc[w] = "link" =>
                 \/ pc'[w] = "link" /\ row'[w] = i
                 \/ pc'[w] = "finish" /\ row'[w] = i /\ library'[i].batch # NoBatch
           /\ pc[w] = "finish" =>
                 \/ pc'[w] = "finish" /\ row'[w] = i
                 \/ library'[i].analysed
<1>0. /\ pc \in [Workers -> PC] /\ row \in [Workers -> Nat]
      /\ library \in Seq(Row) /\ library[i] \in Row
  BY ElementOfSeq DEF TypeInv, TypeOK
<1>1. CASE UNCHANGED workerVars
  BY <1>1 DEF workerVars
<1>2. ASSUME NEW v \in Workers, v # w, Step(v) \/ Stop(v)
      PROVE  pc'[w] = pc[w] /\ row'[w] = row[w]
  BY <1>2, OthersStay
<1>3. CASE Link(w)
  <2>1. pc'[w] = "finish" /\ row'[w] = i /\ pc[w] = "link"
    BY <1>0, <1>3 DEF Link, Goto
  <2>2. library'[i].batch = job[w] /\ job[w] # NoBatch
    BY <1>0, <1>3, FillSteps DEF Row
  <2> QED
    BY <2>1, <2>2
<1>4. CASE Finish(w)
  <2>1. library'[i].analysed
    BY <1>0, <1>4, FillSteps DEF Row
  <2> QED
    BY <1>4, <2>1 DEF Finish
<1>5. CASE Step(w) /\ ~Link(w) /\ ~Finish(w)
  <2>1. pc[w] # "link" /\ pc[w] # "finish"
    BY <1>5 DEF Step, Process, Start, Sweep, Nap, Drained, Fetch, Raise, Find, Save,
                Attribute, Complete, Fail, Claim
  <2> QED
    BY <2>1
<1>6. ASSUME Stop(w) PROVE FALSE
  BY <1>0, <1>6 DEF Stop
<1> QED
  BY <1>1, <1>2, <1>3, <1>4, <1>5, <1>6 DEF Next, Submit, Age, Reassign, vars, workerVars

LEMMA InProgressStep ==
    ASSUME FinishInv, calm, [Next]_vars, NEW i \in 1..Len(library')
    PROVE  InProgress(i)'
<1>0. TypeInv /\ Len(library) \in Nat
  BY LenProperties DEF FinishInv, OwnInv, TypeInv, TypeOK
<1>1. CASE i \in 1..Len(library)
  <2>1. Keeps(i) /\ InProgress(i)
    BY <1>0, <1>1, OldRows DEF FinishInv
  <2>2. ASSUME library'[i].batch = NoBatch
        PROVE  \E w \in Workers : pc'[w] = "link" /\ row'[w] = i
    <3>1. PICK w \in Workers : pc[w] = "link" /\ row[w] = i
      BY <2>1, <2>2 DEF Keeps, InProgress
    <3> QED
      BY <1>0, <1>1, <2>2, <3>1, HandlerStep
  <2>3. ASSUME ~library'[i].analysed
        PROVE  \E w \in Workers : pc'[w] \in {"link", "finish"} /\ row'[w] = i
    <3>1. PICK w \in Workers : pc[w] \in {"link", "finish"} /\ row[w] = i
      BY <2>1, <2>3 DEF Keeps, InProgress
    <3> QED
      BY <1>0, <1>1, <2>3, <3>1, HandlerStep
  <2>4. library'[i].profile \in {library'[i].driver, Claimant}
    BY <2>1 DEF Keeps, InProgress
  <2> QED
    BY <2>2, <2>3, <2>4 DEF InProgress
<1>2. CASE i \notin 1..Len(library)
  <2>1. PICK w \in Workers : Save(w) /\ i = Len(library) + 1
    BY <1>0, <1>2, OldOrSaved
  <2>2. pc'[w] = "link" /\ row'[w] = i
    BY <1>0, <2>1 DEF Save, Goto, TypeInv, TypeOK
  <2>3. library'[i].profile = library'[i].driver
    BY <1>0, <2>1, AppendProperties DEF Save, TypeInv, TypeOK
  <2> QED
    BY <2>2, <2>3 DEF InProgress
<1> QED
  BY <1>1, <1>2

\* At the end of a loop nobody is at a row of its file any more.
LEMMA NobodyThere ==
    ASSUME NoRace, FinishInv, NEW w \in Workers, Complete(w),
           NEW n \in 1..Len(Content[job[w]]), NEW i \in 1..Len(library),
           Matches(library[i], Content[job[w]][n], DriverOf[job[w]]),
           NEW v \in Workers, pc[v] \in {"link", "finish"}, row[v] = i
    PROVE  FALSE
<1>1. /\ pc[w] = "find" /\ job[w] \in Batches /\ v # w
      /\ \A b \in Batches : Holds(w, b) => OwnedBy(w, b)
  BY DEF Complete, FinishInv, OwnInv, TypeInv, LoopOK, LoopOf, Busy
<1>2. /\ job[v] \in Batches /\ at[v] \in 1..Len(Content[job[v]])
      /\ library[i].key = Content[job[v]][at[v]] /\ library[i].driver = DriverOf[job[v]]
  BY CurrentType DEF FinishInv, OwnInv, TypeInv, LoopOK, LoopOf, Current
<1>3. Timely /\ Unrivalled
  BY <1>1 DEF NoRace, Alone
<1>4. job[v] # job[w]
  BY <1>1 DEF Holds, OwnedBy, Busy
<1> QED
  BY <1>1, <1>2, <1>3, <1>4 DEF Unrivalled, Matches

LEMMA FinishedStep ==
    ASSUME NoRace, calm, FinishInv, [Next]_vars
    PROVE  CompleteMeansFinished'
<1>0. /\ TypeInv /\ library' \in Seq(Row) /\ Grows
      /\ Len(library) \in Nat /\ Len(library') \in Nat
  <2>1. TypeInv
    BY DEF FinishInv, OwnInv
  <2> QED
    BY <2>1, LibraryStep, LenProperties DEF TypeInv, TypeOK
<1> SUFFICES ASSUME NEW b \in Batches, status'[b] = "complete", NEW n \in 1..Len(Content[b])
             PROVE  \E i \in 1..Len(library) :
                       /\ Matches(library[i], Content[b][n], DriverOf[b])
                       /\ library[i].batch # NoBatch /\ library[i].analysed
                       /\ library[i].profile \in {library[i].driver, Claimant}
  <2>1. ASSUME NEW i \in 1..Len(library), NEW k, NEW d, Matches(library[i], k, d),
               library[i].batch # NoBatch, library[i].analysed,
               library[i].profile \in {library[i].driver, Claimant}
        PROVE  /\ i \in 1..Len(library') /\ Matches(library'[i], k, d)
               /\ library'[i].batch # NoBatch /\ library'[i].analysed
               /\ library'[i].profile \in {library'[i].driver, Claimant}
    BY <1>0, <2>1, OldRows DEF Keeps, Matches, Grows
  <2> QED
    BY <2>1 DEF CompleteMeansFinished
<1>1. CASE status[b] = "complete"
  BY <1>1 DEF FinishInv, CompleteMeansFinished
<1>2. CASE status[b] # "complete"
  <2>1. PICK w \in Workers : Complete(w) /\ job[w] = b
    BY <1>0, <1>2, CompletesAtTheEnd
  <2>2. n < at[w]
    <3>1. Len(Content[b]) \in Nat /\ at[w] \in Nat /\ at[w] > Len(Content[b])
      BY <1>0, <2>1, ConstantsOK, LenProperties DEF Complete, TypeInv, TypeOK
    <3> QED
      BY <3>1
  <2>3. PICK i \in 1..Len(library) : Matches(library[i], Content[b][n], DriverOf[b])
    BY <2>1, <2>2 DEF FinishInv, StoredInv, PassedOf, Complete, Busy, Stored
  <2>4. \A v \in Workers : ~(pc[v] \in {"link", "finish"} /\ row[v] = i)
    BY <2>1, <2>3, NobodyThere
  <2>5. InProgress(i)
    BY DEF FinishInv
  <2> QED
    BY <2>3, <2>4, <2>5 DEF InProgress
<1> QED
  BY <1>1, <1>2

\* Where nothing fails and nobody is stopped, a batch reported complete has each
\* of its sessions linked to a batch, analysed and filed under its driver or the
\* claimant, whoever stored them, as long as no worker's batch is taken over and
\* no two files compete for a session.
THEOREM CompletionFinishes ==
    ASSUME NoRace
    PROVE  Spec => []CompleteMeansFinished
<1>1. Init => FinishInv
  <2>1. Init => OwnInv
    BY OwnInvInit
  <2>2. Init => StoredInv
    BY TypeInvInit DEF Init, StoredInv, PassedOf, Busy, StoredBeforeComplete
  <2>3. Init => CompleteMeansFinished
    BY DEF Init, CompleteMeansFinished
  <2>4. Init => 1..Len(library) = {}
    BY EmptySeq, LenProperties DEF Init
  <2> QED
    BY <2>1, <2>2, <2>3, <2>4 DEF FinishInv
<1>2. FinishInv /\ [Next]_vars => FinishInv'
  <2>1. Timely \/ Alone
    BY DEF NoRace
  <2>2. FinishInv /\ [Next]_vars => OwnInv' /\ StoredInv'
    BY <2>1, OwnInvStep, StoredInvStep DEF FinishInv
  <2>3. [Next]_vars => calm' = calm
    BY CalmStays
  <2>4. FinishInv /\ [Next]_vars /\ calm' => \A i \in 1..Len(library') : InProgress(i)'
    BY <2>3, InProgressStep
  <2>5. FinishInv /\ [Next]_vars => CompleteMeansFinished'
    BY <2>3, FinishedStep DEF CompleteMeansFinished
  <2> QED
    BY <2>2, <2>4, <2>5 DEF FinishInv
<1>3. FinishInv => CompleteMeansFinished
  BY DEF FinishInv
<1> QED
  BY <1>1, <1>2, <1>3, PTL DEF Spec

-----------------------------------------------------------------------------
\* The pipeline implements UploadBatches: every step of a worker, a sweep or an
\* uploader is a step of the promise, or changes nothing it speaks of.

\* The library as the promise sees it.
Shelf == {[key |-> library[i].key, driver |-> library[i].driver] : i \in 1..Len(library)}

\* FreshInv and StoredInv, the two strengthenings the steps need.
PromiseInv == FreshInv /\ StoredInv

\* Duplicate detection in the promise is find_session's.
LEMMA SeenIsStored ==
    ASSUME NEW k, NEW d
    PROVE  Promise!InLibrary(k, d) <=> Stored(k, d)
<1>1. ASSUME Promise!InLibrary(k, d) PROVE Stored(k, d)
  <2>1. PICK i \in 1..Len(library) :
           LET e == [key |-> library[i].key, driver |-> library[i].driver]
           IN  e.key = k /\ (d = NoDriver \/ e.driver = d)
    BY <1>1 DEF Promise!InLibrary
  <2> QED
    BY <2>1 DEF Stored, Matches
<1>2. ASSUME Stored(k, d) PROVE Promise!InLibrary(k, d)
  <2>1. PICK i \in 1..Len(library) : Matches(library[i], k, d)
    BY <1>2 DEF Stored
  <2> DEFINE e == [key |-> library[i].key, driver |-> library[i].driver]
  <2>2. e \in Shelf /\ e.key = k /\ (d = NoDriver \/ e.driver = d)
    BY <2>1 DEF Shelf, Matches
  <2> QED
    BY <2>2 DEF Promise!InLibrary, Shelf
<1> QED
  BY <1>1, <1>2

LEMMA ShelfKept ==
    ASSUME TypeInv, Grows, Len(library') = Len(library)
    PROVE  Shelf' = Shelf
  BY DEF Shelf, Grows

LEMMA ShelfGrows ==
    ASSUME TypeInv, NEW w \in Workers, Save(w)
    PROVE  Shelf' = Shelf \cup {[key |-> Current(w), driver |-> DriverOf[job[w]]]}
<1>1. /\ Len(library') = Len(library) + 1 /\ Len(library) \in Nat
      /\ \A i \in 1..Len(library) : library'[i] = library[i]
      /\ library'[Len(library) + 1].key = Current(w)
      /\ library'[Len(library) + 1].driver = DriverOf[job[w]]
  BY SaveStep, LenProperties DEF TypeInv, TypeOK
<1>2. 1..Len(library') = 1..Len(library) \cup {Len(library) + 1}
  BY <1>1
<1> QED
  BY <1>1, <1>2 DEF Shelf

-----------------------------------------------------------------------------
\* One lemma per kind of step.

LEMMA QueueSteps ==
    ASSUME PromiseInv, NEW b \in Batches,
           Submit(b) \/ \E w \in Workers : Claim(w, b)
    PROVE  Promise!Next
<1>1. CASE Submit(b)
  BY <1>1 DEF Submit, Promise!Submit, Promise!Next
<1>2. CASE \E w \in Workers : Claim(w, b)
  <2>1. Promise!Start(b)
    BY <1>2 DEF Claim, Promise!Start
  <2> QED
    BY <2>1 DEF Promise!Next
<1> QED
  BY <1>1, <1>2

LEMMA SweepSteps ==
    ASSUME PromiseInv, NEW w \in Workers, Sweep(w)
    PROVE  [Promise!Next]_(Promise!vars)
<1> DEFINE S == {b \in Batches : status[b] = "processing" /\ claimed[b] = "old"}
<1>1. /\ status' = [b \in Batches |-> IF b \in S THEN "pending" ELSE status[b]]
      /\ UNCHANGED library
  BY DEF Sweep
<1>2. status \in [Batches -> Status]
  BY DEF PromiseInv, StoredInv, TypeInv, TypeOK
<1>3. CASE S = {}
  <2>1. status' = status
    BY <1>1, <1>2, <1>3
  <2> QED
    BY <1>1, <2>1 DEF Promise!vars
<1>4. CASE S # {}
  <2>1. Promise!GiveUp(S)
    BY <1>1, <1>4 DEF Promise!GiveUp
  <2>2. S \in SUBSET Batches
    OBVIOUS
  <2> QED
    BY <2>1, <2>2 DEF Promise!Next
<1> QED
  BY <1>3, <1>4

LEMMA StoreSteps ==
    ASSUME PromiseInv, NEW w \in Workers, Save(w)
    PROVE  Promise!Next
<1>1. TypeInv /\ OwnInv
  BY DEF PromiseInv, FreshInv, OwnInv
<1>2. /\ job[w] \in Batches /\ Current(w) \in Sessions
      /\ at[w] \in 1..Len(Content[job[w]])
  BY <1>1, CurrentType DEF Save
<1>3. PICK b \in Batches, k \in Sessions : job[w] = b /\ Current(w) = k
  BY <1>2
<1>4. status[b] = "processing"
  BY <1>1, <1>3 DEF OwnInv, OwnedBy, Holds, Save, Busy
<1>5. ~Promise!InLibrary(k, DriverOf[b])
  BY <1>3, SeenIsStored DEF PromiseInv, FreshInv, FreshOf, Save
<1>6. k \in [c \in Batches |-> {Content[c][n] : n \in 1..Len(Content[c])}][b]
  BY <1>2, <1>3 DEF Current
<1>7. Shelf' = Shelf \cup {[key |-> k, driver |-> DriverOf[b]]}
  BY <1>1, <1>3, ShelfGrows
<1>8. UNCHANGED status
  BY DEF Save, queueVars
<1>9. Promise!Store(b, k)
  BY <1>4, <1>5, <1>6, <1>7, <1>8 DEF Promise!Store, Shelf
<1> QED
  BY <1>9 DEF Promise!Next

LEMMA SettleSteps ==
    ASSUME PromiseInv, NEW w \in Workers, Complete(w) \/ Fail(w)
    PROVE  Promise!Next
<1> DEFINE b == job[w]
<1>1. TypeInv /\ OwnInv
  BY DEF PromiseInv, FreshInv, OwnInv
<1>2. pc[w] \in Busy /\ b \in Batches
  BY <1>1 DEF Complete, Fail, Busy, TypeInv, LoopOK, LoopOf
<1>3. status[b] = "processing"
  BY <1>1, <1>2 DEF OwnInv, OwnedBy, Holds
<1>4. UNCHANGED library
  BY DEF Complete, Fail
<1>5. CASE Complete(w)
  <2>1. ASSUME NEW n \in 1..Len(Content[b])
        PROVE  Promise!InLibrary(Content[b][n], DriverOf[b])
    <3>1. at[w] > Len(Content[b]) /\ at[w] \in Nat
      BY <1>1, <1>5 DEF Complete, TypeInv, TypeOK
    <3>2. n < at[w]
      BY <1>2, <3>1, ConstantsOK, LenProperties
    <3>3. Stored(Content[b][n], DriverOf[b])
      BY <1>2, <3>2 DEF PromiseInv, StoredInv, PassedOf
    <3> QED
      BY <3>3, SeenIsStored
  <2>2. status' = [status EXCEPT ![b] = "complete"]
    BY <1>5 DEF Complete
  <2>3. Promise!Complete(b)
    BY <1>2, <1>3, <1>4, <2>1, <2>2 DEF Promise!Complete
  <2> QED
    BY <1>2, <2>3 DEF Promise!Next
<1>6. CASE Fail(w)
  <2>1. Promise!Fail(b)
    BY <1>3, <1>4, <1>6 DEF Fail, Promise!Fail
  <2> QED
    BY <1>2, <2>1 DEF Promise!Next
<1> QED
  BY <1>5, <1>6

LEMMA QuietSteps ==
    ASSUME PromiseInv, Next,
           UNCHANGED status, ~ \E w \in Workers : Save(w)
    PROVE  UNCHANGED Promise!vars
<1>1. TypeInv
  BY DEF PromiseInv, StoredInv
<1>2. Shelf' = Shelf
  <2>1. CASE UNCHANGED library
    BY <2>1 DEF Shelf
  <2>2. CASE UNCHANGED library \/ (Grows /\ Len(library') = Len(library))
    BY <1>1, <2>1, <2>2, ShelfKept
  <2> QED
    BY <1>1, <2>2, LinkStep, FinishStep, AttributeStep, ReassignStep, OtherStep
<1> QED
  BY <1>2 DEF Promise!vars, Shelf

LEMMA StepKeepsPromise ==
    ASSUME PromiseInv, [Next]_vars
    PROVE  [Promise!Next]_(Promise!vars)
<1>1. CASE UNCHANGED vars
  BY <1>1 DEF vars, Promise!vars
<1>2. CASE \E b \in Batches : Submit(b) \/ \E w \in Workers : Claim(w, b)
  BY <1>2, QueueSteps
<1>3. CASE \E w \in Workers : Sweep(w)
  BY <1>3, SweepSteps
<1>4. CASE \E w \in Workers : Save(w)
  BY <1>4, StoreSteps
<1>5. CASE \E w \in Workers : Complete(w) \/ Fail(w)
  BY <1>5, SettleSteps
<1>6. CASE Next /\ UNCHANGED status /\ ~ \E w \in Workers : Save(w)
  BY <1>6, QuietSteps
<1>7. ASSUME NEW w \in Workers, Step(w) \/ Stop(w)
      PROVE  \/ UNCHANGED status
             \/ \E b \in Batches : Claim(w, b)
             \/ Sweep(w) \/ Complete(w) \/ Fail(w)
  <2>1. CASE Start(w) \/ Nap(w) \/ Drained(w) \/ Stop(w)
    BY <2>1 DEF Start, Nap, Drained, Stop, queueVars
  <2>2. CASE Fetch(w) \/ Raise(w) \/ Find(w) \/ Save(w)
    BY <2>2 DEF Fetch, Raise, Find, Save, queueVars
  <2>3. CASE Link(w) \/ Finish(w) \/ Attribute(w)
    BY <2>3 DEF Link, Finish, Attribute, queueVars
  <2> QED
    BY <1>7, <2>1, <2>2, <2>3 DEF Step, Process
<1>8. ASSUME NEW b \in Batches, Age(b) PROVE UNCHANGED status
  BY <1>8 DEF Age
<1>9. ASSUME NEW d \in Placeholders, Reassign(d) PROVE UNCHANGED status
  BY <1>9 DEF Reassign, queueVars
<1> QED
  BY <1>1, <1>2, <1>3, <1>4, <1>5, <1>6, <1>7, <1>8, <1>9 DEF Next

\* The pipeline implements what it promises an uploader, for one worker or for
\* timely workers with unrivalled files: a batch settles only out of
\* "processing", completes only with its whole file in the library, gains
\* sessions only while it is worked on, and what has settled stays settled.
THEOREM PipelineKeepsPromise ==
    ASSUME NoRace
    PROVE  Spec => KeepsPromise
<1>1. Init => Promise!Init
  BY EmptySeq DEF Init, Promise!Init
<1>2. Init => PromiseInv
  <2>1. Init => TypeInv /\ FreshInv
    BY TypeInvInit, FreshInvInit
  <2>2. Init => StoredInv
    BY <2>1 DEF Init, StoredInv, PassedOf, StoredBeforeComplete, Busy
  <2> QED
    BY <2>1, <2>2 DEF PromiseInv
<1>3. PromiseInv /\ [Next]_vars => PromiseInv'
  BY FreshInvStep, StoredInvStep DEF PromiseInv
<1>4. PromiseInv /\ [Next]_vars => [Promise!Next]_(Promise!vars)
  BY StepKeepsPromise
<1> QED
  BY <1>1, <1>2, <1>3, <1>4, PTL DEF Spec, KeepsPromise, Promise!Spec

=============================================================================
