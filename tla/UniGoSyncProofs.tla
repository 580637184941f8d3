-------------------------- MODULE UniGoSyncProofs --------------------------
(***************************************************************************)
(* Proofs about UniGoSync for every set of files, threads and sessions and *)
(* for files that are written any number of times: a queued file leaves    *)
(* the queue only when it is uploaded, nothing is lost between a pass and  *)
(* the queue, and with one pass at a time nothing is uploaded twice.       *)
(***************************************************************************)
EXTENDS UniGoSync, FiniteSetTheorems, TLAPS

Entry == [name : Names, size : Nat]

\* The entries of a list; a name that occurs in it at most once.
Entries(s) == {s[i] : i \in 1..Len(s)}
Single(s, n) == \A i, j \in 1..Len(s) : s[i].name = n /\ s[j].name = n => i = j

PassLabels == {"idle", "check", "fetch", "record", "park", "requeue", "load", "save"}
FlushLabels == {"idle", "list", "load", "save", "remove"}

TypeOK ==
    /\ device \in [Names -> 0..MaxVersion]
    /\ synced \in [Names -> Nat] /\ staged \in [Names -> Nat]
    /\ queue \in Seq(Entry)
    /\ copies \in [Items -> 0..2]
    /\ lock \in Flushers \cup {Nobody}
    /\ pc \in [Threads -> PassLabels \cup FlushLabels]
    /\ \A p \in Passes : pc[p] \in PassLabels
    /\ \A f \in Flushers : pc[f] \in FlushLabels
    /\ todo \in [Threads -> Seq(Entry)] /\ fresh \in [Threads -> Seq(Entry)]
    /\ ver \in [Threads -> Nat] /\ part \in [Threads -> Nat]
    /\ crashes \in Nat

\* What a thread has left to do where it is.
Busy ==
    /\ \A t \in Threads :
           pc[t] \in {"fetch", "record", "park", "requeue", "save", "remove"} => todo[t] # <<>>
    /\ \A f \in Flushers : pc[f] \in {"idle", "list"} => todo[f] = <<>>
    /\ \A p \in Passes : pc[p] \notin {"check", "fetch", "record"} => fresh[p] = <<>>

\* The name is the primary key of the queue.
OneRowEach == \A n \in Names : Single(queue, n)

Shape == TypeOK /\ Busy /\ OneRowEach

\* An entry is of a version that was written; its file was downloaded.
Written(e) == e.size \in 1..device[e.name]
OnDisk(e) == Written(e) /\ staged[e.name] # 0

Listing == {"check", "fetch", "record"}

\* Nothing is newer than the logger, and what is to be uploaded is on disk.
Sizes ==
    /\ \A n \in Names : synced[n] <= device[n] /\ staged[n] <= device[n]
    /\ \A t \in Threads : \A e \in Entries(todo[t]) :
           Written(e) /\ (pc[t] \notin Listing => OnDisk(e))
    /\ \A p \in Passes : pc[p] = "record" => staged[Current(p).name] # 0
    /\ \A t \in Threads : \A e \in Entries(fresh[t]) : OnDisk(e)
    /\ \A e \in Entries(queue) : OnDisk(e)

\* A flush holds the lock from its start to its end, and what it has left to
\* do is queued: only the holder removes rows.
Holder ==
    \A f \in Flushers :
        /\ pc[f] # "idle" <=> lock = f
        /\ NamesIn(todo[f]) \subseteq NamesIn(queue)
        /\ \A n \in Names : Single(todo[f], n)

\* All sessions of one version of n are in the library.
Whole(n) == \E u \in 1..device[n] : \A k \in 1..Parts[n] : copies[<<n, u, k>>] > 0

\* A thread that saves session k has saved the ones before it, and a flush
\* that removes a row has saved them all.
AtSave(t) ==
    LET n == Current(t).name
    IN  pc[t] = "save" =>
            /\ ver[t] \in 1..device[n] /\ part[t] \in 1..Parts[n]
            /\ \A k \in 1..(part[t] - 1) : copies[<<n, ver[t], k>>] > 0
AtRemove(t) == pc[t] = "remove" => Whole(Current(t).name)

Loaded ==
    /\ \A t \in Threads : AtSave(t) /\ AtRemove(t)
    /\ \A n \in Names : \A v \in Versions : \A k \in 1..Parts[n] :
           v > device[n] => copies[<<n, v, k>>] = 0

IInv == Shape /\ Sizes /\ Holder /\ Loaded

-----------------------------------------------------------------------------
\* Lists of entries.

LEMMA NamesOfEntries ==
    ASSUME NEW s PROVE NamesIn(s) = {e.name : e \in Entries(s)}
BY DEF NamesIn, Entries

LEMMA EmptyList ==
    /\ Entries(<<>>) = {} /\ NamesIn(<<>>) = {} /\ <<>> \in Seq(Entry)
    /\ \A n : Single(<<>>, n)
BY DEF Entries, NamesIn, Single

LEMMA EntryOfList ==
    ASSUME NEW s \in Seq(Entry), NEW e \in Entries(s)
    PROVE  e \in Entry /\ e.name \in Names
<1>1. PICK i \in 1..Len(s) : e = s[i]
      BY DEF Entries
<1>2. s[i] \in Entry
      OBVIOUS
<1> QED BY <1>1, <1>2 DEF Entry

LEMMA HeadOfList ==
    ASSUME NEW s \in Seq(Entry), s # <<>>
    PROVE  Head(s) \in Entries(s) /\ Head(s) \in Entry /\ Head(s).name \in NamesIn(s)
           /\ Head(s).name \in Names
<1>1. Len(s) \in Nat \ {0} /\ Head(s) = s[1] /\ s[1] \in Entry
      OBVIOUS
<1> QED BY <1>1 DEF Entries, NamesIn, Entry

LEMMA TailOfList ==
    ASSUME NEW s \in Seq(Entry), s # <<>>
    PROVE  /\ Tail(s) \in Seq(Entry)
           /\ Entries(s) = Entries(Tail(s)) \cup {Head(s)}
           /\ NamesIn(s) = NamesIn(Tail(s)) \cup {Head(s).name}
           /\ \A n : Single(s, n) => Single(Tail(s), n)
           /\ Single(s, Head(s).name) => Head(s).name \notin NamesIn(Tail(s))
<1> DEFINE r == Tail(s)
<1>1. /\ r \in Seq(Entry) /\ Len(s) \in Nat \ {0} /\ Len(r) = Len(s) - 1
      /\ Head(s) = s[1] /\ \A i \in 1..Len(r) : r[i] = s[i + 1]
      OBVIOUS
<1> HIDE DEF r
<1>2. Entries(s) = Entries(r) \cup {Head(s)}
  <2>1. ASSUME NEW i \in 1..Len(s) PROVE s[i] \in Entries(r) \cup {Head(s)}
    <3>1. CASE i = 1
          BY <1>1, <3>1
    <3>2. CASE i # 1
      <4>1. i - 1 \in 1..Len(r) /\ r[i - 1] = s[i]
            BY <1>1, <3>2
      <4> QED BY <4>1 DEF Entries
    <3> QED BY <3>1, <3>2
  <2>2. ASSUME NEW i \in 1..Len(r) PROVE r[i] \in Entries(s)
        BY <1>1, <2>2 DEF Entries
  <2>3. Head(s) \in Entries(s)
        BY <1>1 DEF Entries
  <2> QED BY <2>1, <2>2, <2>3 DEF Entries
<1>3. NamesIn(s) = NamesIn(r) \cup {Head(s).name}
      BY <1>2, NamesOfEntries
<1>4. ASSUME NEW n, Single(s, n) PROVE Single(r, n)
  <2> SUFFICES ASSUME NEW i \in 1..Len(r), NEW j \in 1..Len(r), r[i].name = n, r[j].name = n
               PROVE  i = j
      BY DEF Single
  <2>1. i + 1 \in 1..Len(s) /\ j + 1 \in 1..Len(s) /\ r[i] = s[i + 1] /\ r[j] = s[j + 1]
        BY <1>1
  <2>2. i + 1 = j + 1
        BY <1>4, <2>1 DEF Single
  <2> QED BY <2>2
<1>5. ASSUME Single(s, Head(s).name) PROVE Head(s).name \notin NamesIn(r)
  <2> SUFFICES ASSUME NEW i \in 1..Len(r), r[i].name = Head(s).name PROVE FALSE
      BY DEF NamesIn
  <2>1. i + 1 \in 1..Len(s) /\ 1 \in 1..Len(s) /\ r[i] = s[i + 1]
        BY <1>1
  <2>2. i + 1 = 1
        BY <1>1, <1>5, <2>1 DEF Single
  <2> QED BY <2>2
<1> QED BY <1>1, <1>2, <1>3, <1>4, <1>5 DEF r

LEMMA AppendToList ==
    ASSUME NEW s \in Seq(Entry), NEW e \in Entry
    PROVE  /\ Append(s, e) \in Seq(Entry) /\ Append(s, e) # <<>>
           /\ Entries(Append(s, e)) = Entries(s) \cup {e}
           /\ NamesIn(Append(s, e)) = NamesIn(s) \cup {e.name}
           /\ \A n : Single(s, n) /\ (e.name = n => n \notin NamesIn(s)) => Single(Append(s, e), n)
<1> DEFINE r == Append(s, e)
<1>1. /\ r \in Seq(Entry) /\ Len(s) \in Nat /\ Len(r) = Len(s) + 1 /\ r[Len(s) + 1] = e
      /\ \A i \in 1..Len(s) : r[i] = s[i]
      OBVIOUS
<1> HIDE DEF r
<1>2. Entries(r) = Entries(s) \cup {e}
  <2>1. ASSUME NEW i \in 1..Len(r) PROVE r[i] \in Entries(s) \cup {e}
        BY <1>1 DEF Entries
  <2>2. ASSUME NEW i \in 1..Len(s) PROVE s[i] \in Entries(r)
    <3>1. i \in 1..Len(r) /\ r[i] = s[i]
          BY <1>1
    <3> QED BY <3>1 DEF Entries
  <2>3. e \in Entries(r)
    <3>1. Len(r) \in 1..Len(r) /\ r[Len(r)] = e
          BY <1>1
    <3> QED BY <3>1 DEF Entries
  <2> QED BY <2>1, <2>2, <2>3 DEF Entries
<1>3. NamesIn(r) = NamesIn(s) \cup {e.name}
      BY <1>2, NamesOfEntries
<1>4. ASSUME NEW n, Single(s, n), e.name = n => n \notin NamesIn(s) PROVE Single(r, n)
  <2> SUFFICES ASSUME NEW i \in 1..Len(r), NEW j \in 1..Len(r), r[i].name = n, r[j].name = n
               PROVE  i = j
      BY DEF Single
  <2>1. \A k \in 1..Len(s) : s[k].name \in NamesIn(s)
        BY DEF NamesIn
  <2>2. CASE i \in 1..Len(s) /\ j \in 1..Len(s)
        BY <1>1, <1>4, <2>2 DEF Single
  <2>3. CASE i = Len(r) /\ j \in 1..Len(s)
        BY <1>1, <1>4, <2>1, <2>3
  <2>4. CASE j = Len(r) /\ i \in 1..Len(s)
        BY <1>1, <1>4, <2>1, <2>4
  <2>5. CASE i = Len(r) /\ j = Len(r)
        BY <2>5
  <2> QED BY <1>1, <2>2, <2>3, <2>4, <2>5
<1>5. r # <<>>
      BY <1>1
<1> QED BY <1>1, <1>2, <1>3, <1>4, <1>5 DEF r

\* With one row of each name, Without removes the row of that name.
LEMMA WithoutRow ==
    ASSUME NEW s \in Seq(Entry), NEW n, \A m \in Names : Single(s, m)
    PROVE  /\ Without(s, n) \in Seq(Entry)
           /\ Entries(Without(s, n)) = {e \in Entries(s) : e.name # n}
           /\ NamesIn(Without(s, n)) = NamesIn(s) \ {n}
           /\ \A m \in Names : Single(Without(s, n), m)
<1> DEFINE r == Without(s, n)
           a == RowOf(s, n)
<1>1. CASE n \notin NamesIn(s)
  <2>1. r = s
        BY <1>1 DEF Without
  <2>2. \A e \in Entries(s) : e.name # n
        BY <1>1, NamesOfEntries
  <2> QED BY <1>1, <2>1, <2>2
<1>2. CASE n \in NamesIn(s)
  <2>1. a \in 1..Len(s) /\ s[a].name = n
        BY <1>2 DEF NamesIn, RowOf
  <2>2. Len(s) \in Nat \ {0} /\ \A i \in 1..Len(s) : s[i] \in Entry
        BY <2>1
  <2>3. r = [i \in 1..(Len(s) - 1) |-> IF i < a THEN s[i] ELSE s[i + 1]]
        BY <1>2 DEF Without
  <2> HIDE DEF r, a
  <2>4. r \in Seq(Entry) /\ Len(r) = Len(s) - 1
        BY <2>1, <2>2, <2>3
  <2>5. \A i \in 1..Len(r) : r[i] = IF i < a THEN s[i] ELSE s[i + 1]
        BY <2>3, <2>4
  <2>6. \A i \in 1..Len(s) : i # a => s[i].name # n
    <3> SUFFICES ASSUME NEW i \in 1..Len(s), s[i].name = n PROVE i = a
        OBVIOUS
    <3>1. n \in Names
          BY <2>1, <2>2 DEF Entry
    <3> QED BY <2>1, <3>1 DEF Single
  <2>7. Entries(r) = {e \in Entries(s) : e.name # n}
    <3>1. ASSUME NEW i \in 1..Len(r) PROVE r[i] \in Entries(s) /\ r[i].name # n
      <4>1. CASE i < a
        <5>1. i \in 1..Len(s) /\ i # a /\ r[i] = s[i]
              BY <2>1, <2>2, <2>4, <2>5, <4>1
        <5> QED BY <2>6, <5>1 DEF Entries
      <4>2. CASE ~(i < a)
        <5>1. i + 1 \in 1..Len(s) /\ i + 1 # a /\ r[i] = s[i + 1]
              BY <2>1, <2>2, <2>4, <2>5, <4>2
        <5> QED BY <2>6, <5>1 DEF Entries
      <4> QED BY <4>1, <4>2
    <3>2. ASSUME NEW i \in 1..Len(s), s[i].name # n PROVE s[i] \in Entries(r)
      <4>1. CASE i < a
        <5>1. i \in 1..Len(r) /\ r[i] = s[i]
              BY <2>1, <2>2, <2>4, <2>5, <4>1
        <5> QED BY <5>1 DEF Entries
      <4>2. CASE i > a
        <5>1. i - 1 \in 1..Len(r) /\ r[i - 1] = s[i]
              BY <2>1, <2>2, <2>4, <2>5, <4>2
        <5> QED BY <5>1 DEF Entries
      <4>3. i # a
            BY <2>1, <3>2
      <4> QED BY <2>1, <4>1, <4>2, <4>3
    <3> QED BY <3>1, <3>2 DEF Entries
  <2>8. NamesIn(r) = NamesIn(s) \ {n}
        BY <2>7, NamesOfEntries
  <2>9. ASSUME NEW m \in Names PROVE Single(r, m)
    <3> SUFFICES ASSUME NEW i \in 1..Len(r), NEW j \in 1..Len(r), r[i].name = m, r[j].name = m
                 PROVE  i = j
        BY DEF Single
    <3> DEFINE at(k) == IF k < a THEN k ELSE k + 1
    <3>1. /\ at(i) \in 1..Len(s) /\ at(j) \in 1..Len(s)
          /\ s[at(i)].name = m /\ s[at(j)].name = m
          BY <2>1, <2>2, <2>4, <2>5
    <3>2. at(i) = at(j)
          BY <3>1 DEF Single
    <3> QED BY <2>1, <2>4, <3>2
  <2> QED BY <2>4, <2>7, <2>8, <2>9 DEF r
<1> QED BY <1>1, <1>2

-----------------------------------------------------------------------------
\* Types, and what a thread has left to do.

LEMMA CurrentEntry ==
    ASSUME TypeOK, NEW t \in Threads, todo[t] # <<>>
    PROVE  /\ Current(t) \in Entry /\ Current(t).name \in Names /\ Current(t).size \in Nat
           /\ Current(t) \in Entries(todo[t]) /\ Current(t).name \in NamesIn(todo[t])
           /\ Tail(todo[t]) \in Seq(Entry)
<1>1. todo[t] \in Seq(Entry)
      BY DEF TypeOK
<1> QED BY <1>1, HeadOfList, TailOfList DEF Current, Entry

\* A thread goes to another label of its own; its loop goes on to the next entry.
LEMMA GotoTypes ==
    ASSUME TypeOK, NEW t \in Threads, NEW l, Goto(t, l),
           t \in Passes => l \in PassLabels, t \in Flushers => l \in FlushLabels
    PROVE  /\ pc' \in [Threads -> PassLabels \cup FlushLabels]
           /\ \A p \in Passes : pc'[p] \in PassLabels
           /\ \A f \in Flushers : pc'[f] \in FlushLabels
<1>1. l \in PassLabels \cup FlushLabels
      BY DEF Threads
<1> HIDE DEF PassLabels, FlushLabels
<1> QED BY <1>1 DEF TypeOK, Goto, Threads

LEMMA TailTypes ==
    ASSUME TypeOK, NEW t \in Threads, todo[t] # <<>>, todo' = [todo EXCEPT ![t] = Tail(@)]
    PROVE  todo' \in [Threads -> Seq(Entry)]
<1>1. Tail(todo[t]) \in Seq(Entry)
      BY CurrentEntry
<1> QED BY <1>1 DEF TypeOK

\* What a pass begins with is a list of files and sizes.
LEMMA ListingOfFiles ==
    ASSUME TypeOK, NEW l \in Listings
    PROVE  LET s == [i \in 1..Cardinality(Listed) |-> [name |-> l[i], size |-> device[l[i]]]]
           IN  s \in Seq(Entry) /\ \A e \in Entries(s) : e.size \in 1..device[e.name]
<1> DEFINE s == [i \in 1..Cardinality(Listed) |-> [name |-> l[i], size |-> device[l[i]]]]
<1>1. Listed \subseteq Names /\ \A n \in Listed : device[n] \in Nat \ {0}
  <2>1. device \in [Names -> 0..MaxVersion] /\ MaxVersion \in Nat
        BY ConstantsOK DEF TypeOK
  <2> QED BY <2>1 DEF Listed
<1>2. Cardinality(Listed) \in Nat
      BY <1>1, ConstantsOK, FS_Subset, FS_CardinalityType
<1>3. \A i \in 1..Cardinality(Listed) : l[i] \in Listed
      BY DEF Listings
<1> DEFINE N == Cardinality(Listed)
<1> HIDE DEF Listed
<1>4. s \in Seq(Entry) /\ Len(s) = Cardinality(Listed)
  <2>1. s \in [1..Cardinality(Listed) -> Entry]
        BY <1>1, <1>3 DEF Entry
  <2>2. N \in Nat /\ s \in [1..N -> Entry] /\ DOMAIN s = 1..N
        BY <1>2, <2>1
  <2> HIDE DEF s, N
  <2>3. s \in Seq(Entry) /\ Len(s) = N
        BY <2>2
  <2> QED BY <2>3 DEF N
<1>5. ASSUME NEW e \in Entries(s) PROVE e.size \in 1..device[e.name]
  <2>1. PICK i \in 1..Cardinality(Listed) : e = s[i]
        BY <1>4, <1>5 DEF Entries
  <2>2. e.name = l[i] /\ e.size = device[l[i]]
        BY <2>1
  <2> QED BY <1>1, <1>3, <2>2
<1> QED BY <1>4, <1>5

\* A file that is queued has one row, with the version staged by now.
LEMMA AddedRow ==
    ASSUME Shape, NEW n \in Names, Add(n)
    PROVE  /\ queue' \in Seq(Entry) /\ OneRowEach'
           /\ Entries(queue') = {e \in Entries(queue) : e.name # n} \cup {[name |-> n, size |-> staged[n]]}
           /\ NamesIn(queue') = NamesIn(queue) \cup {n}
<1> DEFINE e == [name |-> n, size |-> staged[n]]
           w == Without(queue, n)
<1>1. queue' = Append(w, e)
      BY DEF Add
<1>2. /\ w \in Seq(Entry) /\ Entries(w) = {x \in Entries(queue) : x.name # n}
      /\ NamesIn(w) = NamesIn(queue) \ {n} /\ \A m \in Names : Single(w, m)
      BY WithoutRow DEF Shape, TypeOK, OneRowEach
<1>3. e \in Entry /\ e.name = n
      BY DEF Shape, TypeOK, Entry
<1> HIDE DEF e, w
<1>4. /\ queue' \in Seq(Entry) /\ Entries(queue') = Entries(w) \cup {e}
      /\ NamesIn(queue') = NamesIn(w) \cup {n} /\ \A m \in Names : Single(queue', m)
      BY <1>1, <1>2, <1>3, AppendToList
<1> QED BY <1>2, <1>4 DEF e, OneRowEach

LEMMA InitShape == Init => Shape
<1> SUFFICES ASSUME Init PROVE Shape
    OBVIOUS
<1>1. MaxVersion \in Nat
      BY ConstantsOK
<1> QED BY <1>1, EmptyList
        DEF Init, Shape, TypeOK, Busy, OneRowEach, Threads, PassLabels, FlushLabels

LEMMA NextShape == Shape /\ [Next]_vars => Shape'
<1> SUFFICES ASSUME Shape, [Next]_vars PROVE Shape'
    OBVIOUS
<1> USE EmptyList DEF Shape
<1>0. /\ MaxVersion \in Nat \ {0} /\ Passes \cap Flushers = {} /\ Threads = Passes \cup Flushers
      /\ Parts \in [Names -> Nat \ {0}] /\ Nobody \notin Flushers
      BY ConstantsOK DEF Threads
<1>a. ASSUME UNCHANGED queue PROVE OneRowEach'
      BY <1>a DEF OneRowEach
<1>1. ASSUME NEW n \in Names, Drive(n) PROVE Shape'
      BY <1>0, <1>1, <1>a DEF Drive, TypeOK, Busy, diskVars, threadVars, Current
<1>2. CASE Midnight \/ ChoosePeriod \/ Toggle
      BY <1>2, <1>a DEF Midnight, ChoosePeriod, Toggle, TypeOK, Busy, diskVars, threadVars, Current
<1>3. CASE Crash
      BY <1>0, <1>3, <1>a DEF Crash, TypeOK, Busy, diskVars, world, PassLabels, FlushLabels
<1> USE DEF Goto, NextEntry, world, diskVars, PassLabels, FlushLabels
<1>4. ASSUME NEW p \in Passes, StartSync(p) PROVE Shape'
  <2>1. PICK l \in Listings :
            todo' = [todo EXCEPT ![p] =
              [i \in 1..Cardinality(Listed) |-> [name |-> l[i], size |-> device[l[i]]]]]
        BY <1>4 DEF StartSync
  <2>2. todo' \in [Threads -> Seq(Entry)]
        BY <1>0, <2>1, ListingOfFiles DEF TypeOK
  <2>3. TypeOK'
        BY <1>0, <1>4, <2>2 DEF StartSync, TypeOK
  <2>4. Busy'
        BY <1>0, <1>4, <2>1 DEF StartSync, Busy, TypeOK
  <2> QED BY <1>4, <1>a, <2>3, <2>4 DEF StartSync
<1>5. ASSUME NEW p \in Passes, Check(p) PROVE Shape'
  <2>1. Current(p) \in Entry /\ Tail(todo[p]) \in Seq(Entry) /\ Current(p).name \in Names
        /\ Current(p).size \in Nat
        BY <1>5, <1>0, CurrentEntry DEF Check, Busy
  <2>2. TypeOK'
    <3>1. CASE synced[Current(p).name] = Current(p).size
      <4>1. /\ Goto(p, "check") /\ todo' = [todo EXCEPT ![p] = Tail(@)] /\ todo[p] # <<>>
            /\ UNCHANGED <<world, diskVars, copies, lock, fresh, ver, part, crashes>>
            BY <1>5, <3>1 DEF Check
      <4> QED BY <1>0, <4>1, GotoTypes, TailTypes DEF TypeOK
    <3>2. CASE synced[Current(p).name] # Current(p).size
          BY <1>0, <1>5, <2>1, <3>2 DEF Check, TypeOK
    <3> QED BY <3>1, <3>2
  <2>3. Busy'
        BY <1>0, <1>5, <2>1 DEF Check, TypeOK, Busy
  <2> QED BY <1>5, <1>a, <2>2, <2>3 DEF Check
<1>6. ASSUME NEW p \in Passes, Fetch(p) PROVE Shape'
  <2>1. Current(p) \in Entry /\ Tail(todo[p]) \in Seq(Entry) /\ Current(p).name \in Names
        /\ Current(p).size \in Nat
        BY <1>6, <1>0, CurrentEntry DEF Fetch, Busy
  <2>2. TypeOK'
    <3>1. device[Current(p).name] \in Nat
          BY <1>0, <2>1 DEF TypeOK
    <3>2. staged' \in [Names -> Nat]
          BY <1>6, <3>1 DEF Fetch, TypeOK
    <3> QED BY <1>0, <1>6, <3>2 DEF Fetch, TypeOK
  <2>3. Busy'
        BY <1>0, <1>6, <2>1 DEF Fetch, TypeOK, Busy
  <2> QED BY <1>6, <1>a, <2>2, <2>3 DEF Fetch
<1>7. ASSUME NEW p \in Passes, FetchFails(p) PROVE Shape'
  <2>1. Current(p) \in Entry /\ Tail(todo[p]) \in Seq(Entry) /\ Current(p).name \in Names
        /\ Current(p).size \in Nat
        BY <1>7, <1>0, CurrentEntry DEF FetchFails, Busy
  <2>2. TypeOK'
        BY <1>0, <1>7, <2>1 DEF FetchFails, RecordAttempt, TypeOK
  <2>3. Busy'
        BY <1>0, <1>7, <2>1 DEF FetchFails, RecordAttempt, TypeOK, Busy
  <2> QED BY <1>7, <1>a, <2>2, <2>3 DEF FetchFails, RecordAttempt
<1>8. ASSUME NEW p \in Passes, Record(p) PROVE Shape'
  <2>1. Current(p) \in Entry /\ Tail(todo[p]) \in Seq(Entry) /\ Current(p).name \in Names
        /\ Current(p).size \in Nat
        BY <1>8, <1>0, CurrentEntry DEF Record, Busy
  <2>2. TypeOK'
        BY <1>0, <1>8, <2>1, AppendToList DEF Record, RecordAttempt, TypeOK
  <2>3. Busy'
        BY <1>0, <1>8, <2>1, AppendToList DEF Record, RecordAttempt, TypeOK, Busy
  <2> QED BY <1>8, <1>a, <2>2, <2>3 DEF Record, RecordAttempt
<1>9. ASSUME NEW p \in Passes, Probe(p) PROVE Shape'
  <2>2. TypeOK'
        BY <1>0, <1>9 DEF Probe, TypeOK
  <2>3. Busy'
        BY <1>0, <1>9 DEF Probe, TypeOK, Busy
  <2> QED BY <1>9, <1>a, <2>2, <2>3 DEF Probe
<1>10. ASSUME NEW p \in Passes, Park(p) PROVE Shape'
  <2>1. Current(p) \in Entry /\ Tail(todo[p]) \in Seq(Entry) /\ Current(p).name \in Names
        BY <1>10, <1>0, CurrentEntry DEF Park, Busy
  <2>2. queue' \in Seq(Entry) /\ OneRowEach'
        BY <1>10, <2>1, AddedRow DEF Park
  <2>3. TypeOK'
    <3>1. /\ Goto(p, "idle") \/ Goto(p, "park")
          /\ todo' = [todo EXCEPT ![p] = Tail(@)] /\ todo[p] # <<>>
          /\ UNCHANGED <<world, synced, staged, copies, lock, fresh, ver, part, crashes>>
          BY <1>0, <1>10 DEF Park, Busy
    <3> QED BY <1>0, <2>2, <3>1, GotoTypes, TailTypes DEF TypeOK
  <2>4. Busy'
        BY <1>0, <1>10, <2>1 DEF Park, TypeOK, Busy
  <2> QED BY <2>2, <2>3, <2>4
<1>20. ASSUME NEW p \in Passes, Requeue(p) PROVE Shape'
  <2>1. Current(p) \in Entry /\ Tail(todo[p]) \in Seq(Entry) /\ Current(p).name \in Names
        BY <1>20, <1>0, CurrentEntry DEF Requeue, Busy
  <2>2. queue' \in Seq(Entry) /\ OneRowEach'
        BY <1>20, <2>1, AddedRow DEF Requeue
  <2>3. TypeOK'
        BY <1>0, <1>20, <2>1, <2>2 DEF Requeue, TypeOK
  <2>4. Busy'
        BY <1>0, <1>20, <2>1 DEF Requeue, TypeOK, Busy
  <2> QED BY <2>2, <2>3, <2>4
<1>11. ASSUME NEW f \in Flushers, StartFlush(f) PROVE Shape'
  <2>2. TypeOK'
        BY <1>0, <1>11 DEF StartFlush, TypeOK
  <2>3. Busy'
        BY <1>0, <1>11 DEF StartFlush, TypeOK, Busy
  <2> QED BY <1>11, <1>a, <2>2, <2>3 DEF StartFlush
<1>12. ASSUME NEW f \in Flushers, List(f) PROVE Shape'
  <2>2. TypeOK'
        BY <1>0, <1>12 DEF List, TypeOK
  <2>3. Busy'
        BY <1>0, <1>12 DEF List, TypeOK, Busy
  <2> QED BY <1>12, <1>a, <2>2, <2>3 DEF List
<1>13. ASSUME NEW f \in Flushers, Remove(f) PROVE Shape'
  <2>1. Current(f) \in Entry /\ Tail(todo[f]) \in Seq(Entry) /\ Current(f).name \in Names
        BY <1>13, <1>0, CurrentEntry DEF Remove, Busy
  <2>2. queue' \in Seq(Entry) /\ OneRowEach'
        BY <1>13, WithoutRow DEF Remove, TypeOK, OneRowEach
  <2>3. TypeOK'
        BY <1>0, <1>13, <2>1, <2>2 DEF Remove, TypeOK
  <2>4. Busy'
        BY <1>0, <1>13, <2>1 DEF Remove, TypeOK, Busy
  <2> QED BY <2>2, <2>3, <2>4
<1>14. ASSUME NEW t \in Threads, Load(t) PROVE Shape'
  <2>1. Current(t) \in Entry /\ Tail(todo[t]) \in Seq(Entry) /\ Current(t).name \in Names
        /\ Current(t).size \in Nat
        BY <1>14, <1>0, CurrentEntry DEF Load, Busy
  <2>2. TypeOK'
        BY <1>0, <1>14, <2>1 DEF Load, TypeOK
  <2>3. Busy'
        BY <1>0, <1>14, <2>1 DEF Load, TypeOK, Busy
  <2> QED BY <1>14, <1>a, <2>2, <2>3 DEF Load
<1>15. ASSUME NEW t \in Threads, LoadFails(t) PROVE Shape'
  <2>1. Current(t) \in Entry /\ Tail(todo[t]) \in Seq(Entry) /\ Current(t).name \in Names
        /\ Current(t).size \in Nat
        BY <1>15, <1>0, CurrentEntry DEF LoadFails, Busy
  <2>2. TypeOK'
        BY <1>0, <1>15, <2>1 DEF LoadFails, GiveUp, TypeOK
  <2>3. Busy'
        BY <1>0, <1>15, <2>1 DEF LoadFails, GiveUp, TypeOK, Busy
  <2> QED BY <1>15, <1>a, <2>2, <2>3 DEF LoadFails, GiveUp
<1>16. ASSUME NEW t \in Threads, Save(t) PROVE Shape'
  <2>1. Current(t) \in Entry /\ Tail(todo[t]) \in Seq(Entry) /\ Current(t).name \in Names
        /\ Current(t).size \in Nat
        BY <1>16, <1>0, CurrentEntry DEF Save, Busy
  <2>a. copies' \in [Items -> 0..2] /\ ver' \in [Threads -> Nat] /\ part' \in [Threads -> Nat]
    <3> DEFINE i == <<Current(t).name, ver[t], part[t]>>
    <3>1. copies' \in [Items -> 0..2]
      <4>1. copies' = [copies EXCEPT ![i] = IF @ = 2 THEN 2 ELSE @ + 1]
            BY <1>16 DEF Save
      <4> HIDE DEF i
      <4>2. i \in Items => (IF copies[i] = 2 THEN 2 ELSE copies[i] + 1) \in 0..2
        <5>1. copies \in [Items -> 0..2]
              BY DEF TypeOK
        <5> HIDE DEF Shape
        <5>2. i \in Items => copies[i] \in 0..2
              BY <5>1
        <5> QED BY <5>2
      <4> QED BY <4>1, <4>2 DEF TypeOK
    <3>2. ver' \in [Threads -> Nat]
          BY <1>16 DEF Save, TypeOK
    <3>3. part' \in [Threads -> Nat]
      <4>1. part' = [part EXCEPT ![t] = @ + 1] \/ part' = [part EXCEPT ![t] = 1]
            BY <1>16 DEF Save
      <4>2. part \in [Threads -> Nat] /\ part[t] + 1 \in Nat
        <5>1. part \in [Threads -> Nat]
              BY DEF TypeOK
        <5> QED BY <5>1
      <4> QED BY <4>1, <4>2
    <3> QED BY <3>1, <3>2, <3>3
  <2>b. CASE part[t] < Parts[Current(t).name]
    <3>1. UNCHANGED <<pc, todo, fresh, queue, world, synced, staged, lock, crashes>>
          BY <1>16, <2>b DEF Save
    <3> QED BY <1>a, <2>a, <3>1 DEF TypeOK, Busy, Current
  <2>c. CASE ~(part[t] < Parts[Current(t).name])
    <3>1. UNCHANGED <<fresh, queue, world, synced, staged, lock, crashes>>
          BY <1>16 DEF Save
    <3>2. CASE t \in Passes
      <4>1. /\ pc[t] = "save" /\ pc' = [pc EXCEPT ![t] = "load"]
            /\ todo' = [todo EXCEPT ![t] = Tail(@)]
            BY <1>16, <2>c, <3>2 DEF Save
      <4>2. TypeOK'
            BY <1>0, <2>1, <2>a, <3>1, <4>1 DEF TypeOK
      <4>3. Busy'
            BY <1>0, <2>1, <3>1, <3>2, <4>1 DEF TypeOK, Busy
      <4> QED BY <1>a, <3>1, <4>2, <4>3
    <3>3. CASE t \in Flushers
      <4>1. pc[t] = "save" /\ pc' = [pc EXCEPT ![t] = "remove"] /\ UNCHANGED todo
            BY <1>0, <1>16, <2>c, <3>3 DEF Save
      <4>2. TypeOK'
            BY <1>0, <2>1, <2>a, <3>1, <3>3, <4>1 DEF TypeOK
      <4>3. Busy'
            BY <1>0, <2>1, <3>1, <3>3, <4>1 DEF TypeOK, Busy
      <4> QED BY <1>a, <3>1, <4>2, <4>3
    <3> QED BY <1>0, <3>2, <3>3
  <2> QED BY <2>b, <2>c
<1>17. ASSUME NEW t \in Threads, SaveFails(t) PROVE Shape'
  <2>1. Current(t) \in Entry /\ Tail(todo[t]) \in Seq(Entry) /\ Current(t).name \in Names
        /\ Current(t).size \in Nat
        BY <1>17, <1>0, CurrentEntry DEF SaveFails, Busy
  <2>2. TypeOK'
    <3>1. /\ UNCHANGED <<world, diskVars, copies, lock, fresh, crashes>>
          /\ ver' = [ver EXCEPT ![t] = 0] /\ part' = [part EXCEPT ![t] = 1] /\ todo[t] # <<>>
          BY <1>17 DEF SaveFails, Busy
    <3>2. CASE t \in Passes
      <4>1. Goto(t, "requeue") /\ UNCHANGED todo
            BY <1>17, <3>2 DEF SaveFails, GiveUp
      <4> QED BY <1>0, <3>1, <3>2, <4>1, GotoTypes DEF TypeOK
    <3>3. CASE t \in Flushers
      <4>1. Goto(t, "load") /\ todo' = [todo EXCEPT ![t] = Tail(@)]
            BY <1>0, <1>17, <3>3 DEF SaveFails, GiveUp
      <4> QED BY <1>0, <3>1, <3>3, <4>1, GotoTypes, TailTypes DEF TypeOK
    <3> QED BY <1>0, <3>2, <3>3
  <2>3. Busy'
        BY <1>0, <1>17, <2>1 DEF SaveFails, GiveUp, TypeOK, Busy
  <2> QED BY <1>17, <1>a, <2>2, <2>3 DEF SaveFails, GiveUp
<1>18. ASSUME NEW t \in Threads, Finish(t) PROVE Shape'
  <2>2. TypeOK'
        BY <1>0, <1>18 DEF Finish, TypeOK
  <2>3. Busy'
        BY <1>0, <1>18 DEF Finish, TypeOK, Busy
  <2> QED BY <1>18, <1>a, <2>2, <2>3 DEF Finish
<1>19. CASE UNCHANGED vars
      BY <1>19, <1>a DEF vars, TypeOK, Busy, Current
<1> QED
  BY <1>0, <1>1, <1>2, <1>3, <1>4, <1>5, <1>6, <1>7, <1>8, <1>9, <1>10, <1>11, <1>12, <1>13,
     <1>14, <1>15, <1>16, <1>17, <1>18, <1>19, <1>20 DEF Next, Sync, Flush, Ingest

-----------------------------------------------------------------------------
\* Sizes.

LEMMA InitSizes == Init => Sizes
BY ConstantsOK, EmptyList DEF Init, Sizes, Threads

\* A thread whose loop stays or goes on to the next entry, with the files of
\* the logger and of the staging folder as they are.
LEMMA ThreadSizes ==
    ASSUME Shape, Sizes, NEW t \in Threads, NEW l, Goto(t, l),
           UNCHANGED <<device, staged, fresh>>,
           UNCHANGED todo \/ (todo[t] # <<>> /\ todo' = [todo EXCEPT ![t] = Tail(@)]),
           l # "record", l \notin Listing => pc[t] \notin Listing,
           \A n \in Names : synced'[n] <= device[n],
           \A e \in Entries(queue') : OnDisk(e)
    PROVE  Sizes'
<1>1. \A e : (Written(e)' <=> Written(e)) /\ (OnDisk(e)' <=> OnDisk(e))
      BY DEF Written, OnDisk
<1>2. \A u \in Threads : Entries(todo'[u]) \subseteq Entries(todo[u]) /\ (u # t => todo'[u] = todo[u])
  <2>1. todo \in [Threads -> Seq(Entry)]
        BY DEF Shape, TypeOK
  <2>2. CASE UNCHANGED todo
        BY <2>2
  <2>3. CASE todo[t] # <<>> /\ todo' = [todo EXCEPT ![t] = Tail(@)]
    <3>1. Entries(Tail(todo[t])) \subseteq Entries(todo[t])
          BY <2>1, <2>3, TailOfList
    <3> QED BY <2>1, <2>3, <3>1
  <2> QED BY <2>2, <2>3
<1>3. \A u \in Threads : pc'[u] = IF u = t THEN l ELSE pc[u]
      BY DEF Goto, Shape, TypeOK
<1>4. ASSUME NEW u \in Threads, NEW e \in Entries(todo'[u])
      PROVE  Written(e)' /\ (pc'[u] \notin Listing => OnDisk(e)')
      BY <1>1, <1>2, <1>3, <1>4 DEF Sizes
<1>5. ASSUME NEW p \in Passes, pc'[p] = "record" PROVE staged'[Current(p)'.name] # 0
      BY <1>2, <1>3, <1>5 DEF Sizes, Current, Threads
<1> QED BY <1>1, <1>4, <1>5 DEF Sizes

LEMMA NextSizes == Shape /\ Sizes /\ [Next]_vars => Sizes'
<1> SUFFICES ASSUME Shape, Sizes, [Next]_vars PROVE Sizes'
    OBVIOUS
<1> USE DEF world, diskVars
<1>0. /\ Threads = Passes \cup Flushers /\ Passes \cap Flushers = {}
      /\ device \in [Names -> Nat] /\ synced \in [Names -> Nat] /\ staged \in [Names -> Nat]
      /\ pc \in [Threads -> PassLabels \cup FlushLabels]
      /\ todo \in [Threads -> Seq(Entry)] /\ fresh \in [Threads -> Seq(Entry)]
      /\ queue \in Seq(Entry)
      BY ConstantsOK DEF Shape, TypeOK, Threads
<1>a. ASSUME UNCHANGED <<device, staged>>
      PROVE  \A e : (Written(e)' <=> Written(e)) /\ (OnDisk(e)' <=> OnDisk(e))
      BY <1>a DEF Written, OnDisk
<1>b. \A s \in Seq(Entry) : \A e \in Entries(s) : e.name \in Names
      BY EntryOfList
<1>c. /\ UNCHANGED <<device, synced>> => \A n \in Names : synced'[n] <= device[n]
      /\ UNCHANGED queue => \A e \in Entries(queue') : OnDisk(e)
      BY DEF Sizes
<1>1. ASSUME NEW n \in Names, Drive(n) PROVE Sizes'
  <2>1. /\ \A m \in Names : device'[m] \in Nat /\ device'[m] >= device[m]
        /\ UNCHANGED <<synced, staged, queue, pc, todo, fresh>>
        BY <1>0, <1>1 DEF Drive, threadVars
  <2>2. ASSUME NEW e, e.name \in Names, Written(e)
        PROVE  Written(e)' /\ (OnDisk(e) => OnDisk(e)')
        BY <1>0, <2>1, <2>2 DEF Written, OnDisk
  <2>3. \A m \in Names : synced'[m] <= device'[m] /\ staged'[m] <= device'[m]
        BY <1>0, <2>1 DEF Sizes
  <2>4. \A t \in Threads : \A e \in Entries(todo[t]) :
            Written(e)' /\ (pc[t] \notin Listing => OnDisk(e)')
        BY <1>0, <1>b, <2>2 DEF Sizes
  <2>5. \A t \in Threads : \A e \in Entries(fresh[t]) : OnDisk(e)'
        BY <1>0, <1>b, <2>2 DEF Sizes, OnDisk
  <2>6. \A e \in Entries(queue) : OnDisk(e)'
        BY <1>0, <1>b, <2>2 DEF Sizes, OnDisk
  <2> QED BY <2>1, <2>3, <2>4, <2>5, <2>6 DEF Sizes, Current
<1>2. CASE Midnight \/ ChoosePeriod \/ Toggle
  <2>1. UNCHANGED <<device, synced, staged, queue, pc, todo, fresh>>
        BY <1>2 DEF Midnight, ChoosePeriod, Toggle, threadVars
  <2> QED BY <2>1, <1>a DEF Sizes, Current
<1>3. CASE Crash
  <2>1. /\ UNCHANGED <<device, synced, staged, queue>>
        /\ \A t \in Threads : pc'[t] = "idle" /\ todo'[t] = <<>> /\ fresh'[t] = <<>>
        BY <1>3 DEF Crash
  <2> QED BY <1>0, <1>a, <2>1, EmptyList DEF Sizes
<1>4. ASSUME NEW p \in Passes, StartSync(p) PROVE Sizes'
  <2>1. PICK l \in Listings :
            todo' = [todo EXCEPT ![p] =
              [i \in 1..Cardinality(Listed) |-> [name |-> l[i], size |-> device[l[i]]]]]
        BY <1>4 DEF StartSync
  <2> DEFINE s == [i \in 1..Cardinality(Listed) |-> [name |-> l[i], size |-> device[l[i]]]]
  <2>2. \A e \in Entries(s) : Written(e)
        BY ListingOfFiles DEF Written, Shape
  <2>3. todo' = [todo EXCEPT ![p] = s]
        BY <2>1
  <2> HIDE DEF s
  <2>4. UNCHANGED <<device, synced, staged, queue, fresh>> /\ pc' = [pc EXCEPT ![p] = "check"]
        BY <1>4 DEF StartSync, Goto
  <2> QED BY <1>0, <1>a, <2>2, <2>3, <2>4 DEF Sizes, Current, Listing
<1>5. ASSUME NEW p \in Passes, Check(p) PROVE Sizes'
  <2>1. PICK l \in {"check", "fetch"} : Goto(p, l)
        BY <1>5 DEF Check, NextEntry
  <2> QED BY <1>0, <1>5, <1>c, <2>1, ThreadSizes DEF Check, NextEntry, Listing
<1>6. ASSUME NEW p \in Passes, Fetch(p) PROVE Sizes'
  <2> DEFINE n == Current(p).name
  <2>1. pc[p] = "fetch" /\ todo[p] # <<>>
        BY <1>0, <1>6 DEF Fetch, Shape, Busy
  <2>2. n \in Names /\ Current(p) \in Entries(todo[p])
        BY <1>0, <2>1, CurrentEntry DEF Shape
  <2>3. device[n] \in Nat \ {0}
        BY <1>0, <2>2 DEF Sizes, Written
  <2>4. /\ staged' = [staged EXCEPT ![n] = device[n]]
        /\ UNCHANGED <<device, synced, queue, todo, fresh>> /\ pc' = [pc EXCEPT ![p] = "record"]
        BY <1>6 DEF Fetch, Goto
  <2> HIDE DEF n
  <2>5. \A m \in Names : staged'[m] <= device'[m] /\ (staged[m] # 0 => staged'[m] # 0)
        BY <1>0, <2>2, <2>3, <2>4 DEF Sizes
  <2>6. \A e : e.name \in Names => (Written(e)' <=> Written(e)) /\ (OnDisk(e) => OnDisk(e)')
        BY <2>4, <2>5 DEF Written, OnDisk
  <2>7. \A t \in Threads : \A e \in Entries(todo[t]) :
            Written(e)' /\ (pc'[t] \notin Listing => OnDisk(e)')
        BY <1>0, <1>b, <2>4, <2>6 DEF Sizes, Listing
  <2>8. /\ \A t \in Threads : \A e \in Entries(fresh[t]) : OnDisk(e)'
        /\ \A e \in Entries(queue) : OnDisk(e)'
        BY <1>0, <1>b, <2>6 DEF Sizes
  <2>9. ASSUME NEW q \in Passes, pc'[q] = "record" PROVE staged'[Current(q).name] # 0
    <3>1. CASE q = p
          BY <1>0, <2>2, <2>3, <2>4, <3>1 DEF n
    <3>2. CASE q # p
      <4>1. q \in Threads /\ pc[q] = "record" /\ todo[q] # <<>> /\ staged[Current(q).name] # 0
            BY <1>0, <2>4, <2>9, <3>2 DEF Sizes, Shape, Busy
      <4> QED BY <2>5, <4>1, CurrentEntry DEF Shape
    <3> QED BY <3>1, <3>2
  <2> QED BY <2>4, <2>5, <2>7, <2>8, <2>9 DEF Sizes, Current
<1>7. ASSUME NEW p \in Passes, FetchFails(p) PROVE Sizes'
  <2>1. pc[p] = "fetch" /\ todo[p] # <<>>
        BY <1>0, <1>7 DEF FetchFails, Shape, Busy
  <2>2. \A n \in Names : synced'[n] <= device[n]
        BY <1>0, <1>7 DEF FetchFails, RecordAttempt, Sizes
  <2> QED BY <1>0, <1>7, <1>c, <2>1, <2>2, ThreadSizes DEF FetchFails, NextEntry, Listing
<1>8. ASSUME NEW p \in Passes, Record(p) PROVE Sizes'
  <2> DEFINE c == Current(p)
  <2>1. pc[p] = "record" /\ todo[p] # <<>>
        BY <1>0, <1>8 DEF Record, Shape, Busy
  <2>2. c \in Entry /\ c.name \in Names /\ c \in Entries(todo[p])
        BY <1>0, <2>1, CurrentEntry DEF Shape
  <2>3. OnDisk(c)
        BY <1>0, <2>1, <2>2 DEF Sizes, OnDisk
  <2>4. /\ synced' = [synced EXCEPT ![c.name] = c.size]
        /\ fresh' = [fresh EXCEPT ![p] = Append(@, c)] /\ todo' = [todo EXCEPT ![p] = Tail(@)]
        /\ pc' = [pc EXCEPT ![p] = "check"] /\ UNCHANGED <<device, staged, queue>>
        BY <1>8 DEF Record, RecordAttempt, NextEntry, Goto
  <2> HIDE DEF c
  <2>5. \A n \in Names : synced'[n] <= device'[n]
        BY <1>0, <2>2, <2>3, <2>4 DEF Sizes, OnDisk, Written
  <2>6. Entries(fresh'[p]) = Entries(fresh[p]) \cup {c} /\ Entries(todo'[p]) \subseteq Entries(todo[p])
        BY <1>0, <2>1, <2>2, <2>4, AppendToList, TailOfList
  <2>7. \A t \in Threads : \A e \in Entries(fresh'[t]) : OnDisk(e)'
        BY <1>0, <1>a, <2>3, <2>4, <2>6 DEF Sizes
  <2>8. \A t \in Threads : \A e \in Entries(todo'[t]) :
            Written(e)' /\ (pc'[t] \notin Listing => OnDisk(e)')
        BY <1>0, <1>a, <2>4, <2>6 DEF Sizes, Listing
  <2> QED BY <1>0, <1>a, <2>4, <2>5, <2>7, <2>8 DEF Sizes, Current
<1>9. ASSUME NEW p \in Passes, Probe(p) PROVE Sizes'
  <2>1. /\ todo' = [todo EXCEPT ![p] = fresh[p]] /\ fresh' = [fresh EXCEPT ![p] = <<>>]
        /\ UNCHANGED <<device, staged, queue, synced>>
        /\ pc'[p] # "record" /\ \A t \in Threads \ {p} : pc'[t] = pc[t]
        BY <1>0, <1>9 DEF Probe, Goto
  <2> QED BY <1>0, <1>a, <2>1, EmptyList DEF Sizes, Current, OnDisk
<1>10. ASSUME NEW p \in Passes, Park(p) \/ Requeue(p) PROVE Sizes'
  <2>1. pc[p] \in {"park", "requeue"} /\ todo[p] # <<>>
        BY <1>0, <1>10 DEF Park, Requeue, Shape, Busy
  <2>2. /\ Current(p).name \in Names /\ staged[Current(p).name] \in 1..device[Current(p).name]
    <3>1. Current(p).name \in Names /\ Current(p) \in Entries(todo[p])
          BY <1>0, <2>1, CurrentEntry DEF Shape
    <3>2. staged[Current(p).name] # 0
          BY <1>0, <2>1, <3>1 DEF Sizes, OnDisk, Listing
    <3> QED BY <1>0, <3>1, <3>2 DEF Sizes
  <2>3. \A e \in Entries(queue') : OnDisk(e)
    <3>1. Entries(queue') = {e \in Entries(queue) : e.name # Current(p).name}
                            \cup {[name |-> Current(p).name, size |-> staged[Current(p).name]]}
          BY <1>10, <2>2, AddedRow DEF Park, Requeue
    <3> QED BY <1>0, <2>2, <3>1 DEF Sizes, OnDisk, Written
  <2>4. PICK l \in {"idle", "park", "load"} : Goto(p, l)
        BY <1>10 DEF Park, Requeue, NextEntry
  <2>5. UNCHANGED <<device, staged, fresh, synced>> /\ todo' = [todo EXCEPT ![p] = Tail(@)]
        BY <1>10 DEF Park, Requeue, NextEntry
  <2> QED BY <1>0, <1>c, <2>1, <2>3, <2>4, <2>5, ThreadSizes DEF Listing
<1>11. ASSUME NEW f \in Flushers, StartFlush(f) PROVE Sizes'
  <2>1. pc[f] = "idle" /\ Goto(f, "list") /\ UNCHANGED <<device, staged, fresh, todo, synced, queue>>
        BY <1>11 DEF StartFlush
  <2> QED BY <1>0, <1>c, <2>1, ThreadSizes DEF Listing
<1>12. ASSUME NEW f \in Flushers, List(f) PROVE Sizes'
  <2>1. /\ todo' = [todo EXCEPT ![f] = IF online THEN queue ELSE <<>>]
        /\ UNCHANGED <<device, staged, queue, synced, fresh>> /\ pc' = [pc EXCEPT ![f] = "load"]
        BY <1>12 DEF List, Goto
  <2> QED BY <1>0, <1>a, <2>1, EmptyList DEF Sizes, Current, OnDisk
<1>13. ASSUME NEW f \in Flushers, Remove(f) PROVE Sizes'
  <2>1. pc[f] = "remove" /\ todo[f] # <<>>
        BY <1>0, <1>13 DEF Remove, Shape, Busy
  <2>2. \A e \in Entries(queue') : OnDisk(e)
        BY <1>13, WithoutRow DEF Remove, Shape, TypeOK, OneRowEach, Sizes
  <2>3. /\ Goto(f, "load") /\ todo' = [todo EXCEPT ![f] = Tail(@)]
        /\ UNCHANGED <<device, staged, synced, fresh>>
        BY <1>13 DEF Remove, NextEntry
  <2> QED BY <1>0, <1>c, <2>1, <2>2, <2>3, ThreadSizes DEF Listing
<1>14. ASSUME NEW t \in Threads, Load(t) PROVE Sizes'
  <2>1. pc[t] = "load" /\ Goto(t, "save") /\ UNCHANGED <<device, staged, synced, fresh, todo, queue>>
        BY <1>14 DEF Load
  <2> QED BY <1>0, <1>c, <2>1, ThreadSizes DEF Listing
<1>15. ASSUME NEW t \in Threads, LoadFails(t) \/ SaveFails(t) PROVE Sizes'
  <2>1. /\ pc[t] \in {"load", "save"} /\ todo[t] # <<>>
        /\ UNCHANGED <<device, staged, synced, fresh, queue>>
        BY <1>15 DEF LoadFails, SaveFails, Shape, Busy
  <2>2. PICK l \in {"requeue", "load"} : Goto(t, l)
        BY <1>15 DEF LoadFails, SaveFails, GiveUp, NextEntry
  <2>3. UNCHANGED todo \/ todo' = [todo EXCEPT ![t] = Tail(@)]
        BY <1>15 DEF LoadFails, SaveFails, GiveUp, NextEntry
  <2> QED BY <1>0, <1>c, <2>1, <2>2, <2>3, ThreadSizes DEF Listing
<1>16. ASSUME NEW t \in Threads, Save(t) PROVE Sizes'
  <2>1. pc[t] = "save" /\ todo[t] # <<>> /\ UNCHANGED <<device, staged, synced, fresh, queue>>
        BY <1>16 DEF Save, Shape, Busy
  <2>2. PICK l \in {"save", "load", "remove"} : Goto(t, l)
    <3>1. pc' = pc => Goto(t, "save")
          BY <1>0, <2>1 DEF Goto
    <3> QED BY <1>16, <3>1 DEF Save, NextEntry
  <2>3. UNCHANGED todo \/ todo' = [todo EXCEPT ![t] = Tail(@)]
        BY <1>16 DEF Save, NextEntry
  <2> QED BY <1>0, <1>c, <2>1, <2>2, <2>3, ThreadSizes DEF Listing
<1>17. ASSUME NEW t \in Threads, Finish(t) PROVE Sizes'
  <2>1. pc[t] = "load" /\ Goto(t, "idle") /\ UNCHANGED <<device, staged, synced, fresh, todo, queue>>
        BY <1>17 DEF Finish
  <2> QED BY <1>0, <1>c, <2>1, ThreadSizes DEF Listing
<1>18. CASE UNCHANGED vars
  <2>1. UNCHANGED <<device, synced, staged, queue, pc, todo, fresh>>
        BY <1>18 DEF vars
  <2> QED BY <2>1, <1>a DEF Sizes, Current
<1> QED
  BY <1>0, <1>1, <1>2, <1>3, <1>4, <1>5, <1>6, <1>7, <1>8, <1>9, <1>10, <1>11, <1>12, <1>13,
     <1>14, <1>15, <1>16, <1>17, <1>18 DEF Next, Sync, Flush, Ingest

-----------------------------------------------------------------------------
\* The lock and the queue.

LEMMA InitHolder == Init => Holder
BY ConstantsOK, EmptyList DEF Init, Holder, Threads

\* A step of no flush: rows may come, none goes.
LEMMA OthersHolder ==
    ASSUME Holder, UNCHANGED lock, NamesIn(queue) \subseteq NamesIn(queue'),
           \A f \in Flushers : pc'[f] = pc[f] /\ todo'[f] = todo[f]
    PROVE  Holder'
BY DEF Holder

\* A step of the flush that holds the lock.
LEMMA HolderHolder ==
    ASSUME Shape, Holder, NEW f \in Flushers, lock = f, UNCHANGED lock,
           NEW l, l # "idle", Goto(f, l),
           \A g \in Flushers \ {f} : todo'[g] = todo[g],
           NamesIn(todo'[f]) \subseteq NamesIn(queue'),
           \A n \in Names : Single(todo'[f], n)
    PROVE  Holder'
<1>1. ASSUME NEW g \in Flushers, g # f PROVE pc[g] = "idle" /\ todo'[g] = <<>>
      BY <1>1 DEF Holder, Shape, Busy
<1>2. \A g \in Flushers : pc'[g] = IF g = f THEN l ELSE pc[g]
      BY DEF Shape, TypeOK, Goto, Threads
<1> QED BY <1>1, <1>2, EmptyList DEF Holder

LEMMA NextHolder == Shape /\ Holder /\ [Next]_vars => Holder'
<1> SUFFICES ASSUME Shape, Holder, [Next]_vars PROVE Holder'
    OBVIOUS
<1> USE DEF world, diskVars
<1>0. /\ Threads = Passes \cup Flushers /\ Passes \cap Flushers = {} /\ Nobody \notin Flushers
      /\ pc \in [Threads -> PassLabels \cup FlushLabels]
      /\ todo \in [Threads -> Seq(Entry)] /\ queue \in Seq(Entry)
      BY ConstantsOK DEF Shape, TypeOK, Threads
<1>a. ASSUME NEW p \in Passes, NEW l, Goto(p, l) PROVE \A f \in Flushers : pc'[f] = pc[f]
      BY <1>0, <1>a DEF Goto
<1>b. ASSUME NEW f \in Flushers, pc[f] # "idle" PROVE lock = f
      BY <1>b DEF Holder
<1>c. ASSUME NEW t \in Threads, UNCHANGED todo \/ todo' = [todo EXCEPT ![t] = Tail(@)]
      PROVE  \A u \in Threads \ {t} : todo'[u] = todo[u]
      BY <1>0, <1>c
\* Going on to the next entry leaves a flush with fewer names.
<1>d. ASSUME NEW f \in Flushers, todo[f] # <<>>, todo' = [todo EXCEPT ![f] = Tail(@)]
      PROVE  /\ NamesIn(todo'[f]) \subseteq NamesIn(todo[f]) \ {Current(f).name}
             /\ \A n \in Names : Single(todo'[f], n)
  <2>1. todo'[f] = Tail(todo[f]) /\ todo[f] \in Seq(Entry) /\ Current(f).name \in Names
        BY <1>0, <1>d, HeadOfList DEF Current
  <2> QED BY <1>d, <2>1, TailOfList DEF Holder, Current
<1>1. CASE (\E n \in Names : Drive(n)) \/ Midnight \/ ChoosePeriod \/ Toggle \/ UNCHANGED vars
  <2>1. UNCHANGED <<lock, queue, pc, todo>>
        BY <1>1 DEF Drive, Midnight, ChoosePeriod, Toggle, threadVars, vars
  <2> QED BY <2>1, OthersHolder
<1>2. CASE Crash
      BY <1>0, <1>2, EmptyList DEF Crash, Holder
<1>3. ASSUME NEW p \in Passes, StartSync(p) PROVE Holder'
      BY <1>0, <1>3, <1>a, OthersHolder DEF StartSync
<1>4. ASSUME NEW p \in Passes, Check(p) \/ Fetch(p) \/ FetchFails(p) \/ Record(p) PROVE Holder'
  <2>1. PICK l : Goto(p, l)
        BY <1>4 DEF Check, Fetch, FetchFails, Record, NextEntry
  <2>2. UNCHANGED <<lock, queue>> /\ (UNCHANGED todo \/ todo' = [todo EXCEPT ![p] = Tail(@)])
        BY <1>4 DEF Check, Fetch, FetchFails, Record, NextEntry
  <2> QED BY <1>0, <1>a, <1>c, <2>1, <2>2, OthersHolder
<1>5. ASSUME NEW p \in Passes, Probe(p) PROVE Holder'
  <2>1. PICK l : Goto(p, l)
        BY <1>5 DEF Probe
  <2>2. UNCHANGED <<lock, queue>> /\ todo' = [todo EXCEPT ![p] = fresh[p]]
        BY <1>5 DEF Probe
  <2> QED BY <1>0, <1>a, <2>1, <2>2, OthersHolder
<1>6. ASSUME NEW p \in Passes, Park(p) \/ Requeue(p) PROVE Holder'
  <2>1. PICK l : Goto(p, l)
        BY <1>6 DEF Park, Requeue, NextEntry
  <2>2. UNCHANGED lock /\ todo' = [todo EXCEPT ![p] = Tail(@)] /\ todo[p] # <<>>
        BY <1>0, <1>6 DEF Park, Requeue, NextEntry, Shape, Busy
  <2>3. NamesIn(queue') = NamesIn(queue) \cup {Current(p).name}
        BY <1>0, <1>6, <2>2, AddedRow, CurrentEntry DEF Park, Requeue, Shape
  <2> QED BY <1>0, <1>a, <1>c, <2>1, <2>2, <2>3, OthersHolder
<1>7. ASSUME NEW f \in Flushers, StartFlush(f) PROVE Holder'
  <2>1. pc' = [pc EXCEPT ![f] = "list"] /\ lock' = f /\ lock = Nobody /\ UNCHANGED <<todo, queue>>
        BY <1>7 DEF StartFlush, Goto
  <2> QED BY <1>0, <2>1 DEF Holder
<1>8. ASSUME NEW f \in Flushers, List(f) PROVE Holder'
  <2>1. /\ pc[f] = "list" /\ Goto(f, "load") /\ UNCHANGED <<lock, queue>>
        /\ todo' = [todo EXCEPT ![f] = IF online THEN queue ELSE <<>>]
        BY <1>8 DEF List
  <2>2. todo'[f] = queue \/ todo'[f] = <<>>
        BY <1>0, <2>1
  <2>3. NamesIn(todo'[f]) \subseteq NamesIn(queue) /\ \A n \in Names : Single(todo'[f], n)
        BY <2>2, EmptyList DEF Shape, OneRowEach
  <2> QED BY <1>0, <1>b, <2>1, <2>3, HolderHolder
<1>9. ASSUME NEW f \in Flushers, Remove(f) PROVE Holder'
  <2>1. /\ pc[f] = "remove" /\ Goto(f, "load") /\ UNCHANGED lock /\ todo[f] # <<>>
        /\ todo' = [todo EXCEPT ![f] = Tail(@)]
        BY <1>0, <1>9 DEF Remove, NextEntry, Shape, Busy
  <2>2. NamesIn(queue') = NamesIn(queue) \ {Current(f).name}
        BY <1>9, WithoutRow DEF Remove, Shape, TypeOK, OneRowEach
  <2>3. NamesIn(todo'[f]) \subseteq NamesIn(queue') /\ \A n \in Names : Single(todo'[f], n)
        BY <1>d, <2>1, <2>2 DEF Holder
  <2> QED BY <1>0, <1>b, <1>c, <2>1, <2>3, HolderHolder
<1>10. ASSUME NEW t \in Threads, Load(t) \/ LoadFails(t) \/ Save(t) \/ SaveFails(t) PROVE Holder'
  <2>1. /\ pc[t] \in {"load", "save"} /\ UNCHANGED <<lock, queue>>
        /\ UNCHANGED todo \/ todo' = [todo EXCEPT ![t] = Tail(@)]
        /\ todo[t] # <<>>
        BY <1>10 DEF Load, LoadFails, Save, SaveFails, GiveUp, NextEntry, Shape, Busy
  <2>2. PICK l : l # "idle" /\ Goto(t, l)
    <3>1. pc' = pc => Goto(t, pc[t])
          BY <1>0 DEF Goto
    <3> QED BY <1>10, <2>1, <3>1 DEF Load, LoadFails, Save, SaveFails, GiveUp, NextEntry
  <2>3. CASE t \in Passes
        BY <1>0, <1>a, <1>c, <2>1, <2>2, <2>3, OthersHolder
  <2>4. CASE t \in Flushers
    <3>1. NamesIn(todo'[t]) \subseteq NamesIn(queue) /\ \A n \in Names : Single(todo'[t], n)
          BY <1>d, <2>1, <2>4 DEF Holder
    <3> QED BY <1>0, <1>b, <1>c, <2>1, <2>2, <2>4, <3>1, HolderHolder
  <2> QED BY <1>0, <2>3, <2>4
<1>11. ASSUME NEW t \in Threads, Finish(t) PROVE Holder'
  <2>1. pc[t] = "load" /\ Goto(t, "idle") /\ UNCHANGED <<todo, queue>>
        BY <1>11 DEF Finish
  <2>2. CASE t \in Passes
        BY <1>0, <1>11, <1>a, <2>1, <2>2, OthersHolder DEF Finish
  <2>3. CASE t \in Flushers
    <3>1. lock = t /\ lock' = Nobody
          BY <1>11, <1>b, <2>1, <2>3 DEF Finish
    <3>2. pc' = [pc EXCEPT ![t] = "idle"]
          BY <2>1 DEF Goto
    <3> QED BY <1>0, <2>1, <2>3, <3>1, <3>2 DEF Holder
  <2> QED BY <1>0, <2>2, <2>3
<1> QED
  BY <1>0, <1>1, <1>2, <1>3, <1>4, <1>5, <1>6, <1>7, <1>8, <1>9, <1>10, <1>11
     DEF Next, Sync, Flush, Ingest

-----------------------------------------------------------------------------
\* What is saved.

LEMMA InitLoaded == Init => Loaded
<1> SUFFICES ASSUME Init PROVE Loaded
    OBVIOUS
<1>1. \A n \in Names : \A v \in Versions : \A k \in 1..Parts[n] : <<n, v, k>> \in Items
      BY DEF Items
<1> QED BY <1>1 DEF Init, Loaded, AtSave, AtRemove

\* Versions and copies only grow, and a thread is where it was, or neither
\* saves nor removes, or has saved what it should.
LEMMA LoadedKept ==
    ASSUME Shape, Loaded,
           \A n \in Names : device'[n] \in Nat /\ device'[n] >= device[n],
           \A i \in Items : copies'[i] \in Nat /\ copies'[i] >= copies[i],
           \A n \in Names : \A v \in Versions : \A k \in 1..Parts[n] :
               v > device'[n] => copies'[<<n, v, k>>] = 0,
           \A t \in Threads :
               \/ pc'[t] \notin {"save", "remove"}
               \/ AtSave(t)' /\ AtRemove(t)'
               \/ pc'[t] = pc[t] /\ todo'[t] = todo[t] /\ ver'[t] = ver[t] /\ part'[t] = part[t]
    PROVE  Loaded'
<1>0. /\ device \in [Names -> 0..MaxVersion] /\ MaxVersion \in Nat \ {0}
      /\ Parts \in [Names -> Nat \ {0}] /\ copies \in [Items -> 0..2]
      /\ \A n \in Names : \A v \in Versions : \A k \in 1..Parts[n] : <<n, v, k>> \in Items
      BY ConstantsOK DEF Shape, TypeOK, Items
<1>1. ASSUME NEW n \in Names, NEW v \in 1..device[n], NEW k \in 1..Parts[n], copies[<<n, v, k>>] > 0
      PROVE  v \in 1..device'[n] /\ copies'[<<n, v, k>>] > 0
  <2>1. v \in Versions /\ v \in 1..device'[n]
        BY <1>0 DEF Versions
  <2>2. <<n, v, k>> \in Items
        BY <1>0, <2>1
  <2> QED BY <1>0, <1>1, <2>1, <2>2
<1>2. ASSUME NEW t \in Threads, pc'[t] \in {"save", "remove"}, pc'[t] = pc[t],
             todo'[t] = todo[t], ver'[t] = ver[t], part'[t] = part[t]
      PROVE  AtSave(t)' /\ AtRemove(t)'
  <2> DEFINE n == Current(t).name
  <2>1. n \in Names /\ Current(t)' = Current(t)
        BY <1>2, CurrentEntry DEF Shape, Busy, Current
  <2>2. AtSave(t) /\ AtRemove(t)
        BY DEF Loaded
  <2> HIDE DEF n
  <2>3. CASE pc[t] = "save"
    <3>1. /\ ver[t] \in 1..device[n] /\ part[t] \in 1..Parts[n] /\ part[t] \in Nat
          /\ \A k \in 1..(part[t] - 1) : copies[<<n, ver[t], k>>] > 0
          BY <2>2, <2>3 DEF AtSave, n, Shape, TypeOK
    <3>2. ver[t] \in 1..device'[n]
          BY <1>0, <2>1, <3>1
    <3>3. ASSUME NEW k \in 1..(part[t] - 1) PROVE copies'[<<n, ver[t], k>>] > 0
      <4>1. k \in 1..Parts[n]
            BY <1>0, <2>1, <3>1
      <4> QED BY <1>1, <2>1, <3>1, <4>1
    <3> QED BY <1>2, <2>1, <2>3, <3>1, <3>2, <3>3 DEF AtSave, AtRemove, n
  <2>4. CASE pc[t] = "remove"
    <3>1. PICK u \in 1..device[n] : \A k \in 1..Parts[n] : copies[<<n, u, k>>] > 0
          BY <2>2, <2>4 DEF AtRemove, Whole, n
    <3>2. u \in 1..device'[n] /\ \A k \in 1..Parts[n] : copies'[<<n, u, k>>] > 0
          BY <1>0, <1>1, <2>1, <3>1
    <3> QED BY <1>2, <2>1, <2>4, <3>2 DEF AtSave, AtRemove, Whole, n
  <2> QED BY <1>2, <2>3, <2>4
<1>3. ASSUME NEW t \in Threads PROVE AtSave(t)' /\ AtRemove(t)'
  <2>1. CASE pc'[t] \notin {"save", "remove"}
        BY <2>1 DEF AtSave, AtRemove
  <2> QED BY <1>2, <2>1
<1> QED BY <1>3 DEF Loaded, Versions

LEMMA NextLoaded == Shape /\ Sizes /\ Loaded /\ [Next]_vars => Loaded'
<1> SUFFICES ASSUME Shape, Sizes, Loaded, [Next]_vars PROVE Loaded'
    OBVIOUS
<1> USE DEF world, diskVars
<1>0. /\ Threads = Passes \cup Flushers /\ Passes \cap Flushers = {}
      /\ pc \in [Threads -> PassLabels \cup FlushLabels]
      /\ todo \in [Threads -> Seq(Entry)] /\ ver \in [Threads -> Nat] /\ part \in [Threads -> Nat]
      /\ device \in [Names -> Nat] /\ staged \in [Names -> Nat] /\ copies \in [Items -> 0..2]
      /\ Parts \in [Names -> Nat \ {0}]
      /\ \A n \in Names : device[n] \in 0..MaxVersion
      BY ConstantsOK DEF Shape, TypeOK, Threads
<1>1. \A n \in Names : \A v \in Versions : \A k \in 1..Parts[n] : <<n, v, k>> \in Items
      BY DEF Items
<1>c. \A i \in Items : copies[i] \in Nat /\ copies[i] >= copies[i]
  <2>1. \A i \in Items : copies[i] \in 0..2
        BY <1>0
  <2> QED BY <2>1
\* Steps that save nothing.
<1>a. ASSUME UNCHANGED <<device, copies>>,
             \A t \in Threads :
               \/ pc'[t] \notin {"save", "remove"}
               \/ AtSave(t)' /\ AtRemove(t)'
               \/ pc'[t] = pc[t] /\ todo'[t] = todo[t] /\ ver'[t] = ver[t] /\ part'[t] = part[t]
      PROVE  Loaded'
  <2>1. /\ \A n \in Names : device'[n] \in Nat /\ device'[n] >= device[n]
        /\ \A i \in Items : copies'[i] \in Nat /\ copies'[i] >= copies[i]
        BY <1>0, <1>a, <1>c
  <2>2. \A n \in Names : \A v \in Versions : \A k \in 1..Parts[n] :
               v > device'[n] => copies'[<<n, v, k>>] = 0
        BY <1>a DEF Loaded
  <2> QED BY <1>a, <2>1, <2>2, LoadedKept
<1>b. ASSUME NEW t \in Threads, NEW l, Goto(t, l)
      PROVE  pc'[t] = l /\ \A u \in Threads \ {t} : pc'[u] = pc[u]
      BY <1>0, <1>b DEF Goto
<1>2. ASSUME NEW n \in Names, Drive(n) PROVE Loaded'
  <2>1. /\ \A m \in Names : device'[m] \in Nat /\ device'[m] >= device[m]
        /\ UNCHANGED <<copies, pc, todo, ver, part>>
        BY <1>0, <1>2 DEF Drive, threadVars
  <2>2. \A m \in Names : \A v \in Versions : \A k \in 1..Parts[m] :
               v > device'[m] => copies'[<<m, v, k>>] = 0
    <3>1. \A m \in Names : \A v \in Versions : v > device'[m] => v > device[m]
          BY <1>0, <2>1 DEF Versions
    <3> QED BY <2>1, <3>1 DEF Loaded
  <2>3. \A i \in Items : copies'[i] \in Nat /\ copies'[i] >= copies[i]
        BY <1>c, <2>1
  <2> QED BY <2>1, <2>2, <2>3, LoadedKept
<1>3. CASE Midnight \/ ChoosePeriod \/ Toggle \/ UNCHANGED vars
  <2>1. UNCHANGED <<device, copies, pc, todo, ver, part>>
        BY <1>3 DEF Midnight, ChoosePeriod, Toggle, threadVars, vars
  <2> QED BY <1>a, <2>1
<1>4. CASE Crash
  <2>1. UNCHANGED <<device, copies>> /\ \A t \in Threads : pc'[t] = "idle"
        BY <1>4 DEF Crash
  <2> QED BY <1>a, <2>1
<1>5. ASSUME NEW p \in Passes,
             StartSync(p) \/ Check(p) \/ Fetch(p) \/ FetchFails(p) \/ Record(p)
             \/ Probe(p) \/ Park(p) \/ Requeue(p)
      PROVE  Loaded'
  <2>1. PICK l : l \notin {"save", "remove"} /\ Goto(p, l)
        BY <1>5 DEF StartSync, Check, Fetch, FetchFails, Record, Probe, Park, Requeue, NextEntry
  <2>2. UNCHANGED <<device, copies, ver, part>>
        BY <1>5 DEF StartSync, Check, Fetch, FetchFails, Record, Probe, Park, Requeue
  <2>3. \A u \in Threads \ {p} : todo'[u] = todo[u]
        BY <1>0, <1>5 DEF StartSync, Check, Fetch, FetchFails, Record, Probe, Park, Requeue, NextEntry
  <2> QED BY <1>0, <1>a, <1>b, <2>1, <2>2, <2>3
<1>6. ASSUME NEW f \in Flushers, StartFlush(f) \/ List(f) \/ Remove(f) PROVE Loaded'
  <2>1. PICK l : l \notin {"save", "remove"} /\ Goto(f, l)
        BY <1>6 DEF StartFlush, List, Remove, NextEntry
  <2>2. UNCHANGED <<device, copies, ver, part>>
        BY <1>6 DEF StartFlush, List, Remove
  <2>3. \A u \in Threads \ {f} : todo'[u] = todo[u]
        BY <1>0, <1>6 DEF StartFlush, List, Remove, NextEntry
  <2> QED BY <1>0, <1>a, <1>b, <2>1, <2>2, <2>3
<1>7. ASSUME NEW t \in Threads, Load(t) PROVE Loaded'
  <2> DEFINE n == Current(t).name
  <2>1. /\ pc[t] = "load" /\ todo[t] # <<>> /\ Goto(t, "save")
        /\ ver' = [ver EXCEPT ![t] = staged[n]] /\ part' = [part EXCEPT ![t] = 1]
        /\ UNCHANGED <<device, copies, todo>>
        BY <1>7 DEF Load
  <2>2. n \in Names /\ staged[n] \in 1..device[n]
    <3>1. n \in Names /\ Current(t) \in Entries(todo[t])
          BY <2>1, CurrentEntry DEF Shape
    <3>2. staged[n] # 0 /\ staged[n] <= device[n]
          BY <2>1, <3>1 DEF Sizes, OnDisk, Listing
    <3> QED BY <1>0, <3>1, <3>2
  <2> HIDE DEF n
  <2>3. ver'[t] \in 1..device'[n] /\ part'[t] = 1 /\ pc'[t] = "save" /\ Parts[n] \in Nat \ {0}
        BY <1>0, <1>b, <2>1, <2>2
  <2>4. AtSave(t)' /\ AtRemove(t)'
    <3>1. Current(t)'.name = n
          BY <2>1 DEF n, Current
    <3>2. 1 \in 1..Parts[n] /\ 1..(1 - 1) = {}
          BY <2>3
    <3> QED BY <2>3, <3>1, <3>2 DEF AtSave, AtRemove
  <2> QED BY <1>0, <1>a, <1>b, <2>1, <2>4
<1>8. ASSUME NEW t \in Threads, LoadFails(t) \/ SaveFails(t) \/ Finish(t) PROVE Loaded'
  <2>1. PICK l : l \notin {"save", "remove"} /\ Goto(t, l)
        BY <1>8 DEF LoadFails, SaveFails, Finish, GiveUp, NextEntry
  <2>2. UNCHANGED <<device, copies>>
        BY <1>8 DEF LoadFails, SaveFails, Finish
  <2>3. \A u \in Threads \ {t} : todo'[u] = todo[u] /\ ver'[u] = ver[u] /\ part'[u] = part[u]
        BY <1>0, <1>8 DEF LoadFails, SaveFails, Finish, GiveUp, NextEntry
  <2> QED BY <1>a, <1>b, <2>1, <2>2, <2>3
<1>9. ASSUME NEW t \in Threads, Save(t) PROVE Loaded'
  <2> DEFINE n == Current(t).name
             v == ver[t]
             k == part[t]
  <2>1. /\ pc[t] = "save" /\ todo[t] # <<>> /\ UNCHANGED device
        /\ copies' = [copies EXCEPT ![<<n, v, k>>] = IF @ = 2 THEN 2 ELSE @ + 1]
        BY <1>9 DEF Save, Shape, Busy
  <2>2. /\ n \in Names /\ v \in 1..device[n] /\ v \in Versions
        /\ k \in 1..Parts[n] /\ <<n, v, k>> \in Items
        /\ \A j \in 1..(k - 1) : copies[<<n, v, j>>] > 0
    <3>1. n \in Names
          BY <2>1, CurrentEntry DEF Shape
    <3>2. v \in 1..device[n] /\ k \in 1..Parts[n] /\ \A j \in 1..(k - 1) : copies[<<n, v, j>>] > 0
          BY <2>1 DEF Loaded, AtSave
    <3>3. v \in Versions
          BY <1>0, <3>1, <3>2, ConstantsOK DEF Versions
    <3> QED BY <1>1, <3>1, <3>2, <3>3
  <2>3. \A u \in Threads \ {t} :
            pc'[u] = pc[u] /\ todo'[u] = todo[u] /\ ver'[u] = ver[u] /\ part'[u] = part[u]
    <3>1. /\ pc' = pc \/ (\E l : Goto(t, l))
          /\ UNCHANGED todo \/ todo' = [todo EXCEPT ![t] = Tail(@)]
          /\ part' = [part EXCEPT ![t] = @ + 1] \/ part' = [part EXCEPT ![t] = 1]
          /\ \E x : ver' = [ver EXCEPT ![t] = x]
          BY <1>9 DEF Save, NextEntry
    <3> QED BY <1>0, <1>b, <3>1
  <2>4. k < Parts[n] => UNCHANGED <<pc, todo>> /\ part'[t] = k + 1 /\ ver'[t] = v
    <3>1. SUFFICES ASSUME k < Parts[n] PROVE UNCHANGED <<pc, todo>> /\ part'[t] = k + 1 /\ ver'[t] = v
          OBVIOUS
    <3>2. UNCHANGED <<pc, todo>> /\ part' = [part EXCEPT ![t] = @ + 1] /\ ver' = [ver EXCEPT ![t] = @]
          BY <1>9, <3>1 DEF Save
    <3> QED BY <1>0, <3>2
  <2>5. ~(k < Parts[n]) => \/ pc'[t] = "load"
                           \/ pc'[t] = "remove" /\ UNCHANGED todo
    <3>1. SUFFICES ASSUME ~(k < Parts[n]) PROVE pc'[t] = "load" \/ (pc'[t] = "remove" /\ UNCHANGED todo)
          OBVIOUS
    <3>2. Goto(t, "load") \/ (Goto(t, "remove") /\ UNCHANGED todo)
          BY <1>9, <3>1 DEF Save, NextEntry
    <3> QED BY <1>b, <3>2
  <2> HIDE DEF n, v, k
  <2>6. /\ \A i \in Items : copies'[i] \in Nat /\ copies'[i] >= copies[i]
        /\ copies'[<<n, v, k>>] > 0
        /\ \A i \in Items : i # <<n, v, k>> => copies'[i] = copies[i]
    <3> DEFINE i == <<n, v, k>>
    <3>1. i \in Items /\ copies' = [copies EXCEPT ![i] = IF @ = 2 THEN 2 ELSE @ + 1]
          BY <2>1, <2>2
    <3> HIDE DEF i
    <3>2. \A j \in Items : copies'[j] = IF j = i THEN IF copies[i] = 2 THEN 2 ELSE copies[i] + 1 ELSE copies[j]
          BY <1>0, <3>1
    <3>3. \A j \in Items : copies[j] \in 0..2
          BY <1>0
    <3>4. \A j \in Items : copies'[j] \in Nat /\ copies'[j] >= copies[j] /\ (j = i => copies'[j] > 0)
          BY <3>2, <3>3
    <3>5. \A j \in Items : j # i => copies'[j] = copies[j]
          BY <3>2
    <3> QED BY <3>1, <3>4, <3>5 DEF i
  <2>7. \A m \in Names : \A u \in Versions : \A j \in 1..Parts[m] :
               u > device'[m] => copies'[<<m, u, j>>] = 0
    <3> SUFFICES ASSUME NEW m \in Names, NEW u \in Versions, NEW j \in 1..Parts[m], u > device[m]
                 PROVE  copies'[<<m, u, j>>] = 0
        BY <2>1
    <3>1. <<m, u, j>> # <<n, v, k>>
          BY <1>0, <2>2
    <3> QED BY <1>1, <2>6, <3>1 DEF Loaded
  <2>8. \A j \in 1..k : copies'[<<n, v, j>>] > 0
    <3> SUFFICES ASSUME NEW j \in 1..k PROVE copies'[<<n, v, j>>] > 0
        OBVIOUS
    <3>1. CASE j = k
          BY <2>6, <3>1
    <3>2. CASE j # k
      <4>1. j \in 1..(k - 1) /\ j \in 1..Parts[n]
            BY <1>0, <2>2, <3>2
      <4>2. <<n, v, j>> \in Items /\ copies[<<n, v, j>>] > 0
            BY <1>1, <2>2, <4>1
      <4>3. <<n, v, j>> # <<n, v, k>>
            BY <3>2
      <4> QED BY <2>6, <4>2, <4>3
    <3> QED BY <3>1, <3>2
  <2>9. pc'[t] \notin {"save", "remove"} \/ (AtSave(t)' /\ AtRemove(t)')
    <3>1. CASE k < Parts[n]
      <4>1. Current(t)'.name = n /\ pc'[t] = "save"
            BY <2>1, <2>4, <3>1 DEF n, Current
      <4>2. k + 1 \in 1..Parts[n] /\ (k + 1) - 1 = k
            BY <1>0, <2>2, <3>1
      <4> QED BY <2>1, <2>2, <2>4, <2>8, <3>1, <4>1, <4>2 DEF AtSave, AtRemove
    <3>2. CASE ~(k < Parts[n]) /\ pc'[t] = "remove" /\ UNCHANGED todo
      <4>1. Current(t)'.name = n
            BY <3>2 DEF n, Current
      <4>2. k = Parts[n]
            BY <1>0, <2>2, <3>2
      <4>3. v \in 1..device'[n] /\ \A j \in 1..Parts[n] : copies'[<<n, v, j>>] > 0
            BY <2>1, <2>2, <2>8, <4>2
      <4> QED BY <3>2, <4>1, <4>3 DEF AtSave, AtRemove, Whole
    <3> QED BY <2>5, <3>1, <3>2
  <2>10. \A m \in Names : device'[m] \in Nat /\ device'[m] >= device[m]
        BY <1>0, <2>1
  <2> QED BY <2>3, <2>6, <2>7, <2>9, <2>10, LoadedKept
<1> QED
  BY <1>0, <1>2, <1>3, <1>4, <1>5, <1>6, <1>7, <1>8, <1>9 DEF Next, Sync, Flush, Ingest

-----------------------------------------------------------------------------
\* The queue and the library.

THEOREM Invariance == Spec => []IInv
<1>1. Init => IInv
      BY InitShape, InitSizes, InitHolder, InitLoaded DEF IInv
<1>2. IInv /\ [Next]_vars => IInv'
      BY NextShape, NextSizes, NextHolder, NextLoaded DEF IInv
<1> QED BY <1>1, <1>2, PTL DEF Spec

\* What is at a version of a file that was written once.
LEMMA WrittenOnce ==
    ASSUME IInv, NEW n \in Names, device[n] = 1, Whole(n)
    PROVE  Arrived(n, 1)
<1>1. PICK u \in 1..device[n] : \A k \in 1..Parts[n] : copies[<<n, u, k>>] > 0
      BY DEF Whole
<1>2. u = 1 /\ MaxVersion \in Nat \ {0}
      BY <1>1, ConstantsOK
<1> QED BY <1>1, <1>2 DEF Arrived

\* What is in the library stays.
LEMMA CopiesStay ==
    ASSUME IInv, [Next]_vars
    PROVE  \A i \in Items : copies[i] > 0 => copies'[i] > 0
<1> SUFFICES ASSUME NEW i \in Items, copies[i] > 0 PROVE copies'[i] > 0
    OBVIOUS
<1>1. CASE UNCHANGED copies
      BY <1>1
<1>2. ASSUME NEW t \in Threads, Save(t) PROVE copies'[i] > 0
  <2>1. PICK j : copies' = [copies EXCEPT ![j] = IF @ = 2 THEN 2 ELSE @ + 1]
        BY <1>2 DEF Save
  <2>2. copies \in [Items -> 0..2]
        BY DEF IInv, Shape, TypeOK
  <2>3. copies[i] \in 1..2
        BY <2>2
  <2>4. copies'[i] = IF i = j THEN IF copies[i] = 2 THEN 2 ELSE copies[i] + 1 ELSE copies[i]
        BY <2>1, <2>2
  <2> QED BY <2>3, <2>4
<1>3. CASE Next
  <2>1. UNCHANGED copies \/ \E t \in Threads : Save(t)
        BY <1>3 DEF Next, Sync, Flush, Ingest, Threads, Drive, Midnight, ChoosePeriod, Toggle, Crash,
           StartSync, Check, Fetch, FetchFails, Record, Probe, Park, Requeue, StartFlush, List,
           Remove, Load, LoadFails, SaveFails, Finish
  <2> QED BY <1>1, <1>2, <2>1
<1> QED BY <1>1, <1>3 DEF vars

LEMMA ArrivedStays ==
    ASSUME IInv, [Next]_vars, NEW n \in Names, NEW v \in Nat, v # 0, Arrived(n, v)
    PROVE  \E u \in v..MaxVersion : \A k \in 1..Parts[n] : copies'[<<n, u, k>>] > 0
<1>1. PICK u \in v..MaxVersion : \A k \in 1..Parts[n] : copies[<<n, u, k>>] > 0
      BY DEF Arrived
<1>2. \A k \in 1..Parts[n] : <<n, u, k>> \in Items
  <2>1. u \in Versions
        BY <1>1, ConstantsOK DEF Versions
  <2> QED BY <2>1 DEF Items
<1> QED BY <1>1, <1>2, CopiesStay

\* The rows a step takes: the one a flush removes, which it has uploaded.
LEMMA RowsGo ==
    ASSUME IInv, [Next]_vars, NEW n \in NamesIn(queue), n \notin NamesIn(queue')
    PROVE  n \in Names /\ Whole(n) /\ UNCHANGED <<device, copies>>
<1>1. ASSUME NEW f \in Flushers, Remove(f)
      PROVE  n \in Names /\ Whole(n) /\ UNCHANGED <<device, copies>>
  <2>1. pc[f] = "remove" /\ UNCHANGED <<device, copies>> /\ queue' = Without(queue, Current(f).name)
        BY <1>1 DEF Remove, world
  <2>2. NamesIn(queue') = NamesIn(queue) \ {Current(f).name}
        BY <2>1, WithoutRow DEF IInv, Shape, TypeOK, OneRowEach
  <2>3. n = Current(f).name
        BY <2>2
  <2>4. todo[f] # <<>> /\ f \in Threads
        BY <2>1 DEF IInv, Shape, Busy, Threads
  <2> QED BY <2>1, <2>3, <2>4, CurrentEntry DEF IInv, Shape, Loaded, AtRemove
<1>2. ASSUME NEW p \in Passes, Park(p) \/ Requeue(p) PROVE FALSE
  <2>1. todo[p] # <<>> /\ p \in Threads
        BY <1>2 DEF Park, Requeue, IInv, Shape, Busy, Threads
  <2>2. NamesIn(queue') = NamesIn(queue) \cup {Current(p).name}
        BY <1>2, <2>1, AddedRow, CurrentEntry DEF Park, Requeue, IInv, Shape
  <2> QED BY <2>2
<1>3. ASSUME UNCHANGED queue PROVE FALSE
      BY <1>3
<1>4. CASE Next
  <2>1. \/ UNCHANGED queue
        \/ \E p \in Passes : Park(p) \/ Requeue(p)
        \/ \E f \in Flushers : Remove(f)
        BY <1>4 DEF Next, Sync, Flush, Ingest, Drive, Midnight, ChoosePeriod, Toggle, Crash, diskVars,
           StartSync, Check, Fetch, FetchFails, Record, Probe, StartFlush, List, Load, LoadFails,
           Save, SaveFails, Finish
  <2> QED BY <1>1, <1>2, <1>3, <2>1
<1> QED BY <1>3, <1>4 DEF vars

\* A queued file leaves the queue only with all its sessions in the library,
\* unless the logger writes it again: whatever is killed, fails or runs at once.
THEOREM QueuedStays == Spec => QueuedUntilUploaded
<1> DEFINE A == \A e \in {queue[i] : i \in 1..Len(queue)} :
                    e.name \notin NamesIn(queue') /\ device'[e.name] = 1
                        => Arrived(e.name, e.size)'
<1>1. IInv /\ [Next]_vars => A
  <2> SUFFICES ASSUME IInv, [Next]_vars, NEW e \in Entries(queue),
                      e.name \notin NamesIn(queue'), device'[e.name] = 1
               PROVE  Arrived(e.name, e.size)'
      BY DEF Entries
  <2> DEFINE n == e.name
  <2>1. n \in NamesIn(queue) /\ OnDisk(e)
        BY NamesOfEntries DEF IInv, Sizes
  <2>2. n \in Names /\ Whole(n) /\ UNCHANGED <<device, copies>>
        BY <2>1, RowsGo
  <2>3. device[n] = 1 /\ e.size = 1
        BY <2>1, <2>2 DEF OnDisk, Written
  <2>4. Arrived(n, 1)
        BY <2>2, <2>3, WrittenOnce
  <2> QED BY <2>2, <2>3, <2>4 DEF Arrived
<1> QED BY <1>1, Invariance, PTL DEF QueuedUntilUploaded, Spec

-----------------------------------------------------------------------------
\* Nothing is lost.

Uploading == {"load", "save", "requeue", "park"}

LEMMA HandOfPass ==
    ASSUME NEW n
    PROVE  InHand(n) <=> \E p \in Passes :
               n \in NamesIn(fresh[p]) \/ (pc[p] \in Uploading /\ n \in NamesIn(todo[p]))
BY DEF InHand, Uploading

\* A step of another thread, or one that leaves a pass what it has in hand.
LEMMA HandStays ==
    ASSUME NEW n,
           \A p \in Passes :
               /\ n \in NamesIn(fresh[p]) => n \in NamesIn(fresh'[p])
               /\ pc[p] \in Uploading /\ n \in NamesIn(todo[p])
                      => pc'[p] \in Uploading /\ n \in NamesIn(todo'[p]),
           InHand(n)
    PROVE  InHand(n)'
BY DEF InHand, Uploading

LEMMA HandOfOne ==
    ASSUME NEW n, NEW p \in Passes, InHand(n),
           \A q \in Passes \ {p} : pc'[q] = pc[q] /\ todo'[q] = todo[q] /\ fresh'[q] = fresh[q],
           n \in NamesIn(fresh[p]) => n \in NamesIn(fresh'[p]),
           pc[p] \in Uploading /\ n \in NamesIn(todo[p])
                      => pc'[p] \in Uploading /\ n \in NamesIn(todo'[p])
    PROVE  InHand(n)'
<1>1. ASSUME NEW q \in Passes
      PROVE  /\ n \in NamesIn(fresh[q]) => n \in NamesIn(fresh'[q])
             /\ pc[q] \in Uploading /\ n \in NamesIn(todo[q])
                    => pc'[q] \in Uploading /\ n \in NamesIn(todo'[q])
  <2>1. CASE q = p
        BY <2>1
  <2>2. CASE q # p
        BY <2>2
  <2> QED BY <2>1, <2>2
<1> QED BY <1>1, HandStays

LEMMA NextNothingLost == IInv /\ NothingLost /\ [Next]_vars => NothingLost'
<1> SUFFICES ASSUME IInv, NothingLost, [Next]_vars, crashes' = 0,
                    NEW n \in Names, synced'[n] # 0, device'[n] = 1
             PROVE  (Arrived(n, synced[n]) \/ n \in NamesIn(queue) \/ InHand(n))'
    BY DEF NothingLost
<1> USE DEF world, diskVars
<1> DEFINE Safe == Arrived(n, synced[n]) \/ n \in NamesIn(queue) \/ InHand(n)
<1>0. /\ Threads = Passes \cup Flushers /\ Passes \cap Flushers = {}
      /\ pc \in [Threads -> PassLabels \cup FlushLabels]
      /\ todo \in [Threads -> Seq(Entry)] /\ fresh \in [Threads -> Seq(Entry)]
      /\ device \in [Names -> Nat] /\ synced \in [Names -> Nat] /\ crashes \in Nat
      BY ConstantsOK DEF IInv, Shape, TypeOK, Threads
\* With the file and its record as they were, the step has to keep what was.
<1>a. ASSUME synced'[n] = synced[n], device[n] = 1, crashes = 0, InHand(n) => Safe'
      PROVE  Safe'
  <2>1. Safe
        BY <1>a DEF NothingLost
  <2>2. CASE Arrived(n, synced[n])
    <3>1. synced[n] \in Nat /\ synced[n] # 0
          BY <1>0, <1>a
    <3> QED BY <1>a, <2>2, <3>1, ArrivedStays DEF Arrived
  <2>3. CASE n \in NamesIn(queue) /\ n \notin NamesIn(queue')
    <3>1. Whole(n) /\ UNCHANGED <<device, copies>>
          BY <2>3, RowsGo
    <3>2. Arrived(n, 1)
          BY <1>a, <3>1, WrittenOnce
    <3>3. synced[n] = 1
          BY <1>0, <1>a DEF IInv, Sizes
    <3> QED BY <1>a, <3>1, <3>2, <3>3 DEF Arrived
  <2> QED BY <1>a, <2>1, <2>2, <2>3
<1>b. ASSUME NEW t \in Threads, NEW l, Goto(t, l)
      PROVE  pc'[t] = l /\ \A u \in Threads \ {t} : pc'[u] = pc[u]
      BY <1>0, <1>b DEF Goto
<1>c. ASSUME NEW t \in Threads, UNCHANGED todo \/ todo' = [todo EXCEPT ![t] = Tail(@)]
      PROVE  \A u \in Threads \ {t} : todo'[u] = todo[u]
      BY <1>0, <1>c
<1>d. ASSUME NEW p \in Passes, NEW l, Goto(p, l), UNCHANGED todo \/ todo' = [todo EXCEPT ![p] = Tail(@)],
             \A q \in Passes \ {p} : fresh'[q] = fresh[q],
             n \in NamesIn(fresh[p]) => n \in NamesIn(fresh'[p]),
             pc[p] \in Uploading /\ n \in NamesIn(todo[p]) => l \in Uploading /\ n \in NamesIn(todo'[p]),
             InHand(n)
      PROVE  InHand(n)'
  <2>1. p \in Threads /\ Passes \ {p} \subseteq Threads \ {p}
        BY <1>0
  <2>2. pc'[p] = l /\ \A q \in Passes \ {p} : pc'[q] = pc[q]
        BY <1>b, <1>d, <2>1
  <2>3. \A q \in Passes \ {p} : todo'[q] = todo[q]
        BY <1>c, <1>d, <2>1
  <2> HIDE DEF InHand, NamesIn, Uploading
  <2> QED BY <1>d, <2>2, <2>3, HandOfOne
<1>1. ASSUME NEW m \in Names, Drive(m) PROVE Safe'
  <2>1. UNCHANGED <<synced, queue, pc, todo, fresh, crashes>> /\ device' = [device EXCEPT ![m] = @ + 1]
        BY <1>1 DEF Drive, threadVars
  <2>2. device[n] # 0
        BY <1>0, <2>1 DEF IInv, Sizes
  <2>3. device[n] = 1
        BY <1>0, <2>1, <2>2
  <2>4. InHand(n) => InHand(n)'
        BY <2>1, HandStays
  <2> QED BY <1>a, <2>1, <2>3, <2>4
<1>2. CASE Midnight \/ ChoosePeriod \/ Toggle \/ UNCHANGED vars
  <2>1. UNCHANGED <<device, synced, queue, pc, todo, fresh, crashes>>
        BY <1>2 DEF Midnight, ChoosePeriod, Toggle, threadVars, vars
  <2>2. InHand(n) => InHand(n)'
        BY <2>1, HandStays
  <2> QED BY <1>a, <2>1, <2>2
<1>3. CASE Crash
      BY <1>0, <1>3 DEF Crash
<1>4. ASSUME NEW p \in Passes, StartSync(p) PROVE Safe'
  <2>1. /\ UNCHANGED <<device, synced, fresh, crashes>> /\ pc[p] = "idle"
        /\ \A u \in Passes \ {p} : todo'[u] = todo[u] /\ pc'[u] = pc[u]
        BY <1>0, <1>4 DEF StartSync, Goto
  <2>2. InHand(n) => InHand(n)'
        BY <2>1, HandStays DEF Uploading
  <2> QED BY <1>a, <2>1, <2>2
<1>5. ASSUME NEW p \in Passes, Check(p) \/ Fetch(p) PROVE Safe'
  <2>1. /\ UNCHANGED <<device, synced, fresh, crashes>> /\ pc[p] \notin Uploading
        /\ UNCHANGED todo \/ todo' = [todo EXCEPT ![p] = Tail(@)]
        BY <1>5 DEF Check, Fetch, NextEntry, Uploading
  <2>2. PICK l : Goto(p, l)
        BY <1>5 DEF Check, Fetch, NextEntry
  <2>3. InHand(n) => InHand(n)'
        BY <1>d, <2>1, <2>2
  <2> QED BY <1>a, <2>1, <2>3
<1>6. ASSUME NEW p \in Passes, FetchFails(p) PROVE Safe'
  <2>1. /\ UNCHANGED <<device, fresh, crashes>> /\ pc[p] \notin Uploading /\ Goto(p, "check")
        /\ todo' = [todo EXCEPT ![p] = Tail(@)] /\ synced' = [synced EXCEPT ![Current(p).name] = 0]
        BY <1>6 DEF FetchFails, RecordAttempt, NextEntry, Uploading
  <2>2. synced'[n] = synced[n]
        BY <1>0, <2>1
  <2>3. InHand(n) => InHand(n)'
        BY <1>d, <2>1
  <2> QED BY <1>a, <2>1, <2>2, <2>3
<1>7. ASSUME NEW p \in Passes, Record(p) PROVE Safe'
  <2> DEFINE c == Current(p)
  <2>1. /\ UNCHANGED <<device, crashes>> /\ pc[p] = "record" /\ todo[p] # <<>> /\ Goto(p, "check")
        /\ todo' = [todo EXCEPT ![p] = Tail(@)] /\ synced' = [synced EXCEPT ![c.name] = c.size]
        /\ fresh' = [fresh EXCEPT ![p] = Append(@, c)]
        BY <1>7 DEF Record, RecordAttempt, NextEntry, IInv, Shape, Busy, Threads
  <2>2. c \in Entry
        BY <1>0, <2>1, CurrentEntry DEF IInv, Shape
  <2> HIDE DEF c
  <2>3. NamesIn(fresh'[p]) = NamesIn(fresh[p]) \cup {c.name}
        BY <1>0, <2>1, <2>2, AppendToList
  <2>4. \A u \in Threads \ {p} : fresh'[u] = fresh[u]
        BY <1>0, <2>1
  <2>5. CASE c.name = n
        BY <2>3, <2>5 DEF InHand
  <2>6. CASE c.name # n
    <3>1. synced'[n] = synced[n]
          BY <1>0, <2>1, <2>6
    <3>2. InHand(n) => InHand(n)'
          BY <1>0, <1>d, <2>1, <2>3, <2>4 DEF Uploading
    <3> QED BY <1>a, <2>1, <3>1, <3>2
  <2> QED BY <2>5, <2>6
<1>8. ASSUME NEW p \in Passes, Probe(p) PROVE Safe'
  <2>1. /\ UNCHANGED <<device, synced, crashes>> /\ pc[p] = "check"
        /\ todo' = [todo EXCEPT ![p] = fresh[p]] /\ fresh' = [fresh EXCEPT ![p] = <<>>]
        /\ \A u \in Passes \ {p} : pc'[u] = pc[u]
        /\ fresh[p] # <<>> => pc'[p] \in Uploading
        BY <1>0, <1>8 DEF Probe, Goto, Uploading
  <2>2. ASSUME NEW q \in Passes,
               n \in NamesIn(fresh[q]) \/ (pc[q] \in Uploading /\ n \in NamesIn(todo[q]))
        PROVE  InHand(n)'
    <3>1. CASE q = p
      <4>1. fresh[p] # <<>> /\ n \in NamesIn(fresh[p])
            BY <2>1, <2>2, <3>1, EmptyList DEF Uploading
      <4>2. pc'[p] \in Uploading /\ todo'[p] = fresh[p]
            BY <1>0, <2>1, <4>1
      <4> QED BY <4>1, <4>2 DEF InHand, Uploading
    <3>2. CASE q # p
          BY <1>0, <2>1, <2>2, <3>2 DEF InHand, Uploading
    <3> QED BY <3>1, <3>2
  <2> QED BY <1>a, <2>1, <2>2, HandOfPass
<1>9. ASSUME NEW p \in Passes, Park(p) \/ Requeue(p) PROVE Safe'
  <2>1. /\ UNCHANGED <<device, synced, fresh, crashes>> /\ todo[p] # <<>> /\ todo[p] \in Seq(Entry)
        /\ todo' = [todo EXCEPT ![p] = Tail(@)]
        BY <1>0, <1>9 DEF Park, Requeue, NextEntry, IInv, Shape, Busy
  <2>2. PICK l : Goto(p, l) /\ (Tail(todo[p]) # <<>> => l \in Uploading)
        BY <1>9 DEF Park, Requeue, NextEntry, Uploading
  <2>3. NamesIn(queue') = NamesIn(queue) \cup {Current(p).name}
        BY <1>0, <1>9, <2>1, AddedRow, CurrentEntry DEF Park, Requeue, IInv, Shape
  <2>4. CASE Current(p).name = n
        BY <2>3, <2>4
  <2>5. CASE Current(p).name # n
    <3>1. todo'[p] = Tail(todo[p]) /\ NamesIn(todo[p]) = NamesIn(todo'[p]) \cup {Current(p).name}
          BY <1>0, <2>1, TailOfList DEF Current
    <3>2. n \in NamesIn(todo[p]) => n \in NamesIn(todo'[p]) /\ pc'[p] \in Uploading
          BY <1>0, <1>b, <2>2, <2>5, <3>1, EmptyList
    <3>3. InHand(n) => InHand(n)'
          BY <1>d, <2>1, <2>2, <3>1, <3>2, EmptyList
    <3> QED BY <1>a, <2>1, <3>3
  <2> QED BY <2>4, <2>5
<1>10. ASSUME NEW t \in Threads, Load(t) \/ LoadFails(t) \/ SaveFails(t) \/ Finish(t) PROVE Safe'
  <2>1. UNCHANGED <<device, synced, fresh, crashes>>
        BY <1>10 DEF Load, LoadFails, SaveFails, Finish
  <2>2. PICK l : Goto(t, l) /\ (t \in Passes /\ todo[t] # <<>> => l \in Uploading)
        BY <1>10 DEF Load, LoadFails, SaveFails, Finish, GiveUp, NextEntry, Uploading
  <2>3. /\ t \in Passes => UNCHANGED todo
        /\ UNCHANGED todo \/ todo' = [todo EXCEPT ![t] = Tail(@)]
        BY <1>10 DEF Load, LoadFails, SaveFails, Finish, GiveUp, NextEntry
  <2>4. InHand(n) => InHand(n)'
        BY <1>0, <1>b, <1>c, <2>1, <2>2, <2>3, EmptyList, HandStays
  <2> QED BY <1>a, <2>1, <2>4
<1>11. ASSUME NEW t \in Threads, Save(t) PROVE Safe'
  <2>1. UNCHANGED <<device, synced, fresh, crashes>> /\ pc[t] = "save" /\ todo[t] # <<>>
        BY <1>11 DEF Save, IInv, Shape, Busy
  <2>2. \/ UNCHANGED <<pc, todo>>
        \/ t \in Flushers /\ UNCHANGED todo /\ Goto(t, "remove")
        \/ t \in Passes /\ Goto(t, "load") /\ todo' = [todo EXCEPT ![t] = Tail(@)]
           /\ ~(part[t] < Parts[Current(t).name])
        BY <1>0, <1>11 DEF Save, NextEntry
  <2>3. CASE UNCHANGED <<pc, todo>>
        BY <1>a, <2>1, <2>3, HandStays
  <2>4. CASE t \in Flushers /\ UNCHANGED todo /\ Goto(t, "remove")
        BY <1>0, <1>a, <1>b, <2>1, <2>4, HandStays
  <2>5. CASE t \in Passes /\ Goto(t, "load") /\ todo' = [todo EXCEPT ![t] = Tail(@)]
             /\ ~(part[t] < Parts[Current(t).name])
    <3>1. CASE Current(t).name = n
      <4>1. /\ ver[t] = 1 /\ part[t] \in 1..Parts[n] /\ Parts[n] \in Nat \ {0}
            /\ \A k \in 1..(part[t] - 1) : copies[<<n, 1, k>>] > 0
            /\ synced[n] = 1 /\ 1 \in Versions
        <5>1. /\ ver[t] \in 1..1 /\ part[t] \in 1..Parts[n]
              /\ \A k \in 1..(part[t] - 1) : copies[<<n, ver[t], k>>] > 0
              BY <2>1, <3>1 DEF IInv, Loaded, AtSave
        <5>2. synced[n] = 1
              BY <1>0, <2>1 DEF IInv, Sizes
        <5>3. Parts[n] \in Nat \ {0} /\ 1 \in Versions
              BY ConstantsOK DEF Versions
        <5> QED BY <5>1, <5>2, <5>3
      <4>2. \A k \in 1..Parts[n] : <<n, 1, k>> \in Items
            BY <4>1 DEF Items
      <4>3. part[t] = Parts[n]
            BY <2>5, <3>1, <4>1
      <4>4. copies'[<<n, 1, Parts[n]>>] > 0
        <5> DEFINE i == <<n, 1, Parts[n]>>
        <5>1. /\ copies' = [copies EXCEPT ![i] = IF @ = 2 THEN 2 ELSE @ + 1]
              /\ i \in Items
              BY <1>11, <3>1, <4>1, <4>2, <4>3 DEF Save
        <5> HIDE DEF i
        <5>2. copies \in [Items -> 0..2]
              BY DEF IInv, Shape, TypeOK
        <5>3. copies[i] \in 0..2 /\ copies'[i] = IF copies[i] = 2 THEN 2 ELSE copies[i] + 1
              BY <5>1, <5>2
        <5>4. copies'[i] > 0
              BY <5>3
        <5> QED BY <5>4 DEF i
      <4>5. \A k \in 1..Parts[n] : copies'[<<n, 1, k>>] > 0
        <5> SUFFICES ASSUME NEW k \in 1..Parts[n], k # Parts[n] PROVE copies'[<<n, 1, k>>] > 0
            BY <4>4
        <5>1. k \in 1..(part[t] - 1)
              BY <4>1, <4>3
        <5> QED BY <4>1, <4>2, <5>1, CopiesStay
      <4>6. Arrived(n, synced[n])'
        <5>1. 1 \in synced'[n]..MaxVersion
              BY <2>1, <4>1, ConstantsOK
        <5> QED BY <4>5, <5>1 DEF Arrived
      <4> QED BY <4>6
    <3>2. CASE Current(t).name # n
      <4>1. todo'[t] = Tail(todo[t]) /\ NamesIn(todo[t]) = NamesIn(todo'[t]) \cup {Current(t).name}
            BY <1>0, <2>1, <2>5, TailOfList DEF Current
      <4>2. InHand(n) => InHand(n)'
            BY <1>d, <2>1, <2>5, <3>2, <4>1 DEF Uploading
      <4> QED BY <1>a, <2>1, <4>2
    <3> QED BY <3>1, <3>2
  <2> QED BY <2>2, <2>3, <2>4, <2>5
<1>12. ASSUME NEW f \in Flushers, StartFlush(f) \/ List(f) \/ Remove(f) PROVE Safe'
  <2>1. UNCHANGED <<device, synced, fresh, crashes>>
        BY <1>12 DEF StartFlush, List, Remove
  <2>2. \A p \in Passes : pc'[p] = pc[p] /\ todo'[p] = todo[p]
        BY <1>0, <1>12 DEF StartFlush, List, Remove, Goto, NextEntry
  <2>3. InHand(n) => InHand(n)'
        BY <2>1, <2>2, HandStays
  <2> QED BY <1>a, <2>1, <2>3
<1> QED
  BY <1>0, <1>1, <1>2, <1>3, <1>4, <1>5, <1>6, <1>7, <1>8, <1>9, <1>10, <1>11, <1>12
     DEF Next, Sync, Flush, Ingest

\* As long as the application is not killed, a file recorded as synced and not
\* written again is in the library, queued or in the hands of a pass.
THEOREM NothingIsLost == Spec => []NothingLost
<1>1. Init => NothingLost
      BY DEF Init, NothingLost
<1> QED BY <1>1, NextNothingLost, Invariance, PTL DEF Spec

-----------------------------------------------------------------------------
\* Nothing is uploaded twice, with one pass at a time.

OnePass == \A p, q \in Passes : p = q

\* The last session of n is in the library.
LastOf(n) == <<n, 1, Parts[n]>>

\* A file that was written once is in one place: not yet recorded, in the hands
\* of the pass, or queued; and it stays queued after its last session only
\* until the flush that saved it removes it.
InOnePlace(n) ==
    /\ synced[n] = 0 \/ InHand(n) => copies[LastOf(n)] = 0 /\ n \notin NamesIn(queue)
    /\ synced[n] = 0 => ~InHand(n)
    /\ \A p \in Passes :
           pc[p] \in {"fetch", "record"} /\ Current(p).name = n => synced[n] = 0
    /\ \A p \in Passes : Single(fresh[p], n) /\ (pc[p] \in Uploading => Single(todo[p], n))
    /\ n \in NamesIn(queue) /\ copies[LastOf(n)] # 0
           => \E f \in Flushers : pc[f] = "remove" /\ Current(f).name = n
    /\ copies[LastOf(n)] <= 1

Once == crashes = 0 => \A n \in Names : device[n] = 1 => InOnePlace(n)

\* A step of a flush that saves no last session of n and leaves no row of n behind.
LEMMA FlushKeepsPlace ==
    ASSUME NEW n, InOnePlace(n), NEW f \in Flushers, UNCHANGED <<synced, fresh>>,
           copies'[LastOf(n)] = copies[LastOf(n)],
           \A p \in Passes : pc'[p] = pc[p] /\ todo'[p] = todo[p],
           \A g \in Flushers \ {f} : pc'[g] = pc[g] /\ todo'[g] = todo[g],
           n \in NamesIn(queue') => n \in NamesIn(queue),
           pc[f] = "remove" /\ Current(f).name = n => n \notin NamesIn(queue')
    PROVE  InOnePlace(n)'
<1>1. InHand(n)' <=> InHand(n)
      BY DEF InHand
<1>2. ASSUME n \in NamesIn(queue'), copies'[LastOf(n)] # 0
      PROVE  \E g \in Flushers : pc'[g] = "remove" /\ Current(g)'.name = n
  <2>1. PICK g \in Flushers : pc[g] = "remove" /\ Current(g).name = n
        BY <1>2 DEF InOnePlace
  <2>2. g # f
        BY <1>2, <2>1
  <2> QED BY <2>1, <2>2 DEF Current
<1> QED BY <1>1, <1>2 DEF InOnePlace, Current, LastOf

\* A step of the pass that saves no last session of n and does not queue n.
LEMMA PassKeepsPlace ==
    ASSUME NEW n, InOnePlace(n), NEW p \in Passes, OnePass,
           copies'[LastOf(n)] = copies[LastOf(n)],
           \A f \in Flushers : pc'[f] = pc[f] /\ todo'[f] = todo[f],
           n \in NamesIn(queue') <=> n \in NamesIn(queue),
           synced'[n] = synced[n],
           n \in NamesIn(fresh'[p]) \/ (pc'[p] \in Uploading /\ n \in NamesIn(todo'[p])) => InHand(n),
           pc'[p] \in {"fetch", "record"} /\ Head(todo'[p]).name = n => synced[n] = 0,
           Single(fresh'[p], n), pc'[p] \in Uploading => Single(todo'[p], n)
    PROVE  InOnePlace(n)'
<1>1. \A q \in Passes : q = p
      BY DEF OnePass
<1>2. InHand(n)' => InHand(n)
      BY <1>1 DEF InHand, Uploading
<1> QED BY <1>1, <1>2 DEF InOnePlace, Current, LastOf

LEMMA NextOnce == OnePass /\ IInv /\ Once /\ [Next]_vars => Once'
<1> SUFFICES ASSUME OnePass, IInv, Once, [Next]_vars, crashes' = 0,
                    NEW n \in Names, device'[n] = 1
             PROVE  InOnePlace(n)'
    BY DEF Once
<1> USE DEF world, diskVars
<1>0. /\ Threads = Passes \cup Flushers /\ Passes \cap Flushers = {}
      /\ pc \in [Threads -> PassLabels \cup FlushLabels]
      /\ todo \in [Threads -> Seq(Entry)] /\ fresh \in [Threads -> Seq(Entry)]
      /\ device \in [Names -> Nat] /\ synced \in [Names -> Nat] /\ crashes \in Nat
      /\ copies \in [Items -> 0..2] /\ queue \in Seq(Entry)
      BY ConstantsOK DEF IInv, Shape, TypeOK, Threads
<1>1. LastOf(n) \in Items
      BY ConstantsOK DEF LastOf, Items, Versions
<1>a. ASSUME device[n] = 1, crashes = 0 PROVE InOnePlace(n)
      BY <1>a DEF Once
<1>b. ASSUME NEW t \in Threads, NEW l, Goto(t, l)
      PROVE  pc'[t] = l /\ \A u \in Threads \ {t} : pc'[u] = pc[u]
      BY <1>0, <1>b DEF Goto
<1>c. ASSUME NEW t \in Threads, UNCHANGED todo \/ todo' = [todo EXCEPT ![t] = Tail(@)]
      PROVE  \A u \in Threads \ {t} : todo'[u] = todo[u]
      BY <1>0, <1>c
<1>d. ASSUME NEW t \in Threads, todo[t] # <<>>, todo' = [todo EXCEPT ![t] = Tail(@)]
      PROVE  /\ NamesIn(todo[t]) = NamesIn(todo'[t]) \cup {Current(t).name}
             /\ Single(todo[t], n) => Single(todo'[t], n)
             /\ Single(todo[t], n) /\ Current(t).name = n => n \notin NamesIn(todo'[t])
  <2>1. todo[t] \in Seq(Entry) /\ todo'[t] = Tail(todo[t]) /\ Current(t) = Head(todo[t])
        BY <1>0, <1>d DEF Current
  <2> QED BY <1>d, <2>1, TailOfList
<1>e. ASSUME NEW p \in Passes
      PROVE  \A f \in Flushers : f \in Threads \ {p}
      BY <1>0
<1>f. ASSUME NEW f \in Flushers
      PROVE  (\A p \in Passes : p \in Threads \ {f}) /\ (\A g \in Flushers \ {f} : g \in Threads \ {f})
      BY <1>0
\* A file that was not yet written is nowhere.
<1>2. ASSUME NEW m \in Names, Drive(m) PROVE InOnePlace(n)'
  <2>1. /\ device' = [device EXCEPT ![m] = @ + 1]
        /\ UNCHANGED <<synced, queue, copies, pc, todo, fresh, crashes>>
        BY <1>2 DEF Drive, threadVars
  <2>2. CASE m # n
    <3>1. InOnePlace(n)
          BY <1>0, <1>a, <2>1, <2>2
    <3> QED BY <2>1, <3>1 DEF InOnePlace, InHand, Current
  <2>3. CASE m = n
    <3>1. device[n] = 0
          BY <1>0, <2>1, <2>3
    <3>2. \A e : Written(e) => e.name # n
          BY <3>1 DEF Written
    <3>3. synced[n] = 0
          BY <1>0, <3>1 DEF IInv, Sizes
    <3>4. \A t \in Threads : n \notin NamesIn(todo[t]) /\ n \notin NamesIn(fresh[t])
          BY <3>2, NamesOfEntries DEF IInv, Sizes, OnDisk
    <3>5. n \notin NamesIn(queue)
          BY <3>2, NamesOfEntries DEF IInv, Sizes, OnDisk
    <3>6. copies[LastOf(n)] = 0
      <4>1. 1 \in Versions /\ Parts[n] \in 1..Parts[n] /\ 1 > device[n]
            BY <3>1, ConstantsOK DEF Versions
      <4> QED BY <4>1 DEF IInv, Loaded, LastOf
    <3>7. ~InHand(n)
          BY <1>0, <3>4 DEF InHand
    <3>8. \A p \in Passes : Single(fresh[p], n) /\ Single(todo[p], n)
          BY <1>0, <3>4 DEF Single, NamesIn
    <3> QED BY <2>1, <3>3, <3>5, <3>6, <3>7, <3>8 DEF InOnePlace, InHand, Current, LastOf
  <2> QED BY <2>2, <2>3
<1>3. CASE Midnight \/ ChoosePeriod \/ Toggle \/ UNCHANGED vars
  <2>1. UNCHANGED <<device, synced, queue, copies, pc, todo, fresh, crashes>>
        BY <1>3 DEF Midnight, ChoosePeriod, Toggle, threadVars, vars
  <2> QED BY <1>a, <2>1 DEF InOnePlace, InHand, Current
<1>4. CASE Crash
      BY <1>0, <1>4 DEF Crash
<1> USE DEF Uploading
<1>5. ASSUME NEW p \in Passes, StartSync(p) PROVE InOnePlace(n)'
  <2>1. /\ UNCHANGED <<device, synced, queue, copies, fresh, crashes>> /\ Goto(p, "check")
        /\ \A u \in Threads \ {p} : todo'[u] = todo[u]
        BY <1>0, <1>5 DEF StartSync
  <2>2. InOnePlace(n)
        BY <1>a, <2>1
  <2>3. n \in NamesIn(fresh[p]) => InHand(n)
        BY DEF InHand
  <2>4. Single(fresh[p], n)
        BY <2>2 DEF InOnePlace
  <2>5. pc'[p] = "check" /\ \A f \in Flushers : pc'[f] = pc[f] /\ todo'[f] = todo[f]
        BY <1>0, <1>b, <1>e, <2>1
  <2> QED BY <2>1, <2>2, <2>3, <2>4, <2>5, PassKeepsPlace
<1>6. ASSUME NEW p \in Passes, Check(p) \/ Fetch(p) PROVE InOnePlace(n)'
  <2>1. /\ UNCHANGED <<device, synced, queue, copies, fresh, crashes>>
        /\ UNCHANGED todo \/ todo' = [todo EXCEPT ![p] = Tail(@)]
        BY <1>6 DEF Check, Fetch, NextEntry
  <2>2. PICK l \in {"check", "fetch", "record"} : Goto(p, l)
        BY <1>6 DEF Check, Fetch, NextEntry
  <2>3. InOnePlace(n)
        BY <1>a, <2>1
  <2>4. ASSUME l \in {"fetch", "record"}, Head(todo'[p]).name = n PROVE synced[n] = 0
    <3>1. CASE Check(p)
      <4>1. UNCHANGED todo /\ todo[p] # <<>> /\ synced[Current(p).name] # Current(p).size
        <5>1. todo[p] # <<>>
              BY <3>1 DEF Check
        <5>2. CASE synced[Current(p).name] = Current(p).size
          <6>1. Goto(p, "check")
                BY <3>1, <5>2 DEF Check, NextEntry
          <6> QED BY <1>0, <1>b, <2>2, <2>4, <6>1
        <5> QED BY <3>1, <5>1, <5>2 DEF Check
      <4>2. Current(p).name = n /\ Current(p) \in Entries(todo[p])
            BY <1>0, <2>4, <4>1, CurrentEntry DEF IInv, Shape, Current
      <4>3. Current(p).size \in 1..1 /\ synced[n] <= 1 /\ synced[n] \in Nat
        <5>1. Written(Current(p)) /\ synced[n] <= device[n]
              BY <1>0, <4>2 DEF IInv, Sizes
        <5> QED BY <1>0, <2>1, <4>2, <5>1 DEF Written
      <4> QED BY <4>1, <4>2, <4>3
    <3>2. CASE Fetch(p)
      <4>1. pc[p] = "fetch" /\ UNCHANGED todo
            BY <3>2 DEF Fetch
      <4> QED BY <2>3, <2>4, <4>1 DEF InOnePlace, Current
    <3> QED BY <1>6, <3>1, <3>2
  <2>5. n \in NamesIn(fresh[p]) => InHand(n)
        BY DEF InHand
  <2>6. Single(fresh[p], n)
        BY <2>3 DEF InOnePlace
  <2>7. pc'[p] = l /\ \A f \in Flushers : pc'[f] = pc[f] /\ todo'[f] = todo[f]
        BY <1>0, <1>b, <1>c, <1>e, <2>1, <2>2
  <2> QED BY <2>1, <2>2, <2>3, <2>4, <2>5, <2>6, <2>7, PassKeepsPlace
<1>7. ASSUME NEW p \in Passes, FetchFails(p) PROVE InOnePlace(n)'
  <2> DEFINE c == Current(p).name
  <2>1. /\ UNCHANGED <<device, queue, copies, fresh, crashes>> /\ pc[p] = "fetch"
        /\ Goto(p, "check") /\ todo' = [todo EXCEPT ![p] = Tail(@)]
        /\ synced' = [synced EXCEPT ![c] = 0]
        BY <1>7 DEF FetchFails, RecordAttempt, NextEntry
  <2>2. InOnePlace(n)
        BY <1>a, <2>1
  <2>3. c = n => synced[n] = 0
        BY <2>1, <2>2 DEF InOnePlace
  <2> HIDE DEF c
  <2>4. synced'[n] = synced[n]
        BY <1>0, <2>1, <2>3
  <2>5. n \in NamesIn(fresh[p]) => InHand(n)
        BY DEF InHand
  <2>6. Single(fresh[p], n)
        BY <2>2 DEF InOnePlace
  <2>7. pc'[p] = "check" /\ \A f \in Flushers : pc'[f] = pc[f] /\ todo'[f] = todo[f]
        BY <1>0, <1>b, <1>c, <1>e, <2>1
  <2> QED BY <2>1, <2>2, <2>4, <2>5, <2>6, <2>7, PassKeepsPlace
<1>8. ASSUME NEW p \in Passes, Record(p) PROVE InOnePlace(n)'
  <2> DEFINE c == Current(p)
  <2>1. /\ UNCHANGED <<device, queue, copies, crashes>> /\ pc[p] = "record" /\ todo[p] # <<>>
        /\ Goto(p, "check") /\ todo' = [todo EXCEPT ![p] = Tail(@)]
        /\ synced' = [synced EXCEPT ![c.name] = c.size]
        /\ fresh' = [fresh EXCEPT ![p] = Append(@, c)]
        BY <1>0, <1>8 DEF Record, RecordAttempt, NextEntry, IInv, Shape, Busy
  <2>2. InOnePlace(n)
        BY <1>a, <2>1
  <2>3. c \in Entry /\ c \in Entries(todo[p])
        BY <1>0, <2>1, CurrentEntry DEF IInv, Shape
  <2>4. c.name = n => synced[n] = 0
        BY <2>1, <2>2 DEF InOnePlace
  <2>5. c.name = n => c.size = 1
    <3>1. c.size \in 1..device[c.name]
          BY <1>0, <2>3 DEF IInv, Sizes, Written
    <3>2. device[n] = 1
          BY <2>1
    <3> HIDE DEF c
    <3> QED BY <3>1, <3>2
  <2> HIDE DEF c
  <2>6. n \in NamesIn(fresh[p]) => InHand(n)
        BY DEF InHand
  <2>7. c.name = n => n \notin NamesIn(fresh[p])
        BY <2>2, <2>4, <2>6 DEF InOnePlace
  <2>8. NamesIn(fresh'[p]) = NamesIn(fresh[p]) \cup {c.name} /\ Single(fresh'[p], n)
        BY <1>0, <2>1, <2>2, <2>3, <2>7, AppendToList DEF InOnePlace
  <2>9. pc'[p] = "check" /\ \A f \in Flushers : pc'[f] = pc[f] /\ todo'[f] = todo[f]
        BY <1>0, <1>b, <1>c, <1>e, <2>1
  <2>10. CASE c.name # n
    <3>1. synced'[n] = synced[n] /\ (n \in NamesIn(fresh'[p]) => InHand(n))
          BY <1>0, <2>1, <2>6, <2>8, <2>10
    <3> QED BY <2>1, <2>2, <2>8, <2>9, <3>1, PassKeepsPlace
  <2>11. CASE c.name = n
    <3>1. synced'[n] = 1 /\ synced[n] = 0
          BY <1>0, <2>1, <2>4, <2>5, <2>11
    <3>2. copies'[LastOf(n)] = 0 /\ n \notin NamesIn(queue')
          BY <2>1, <2>2, <3>1 DEF InOnePlace
    <3>3. \A q \in Passes : q = p
          BY DEF OnePass
    <3> QED BY <2>8, <2>9, <3>1, <3>2, <3>3 DEF InOnePlace, LastOf
  <2> QED BY <2>10, <2>11
<1>9. ASSUME NEW p \in Passes, Probe(p) PROVE InOnePlace(n)'
  <2>1. /\ UNCHANGED <<device, synced, queue, copies, crashes>> /\ pc[p] = "check"
        /\ todo' = [todo EXCEPT ![p] = fresh[p]] /\ fresh' = [fresh EXCEPT ![p] = <<>>]
        BY <1>9 DEF Probe
  <2>2. PICK l \in {"idle", "load", "park"} : Goto(p, l)
        BY <1>9 DEF Probe
  <2>3. InOnePlace(n)
        BY <1>a, <2>1
  <2>4. /\ todo'[p] = fresh[p] /\ fresh'[p] = <<>>
        /\ \A u \in Threads \ {p} : todo'[u] = todo[u]
        BY <1>0, <2>1
  <2>5. n \in NamesIn(fresh[p]) => InHand(n)
        BY DEF InHand
  <2>6. Single(fresh[p], n)
        BY <2>3 DEF InOnePlace
  <2>7. pc'[p] = l /\ \A f \in Flushers : pc'[f] = pc[f] /\ todo'[f] = todo[f]
        BY <1>0, <1>b, <1>e, <2>2, <2>4
  <2> QED BY <2>1, <2>3, <2>4, <2>5, <2>6, <2>7, EmptyList, PassKeepsPlace
<1>10. ASSUME NEW p \in Passes, Park(p) \/ Requeue(p) PROVE InOnePlace(n)'
  <2> DEFINE c == Current(p).name
  <2>1. /\ UNCHANGED <<device, synced, copies, fresh, crashes>> /\ pc[p] \in {"park", "requeue"}
        /\ todo[p] # <<>> /\ fresh[p] = <<>> /\ todo' = [todo EXCEPT ![p] = Tail(@)]
        BY <1>0, <1>10 DEF Park, Requeue, NextEntry, IInv, Shape, Busy
  <2>2. PICK l : l \notin {"fetch", "record", "remove"} /\ Goto(p, l)
        BY <1>10 DEF Park, Requeue, NextEntry
  <2>3. InOnePlace(n)
        BY <1>a, <2>1
  <2>4. NamesIn(queue') = NamesIn(queue) \cup {c}
        BY <1>0, <1>10, <2>1, AddedRow, CurrentEntry DEF Park, Requeue, IInv, Shape
  <2>5. Single(todo[p], n)
        BY <2>1, <2>3 DEF InOnePlace
  <2>6. pc'[p] = l /\ \A f \in Flushers : pc'[f] = pc[f] /\ todo'[f] = todo[f]
        BY <1>0, <1>b, <1>c, <1>e, <2>1, <2>2
  <2>7. /\ NamesIn(todo[p]) = NamesIn(todo'[p]) \cup {c} /\ Single(todo'[p], n)
        /\ c = n => n \notin NamesIn(todo'[p])
        BY <1>0, <1>d, <2>1, <2>5
  <2>8. n \in NamesIn(todo[p]) => InHand(n)
        BY <2>1 DEF InHand
  <2> HIDE DEF c
  <2>9. CASE c # n
        BY <2>1, <2>2, <2>3, <2>4, <2>6, <2>7, <2>8, <2>9, EmptyList, PassKeepsPlace
  <2>10. CASE c = n
    <3>1. copies[LastOf(n)] = 0 /\ synced[n] # 0
          BY <2>3, <2>7, <2>8, <2>10 DEF InOnePlace
    <3>2. \A q \in Passes : q = p
          BY DEF OnePass
    <3>3. ~InHand(n)'
          BY <2>1, <2>7, <2>10, <3>2, EmptyList DEF InHand
    <3>4. Single(fresh'[p], n)
          BY <2>1, EmptyList
    <3> QED BY <2>1, <2>2, <2>6, <2>7, <3>1, <3>2, <3>3, <3>4 DEF InOnePlace, LastOf
  <2> QED BY <2>9, <2>10
<1>11. ASSUME NEW p \in Passes, Load(p) \/ LoadFails(p) \/ SaveFails(p) \/ Finish(p)
       PROVE  InOnePlace(n)'
  <2>1. /\ UNCHANGED <<device, synced, queue, copies, fresh, todo, crashes>>
        /\ pc[p] \in {"load", "save"}
        BY <1>11 DEF Load, LoadFails, SaveFails, Finish, GiveUp
  <2>2. PICK l \in {"save", "requeue", "idle"} : Goto(p, l)
        BY <1>11 DEF Load, LoadFails, SaveFails, Finish, GiveUp
  <2>3. InOnePlace(n)
        BY <1>a, <2>1
  <2>4. Single(todo[p], n) /\ Single(fresh[p], n)
        BY <2>1, <2>3 DEF InOnePlace
  <2>5. n \in NamesIn(fresh[p]) \cup NamesIn(todo[p]) => InHand(n)
        BY <2>1 DEF InHand
  <2>6. pc'[p] = l /\ \A f \in Flushers : pc'[f] = pc[f] /\ todo'[f] = todo[f]
        BY <1>0, <1>b, <1>e, <2>1, <2>2
  <2> QED BY <2>1, <2>2, <2>3, <2>4, <2>5, <2>6, PassKeepsPlace
\* What Save adds to the last session of n.
<1>s. ASSUME NEW t \in Threads, Save(t), device[n] = 1, crashes = 0
      PROVE  \/ copies'[LastOf(n)] = copies[LastOf(n)]
             \/ /\ Current(t).name = n /\ part[t] = Parts[n]
                /\ copies[LastOf(n)] = 0 => copies'[LastOf(n)] = 1
  <2> DEFINE i == <<Current(t).name, ver[t], part[t]>>
  <2>1. copies' = [copies EXCEPT ![i] = IF @ = 2 THEN 2 ELSE @ + 1]
        BY <1>s DEF Save
  <2>2. i = LastOf(n) => Current(t).name = n /\ part[t] = Parts[n]
        BY DEF LastOf
  <2> HIDE DEF i
  <2>3. copies'[LastOf(n)] = IF i = LastOf(n) THEN IF copies[LastOf(n)] = 2 THEN 2 ELSE copies[LastOf(n)] + 1
                                            ELSE copies[LastOf(n)]
        BY <1>0, <1>1, <2>1
  <2> QED BY <2>2, <2>3
<1>12. ASSUME NEW p \in Passes, Save(p) PROVE InOnePlace(n)'
  <2>1. /\ UNCHANGED <<device, synced, queue, fresh, crashes>> /\ pc[p] = "save" /\ todo[p] # <<>>
        BY <1>0, <1>12 DEF Save, IInv, Shape, Busy
  <2>2. \/ UNCHANGED <<pc, todo>> /\ part[p] < Parts[Current(p).name]
        \/ Goto(p, "load") /\ todo' = [todo EXCEPT ![p] = Tail(@)]
        BY <1>12 DEF Save, NextEntry
  <2>3. InOnePlace(n)
        BY <1>a, <2>1
  <2>4. Single(todo[p], n) /\ Single(fresh[p], n)
        BY <2>1, <2>3 DEF InOnePlace
  <2>5. n \in NamesIn(fresh[p]) \cup NamesIn(todo[p]) => InHand(n)
        BY <2>1 DEF InHand
  <2>6. \A f \in Flushers : pc'[f] = pc[f] /\ todo'[f] = todo[f]
        BY <1>0, <1>b, <1>c, <1>e, <2>2
  <2>7. /\ pc'[p] \in {"save", "load"} /\ NamesIn(todo'[p]) \subseteq NamesIn(todo[p])
        /\ Single(todo'[p], n)
        BY <1>0, <1>b, <1>d, <2>1, <2>2, <2>4
  <2>8. CASE copies'[LastOf(n)] = copies[LastOf(n)]
        BY <2>1, <2>3, <2>4, <2>5, <2>6, <2>7, <2>8, PassKeepsPlace
  <2>9. CASE copies'[LastOf(n)] # copies[LastOf(n)]
    <3>1. /\ Current(p).name = n /\ part[p] = Parts[n]
          /\ copies[LastOf(n)] = 0 => copies'[LastOf(n)] = 1
          BY <1>0, <1>12, <1>s, <2>1, <2>9
    <3>2. n \in NamesIn(todo[p])
          BY <1>0, <2>1, <3>1, CurrentEntry DEF IInv, Shape
    <3>3. copies'[LastOf(n)] = 1 /\ n \notin NamesIn(queue) /\ synced[n] # 0
          BY <2>3, <2>5, <3>1, <3>2 DEF InOnePlace
    <3>4. pc'[p] = "load" /\ n \notin NamesIn(todo'[p])
      <4>1. Parts[n] \in Nat
            BY ConstantsOK
      <4>2. Goto(p, "load") /\ todo' = [todo EXCEPT ![p] = Tail(@)]
            BY <2>2, <3>1, <4>1
      <4> QED BY <1>0, <1>b, <1>d, <2>1, <2>4, <3>1, <4>2
    <3>5. \A q \in Passes : q = p
          BY DEF OnePass
    <3>6. fresh[p] = <<>>
          BY <2>1 DEF IInv, Shape, Busy
    <3>7. ~InHand(n)'
          BY <2>1, <3>4, <3>5, <3>6, EmptyList DEF InHand
    <3> QED BY <2>1, <2>4, <2>7, <3>3, <3>4, <3>5, <3>7 DEF InOnePlace, LastOf
  <2> QED BY <2>8, <2>9
<1>13. ASSUME NEW f \in Flushers,
              StartFlush(f) \/ List(f) \/ Load(f) \/ LoadFails(f) \/ SaveFails(f) \/ Finish(f)
       PROVE  InOnePlace(n)'
  <2>1. UNCHANGED <<device, synced, queue, copies, fresh, crashes>> /\ pc[f] # "remove"
        BY <1>13 DEF StartFlush, List, Load, LoadFails, SaveFails, Finish
  <2>2. PICK l : Goto(f, l)
        BY <1>13 DEF StartFlush, List, Load, LoadFails, SaveFails, Finish, GiveUp, NextEntry
  <2>3. \A u \in Threads \ {f} : todo'[u] = todo[u]
        BY <1>0, <1>13 DEF StartFlush, List, Load, LoadFails, SaveFails, Finish, GiveUp, NextEntry
  <2>4. InOnePlace(n)
        BY <1>a, <2>1
  <2>5. /\ \A p \in Passes : pc'[p] = pc[p] /\ todo'[p] = todo[p]
        /\ \A g \in Flushers \ {f} : pc'[g] = pc[g] /\ todo'[g] = todo[g]
        BY <1>0, <1>b, <1>f, <2>2, <2>3
  <2> QED BY <2>1, <2>4, <2>5, FlushKeepsPlace
<1>14. ASSUME NEW f \in Flushers, Remove(f) PROVE InOnePlace(n)'
  <2>1. /\ UNCHANGED <<device, synced, copies, fresh, crashes>> /\ Goto(f, "load")
        /\ todo' = [todo EXCEPT ![f] = Tail(@)] /\ queue' = Without(queue, Current(f).name)
        BY <1>14 DEF Remove, NextEntry
  <2>2. NamesIn(queue') = NamesIn(queue) \ {Current(f).name}
        BY <1>0, <2>1, WithoutRow DEF IInv, Shape, OneRowEach
  <2>3. InOnePlace(n)
        BY <1>a, <2>1
  <2>4. \A u \in Threads \ {f} : pc'[u] = pc[u] /\ todo'[u] = todo[u]
        BY <1>0, <1>b, <1>c, <2>1
  <2>5. /\ \A p \in Passes : pc'[p] = pc[p] /\ todo'[p] = todo[p]
        /\ \A g \in Flushers \ {f} : pc'[g] = pc[g] /\ todo'[g] = todo[g]
        BY <1>f, <2>4
  <2> QED BY <2>1, <2>2, <2>3, <2>5, FlushKeepsPlace
<1>15. ASSUME NEW f \in Flushers, Save(f) PROVE InOnePlace(n)'
  <2>1. /\ UNCHANGED <<device, synced, queue, fresh, crashes>> /\ pc[f] = "save" /\ todo[f] # <<>>
        BY <1>0, <1>15 DEF Save, IInv, Shape, Busy
  <2>2. /\ UNCHANGED todo
        /\ \/ UNCHANGED pc /\ part[f] < Parts[Current(f).name]
           \/ Goto(f, "remove")
        BY <1>0, <1>15 DEF Save
  <2>3. InOnePlace(n)
        BY <1>a, <2>1
  <2>4. \A u \in Threads \ {f} : pc'[u] = pc[u]
        BY <1>0, <1>b, <2>2
  <2>5. CASE copies'[LastOf(n)] = copies[LastOf(n)]
        BY <1>f, <2>1, <2>2, <2>3, <2>4, <2>5, FlushKeepsPlace
  <2>6. CASE copies'[LastOf(n)] # copies[LastOf(n)]
    <3>1. /\ Current(f).name = n /\ part[f] = Parts[n]
          /\ copies[LastOf(n)] = 0 => copies'[LastOf(n)] = 1
          BY <1>0, <1>15, <1>s, <2>1, <2>6
    <3>2. n \in NamesIn(queue)
          BY <1>0, <2>1, <3>1, CurrentEntry DEF IInv, Shape, Holder
    <3>3. copies[LastOf(n)] = 0
      <4> SUFFICES ASSUME copies[LastOf(n)] # 0 PROVE FALSE
          OBVIOUS
      <4>1. PICK g \in Flushers : pc[g] = "remove"
            BY <2>3, <3>2 DEF InOnePlace
      <4>2. lock = g /\ lock = f
            BY <2>1, <4>1 DEF IInv, Holder
      <4> QED BY <2>1, <4>1, <4>2
    <3>4. ~InHand(n) /\ synced[n] # 0
          BY <2>3, <3>2 DEF InOnePlace
    <3>5. pc'[f] = "remove" /\ Current(f)'.name = n
      <4>1. Parts[n] \in Nat
            BY ConstantsOK
      <4>2. Goto(f, "remove")
            BY <2>2, <3>1, <4>1
      <4> QED BY <1>0, <1>b, <2>2, <3>1, <4>2 DEF Current
    <3>6. \A p \in Passes : pc'[p] = pc[p]
          BY <1>f, <2>4
    <3>7. ~InHand(n)'
          BY <2>1, <2>2, <3>4, <3>6 DEF InHand
    <3> QED BY <2>1, <2>2, <2>3, <3>1, <3>3, <3>4, <3>5, <3>6, <3>7 DEF InOnePlace, LastOf, Current
  <2> QED BY <2>5, <2>6
<1> QED
  BY <1>0, <1>2, <1>3, <1>4, <1>5, <1>6, <1>7, <1>8, <1>9, <1>10, <1>11, <1>12, <1>13, <1>14, <1>15
     DEF Next, Sync, Flush, Ingest

\* With one pass at a time, a file that was uploaded to its last session is
\* not uploaded again, by the pass or by any of the flushes.
THEOREM NothingUploadedTwice == OnePass /\ Spec => []NoDoubleUpload
<1> SUFFICES ASSUME OnePass PROVE Spec => []NoDoubleUpload
    OBVIOUS
<1>1. Init => Once
      BY DEF Init, Once
<1>2. Once => NoDoubleUpload
      BY DEF Once, NoDoubleUpload, InOnePlace, LastOf
<1>3. IInv /\ Once /\ [Next]_vars => Once'
      BY NextOnce
<1> QED BY <1>1, <1>2, <1>3, Invariance, PTL DEF Spec

=============================================================================
