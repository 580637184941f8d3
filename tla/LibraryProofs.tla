---------------------------- MODULE LibraryProofs ----------------------------
(***************************************************************************)
(* Proofs about Library, for any number of sessions, jobs and runs of the  *)
(* backfill in any mode: types, that raw telemetry stays readable as long  *)
(* as uploads are stored as they are, that no job writes over a name, and  *)
(* that inferred names are right where circuits lie apart.                 *)
(***************************************************************************)
EXTENDS Library, TLAPS

Batches == {BatchOf[s] : s \in Sessions} \cup {NoBatch}
Typed   == UNION {NamesAt[s] : s \in Sessions}
Names   == Typed \cup {Null, Blank}
Places  == {"idle", "link", "read_name", "write_name", "analyse", "next", "load", "archive",
            "record", "clear"}
RowT == [at : {"none", "stored", "deleted"}, gps : BOOLEAN, batch : Batches, track : Names,
         blob : BOOLEAN, path : BOOLEAN, analysed : {"no", "old", "current"}]
JobT == [kind : {"idle", "ingest", "backfill"}, at : Places, s : Sessions \cup {0}, name : Names,
         mode : SUBSET {"analyze", "archive", "clear"}, meta : [Sessions -> Meta],
         todo : SUBSET Sessions]

\* What a job knows of where raw data is is no better than the rows have it, but
\* for sessions deleted meanwhile; it works on sessions that have been saved.
GoodJob(x, rw, ar) ==
    /\ x \in JobT
    /\ x.at \notin {"idle", "next"} => x.s \in Sessions /\ rw[x.s].at # "none"
    /\ x.at = "link" => BatchOf[x.s] # NoBatch
    /\ x.at = "record" => x.s \in ar
    /\ \A s \in x.todo : rw[s].at # "none"
    /\ \A s \in Sessions : rw[s].at # "deleted" =>
          /\ x.meta[s].batch # NoBatch => rw[s].batch # NoBatch
          /\ x.meta[s].path => rw[s].path

\* Every session has its raw data somewhere; one not saved yet has no name.
GoodRow(y, s, ar) ==
    /\ y \in RowT
    /\ y.path => s \in ar
    /\ y.at = "stored" => y.blob \/ y.path \/ y.batch # NoBatch
    /\ y.at = "none" => y.track = Null

IInv ==
    /\ row = [s \in Sessions |-> row[s]] /\ job = [j \in Jobs |-> job[j]]
    /\ \A s \in Sessions : GoodRow(row[s], s, archive)
    /\ \A j \in Jobs : GoodJob(job[j], row, archive)

\* How one row may follow another: a saved session is never unsaved, and what is
\* recorded of its raw data stays while it is there.
Follows(y, z) ==
    /\ y.at # "none" => z.at # "none"
    /\ z.at # "deleted" => /\ y.at # "deleted"
                           /\ y.batch # NoBatch => z.batch # NoBatch
                           /\ y.path => z.path

LEMMA NoMetaType == NoMeta \in Meta
BY DEF NoMeta, Meta

LEMMA IdleType == Idle \in JobT
<1>1. [s \in Sessions |-> NoMeta] \in [Sessions -> Meta]
      BY NoMetaType
<1>2. Null \in Names
      BY DEF Names
<1> QED BY <1>1, <1>2 DEF Idle, JobT, Places

LEMMA NoRowType == ASSUME NEW at \in {"none", "stored", "deleted"} PROVE NoRow(at) \in RowT
<1>1. NoBatch \in Batches
      BY Zenon DEF Batches
<1>2. Null \in Names
      BY DEF Names
<1> QED BY <1>1, <1>2 DEF NoRow, RowT

\* A job that rests is good whatever the rows are.
LEMMA GoodIdle == ASSUME NEW rw, NEW ar PROVE GoodJob(Idle, rw, ar)
<1>1. Idle.at = "idle" /\ Idle.todo = {} /\ \A s \in Sessions : Idle.meta[s] = NoMeta
      BY DEF Idle
<1> QED BY <1>1, IdleType DEF GoodJob, NoMeta

LEMMA InitIInv == Init => IInv
<1> SUFFICES ASSUME Init PROVE IInv
    OBVIOUS
<1>1. ASSUME NEW s \in Sessions PROVE GoodRow(row[s], s, archive)
  <2>1. row[s] = NoRow("none")
        BY DEF Init
  <2> QED BY <2>1, NoRowType DEF GoodRow, NoRow
<1>2. \A j \in Jobs : GoodJob(job[j], row, archive)
      BY GoodIdle DEF Init
<1>3. row = [s \in Sessions |-> row[s]] /\ job = [j \in Jobs |-> job[j]]
      BY DEF Init
<1> QED BY <1>1, <1>2, <1>3 DEF IInv

-----------------------------------------------------------------------------
(* What a step has to show *)

\* A job stays good while rows follow each other and the archive grows.
LEMMA GoodStays ==
    ASSUME NEW x, NEW rw, NEW ar, NEW rw2, NEW ar2, GoodJob(x, rw, ar), ar \subseteq ar2,
           \A s \in Sessions : Follows(rw[s], rw2[s])
    PROVE  GoodJob(x, rw2, ar2)
<1>1. x.todo \subseteq Sessions
      BY DEF GoodJob, JobT
<1> QED BY <1>1 DEF GoodJob, Follows

\* Where the rows stay: one job's change.
LEMMA JobStep ==
    ASSUME IInv, NEW j \in Jobs, NEW y, job' = [job EXCEPT ![j] = y], UNCHANGED row,
           archive \subseteq archive', GoodJob(y, row, archive')
    PROVE  IInv'
<1>1. \A s \in Sessions : Follows(row[s], row[s])
      BY DEF Follows
<1>2. \A i \in Jobs : GoodJob(job[i], row, archive')
      BY <1>1, GoodStays DEF IInv
<1>3. \A i \in Jobs : job'[i] = IF i = j THEN y ELSE job[i]
      BY DEF IInv
<1>4. \A i \in Jobs : GoodJob(job'[i], row', archive')
      BY <1>2, <1>3
<1>5. \A s \in Sessions : GoodRow(row'[s], s, archive')
      BY DEF IInv, GoodRow
<1>6. row' = [s \in Sessions |-> row'[s]] /\ job' = [i \in Jobs |-> job'[i]]
      BY DEF IInv
<1> QED BY <1>4, <1>5, <1>6 DEF IInv

\* One row's change, and possibly one job's.
LEMMA RowStep ==
    ASSUME IInv, NEW s \in Sessions, NEW z, row' = [row EXCEPT ![s] = z], UNCHANGED archive,
           GoodRow(z, s, archive), Follows(row[s], z),
           \/ UNCHANGED job
           \/ \E j \in Jobs : \E y : job' = [job EXCEPT ![j] = y] /\ GoodJob(y, row', archive)
    PROVE  IInv'
<1>1. \A r \in Sessions : row'[r] = IF r = s THEN z ELSE row[r]
      BY DEF IInv
<1>2. \A r \in Sessions : Follows(row[r], row'[r])
      BY <1>1 DEF Follows
<1>3. \A i \in Jobs : GoodJob(job[i], row', archive)
      BY <1>2, GoodStays DEF IInv
<1>4. \A i \in Jobs : GoodJob(job'[i], row', archive')
  <2>1. CASE UNCHANGED job
        BY <1>3, <2>1
  <2>2. CASE \E j \in Jobs : \E y : job' = [job EXCEPT ![j] = y] /\ GoodJob(y, row', archive)
    <3>1. PICK j \in Jobs : \E y : job' = [job EXCEPT ![j] = y] /\ GoodJob(y, row', archive)
          BY <2>2
    <3>2. PICK y : job' = [job EXCEPT ![j] = y] /\ GoodJob(y, row', archive)
          BY <3>1
    <3>3. \A i \in Jobs : job'[i] = IF i = j THEN y ELSE job[i]
          BY <3>2 DEF IInv
    <3> QED BY <1>3, <3>2, <3>3
  <2> QED BY <2>1, <2>2
<1>5. \A r \in Sessions : GoodRow(row'[r], r, archive')
      BY <1>1 DEF IInv
<1>6. row' = [r \in Sessions |-> row'[r]] /\ job' = [i \in Jobs |-> job'[i]]
      BY DEF IInv
<1> QED BY <1>4, <1>5, <1>6 DEF IInv

\* A step that only moves a job on.
LEMMA Moves ==
    ASSUME IInv, NEW j \in Jobs, NEW at \in Places, Goto(j, at), NEW rw, NEW ar,
           \A s \in Sessions : Follows(row[s], rw[s]), archive \subseteq ar,
           at \notin {"idle", "next"} => job[j].at \notin {"idle", "next"},
           at # "link", at = "record" => job[j].s \in ar
    PROVE  \E y : job' = [job EXCEPT ![j] = y] /\ GoodJob(y, rw, ar)
<1> DEFINE y == [job[j] EXCEPT !.at = at]
<1>1. GoodJob(job[j], rw, ar)
      BY GoodStays DEF IInv
<1>2. y \in JobT /\ y.at = at /\ y.s = job[j].s /\ y.meta = job[j].meta /\ y.todo = job[j].todo
      BY <1>1 DEF GoodJob, JobT
<1>3. GoodJob(y, rw, ar)
  <2> HIDE DEF y
  <2> QED BY <1>1, <1>2 DEF GoodJob
<1>4. job' = [job EXCEPT ![j] = y]
      BY DEF Goto
<1> QED BY <1>3, <1>4

LEMMA MovesOnly ==
    ASSUME IInv, NEW j \in Jobs, NEW at \in Places, Goto(j, at), UNCHANGED row,
           archive \subseteq archive',
           at \notin {"idle", "next"} => job[j].at \notin {"idle", "next"},
           at # "link", at = "record" => job[j].s \in archive'
    PROVE  IInv'
<1>1. \A s \in Sessions : Follows(row[s], row[s])
      BY DEF Follows
<1>2. PICK y : job' = [job EXCEPT ![j] = y] /\ GoodJob(y, row, archive')
      BY <1>1, Moves
<1> QED BY <1>2, JobStep

-----------------------------------------------------------------------------
(* The actions *)

\* Over is a return to rest.
LEMMA OverKeeps ==
    ASSUME IInv, NEW j \in Jobs, Over(j), UNCHANGED <<row, archive>> PROVE IInv'
<1>1. GoodJob(Idle, row, archive')
      BY GoodIdle
<1> QED BY <1>1, JobStep DEF Over

LEMMA SaveKeeps ==
    ASSUME IInv, NEW j \in Jobs, NEW s \in Sessions, NEW track \in NamesAt[s] \cup {Null},
           NEW gps \in GpsOf[s], Save(j, s, track, gps)
    PROVE  IInv'
<1> DEFINE z == [row[s] EXCEPT !.at = "stored", !.track = track, !.gps = gps, !.blob = TRUE]
<1> DEFINE at == IF BatchOf[s] = NoBatch THEN "read_name" ELSE "link"
<1> DEFINE y == [Idle EXCEPT !.kind = "ingest", !.s = s, !.at = at]
<1>1. GoodRow(row[s], s, archive) /\ row[s] \in RowT /\ row[s].at = "none"
      BY DEF IInv, GoodRow, Save
<1>2. gps \in BOOLEAN
      BY LibraryConstantsOK DEF LibraryConstantsOK
<1>3. track \in Names
      BY DEF Names, Typed
<1>4. /\ z \in RowT /\ z.at = "stored" /\ z.blob
      /\ z.path = row[s].path /\ z.batch = row[s].batch
      BY <1>1, <1>2, <1>3 DEF RowT
<1>5. row' = [row EXCEPT ![s] = z] /\ job' = [job EXCEPT ![j] = y] /\ UNCHANGED archive
      BY DEF Save
<1>6. at \in {"read_name", "link"} /\ (at = "link" => BatchOf[s] # NoBatch)
      OBVIOUS
<1> HIDE DEF z, at
<1>7. GoodRow(z, s, archive) /\ Follows(row[s], z)
      BY <1>1, <1>4 DEF GoodRow, Follows
<1>8. row'[s] = z
      BY <1>5 DEF IInv
<1>9. Idle \in JobT /\ Idle.todo = {} /\ \A r \in Sessions : Idle.meta[r] = NoMeta
      BY IdleType DEF Idle
<1>10. /\ y \in JobT /\ y.s = s /\ y.at = at /\ y.todo = {}
       /\ \A r \in Sessions : y.meta[r] = NoMeta
      BY <1>6, <1>9 DEF JobT, Places
<1> HIDE DEF y
<1>11. GoodJob(y, row', archive)
      BY <1>4, <1>6, <1>8, <1>10 DEF GoodJob, NoMeta
<1> QED BY <1>5, <1>7, <1>11, RowStep

\* What a job at a session knows: the session has been saved.
LEMMA AtSession ==
    ASSUME IInv, NEW j \in Jobs, job[j].at \notin {"idle", "next"}
    PROVE  job[j].s \in Sessions /\ row[job[j].s].at # "none" /\ row[job[j].s] \in RowT
BY DEF IInv, GoodJob, GoodRow

\* A job at a session changes its row, and goes on.
LEMMA RowMoves ==
    ASSUME IInv, NEW j \in Jobs, NEW at \in Places, Goto(j, at),
           NEW s \in Sessions, NEW z, row' = [row EXCEPT ![s] = z], UNCHANGED archive,
           GoodRow(z, s, archive), Follows(row[s], z),
           at \notin {"idle", "next"} => job[j].at \notin {"idle", "next"},
           at # "link", at # "record"
    PROVE  IInv'
<1>1. \A r \in Sessions : row'[r] = IF r = s THEN z ELSE row[r]
      BY DEF IInv
<1>2. \A r \in Sessions : Follows(row[r], row'[r])
      BY <1>1 DEF Follows
<1>3. PICK y : job' = [job EXCEPT ![j] = y] /\ GoodJob(y, row', archive)
      BY <1>2, Moves
<1> QED BY <1>3, RowStep

LEMMA LinkKeeps == ASSUME IInv, NEW j \in Jobs, Link(j) PROVE IInv'
<1> DEFINE s == job[j].s
<1> DEFINE b == IF Stored(s) THEN BatchOf[s] ELSE row[s].batch
<1> DEFINE z == [row[s] EXCEPT !.batch = b]
<1>1. s \in Sessions /\ row[s] \in RowT /\ GoodRow(row[s], s, archive) /\ BatchOf[s] # NoBatch
      BY AtSession DEF IInv, GoodJob, Link
<1>2. Goto(j, "read_name") /\ UNCHANGED archive /\ job[j].at = "link"
      BY DEF Link
<1>3. CASE UNCHANGED row
      BY <1>2, <1>3, MovesOnly DEF Places
<1>4. CASE row' = [row EXCEPT ![s] = z]
  <2>1. BatchOf[s] \in Batches
        BY <1>1 DEF Batches
  <2>2. b \in Batches /\ (row[s].batch # NoBatch => b # NoBatch)
        BY <1>1, <2>1 DEF RowT
  <2> HIDE DEF b
  <2>3. z = [row[s] EXCEPT !.batch = b] /\ z \in RowT /\ z.batch = b /\ z.at = row[s].at
        /\ z.track = row[s].track /\ z.blob = row[s].blob /\ z.path = row[s].path
        BY <1>1, <2>2 DEF RowT
  <2> HIDE DEF z
  <2>4. GoodRow(z, s, archive) /\ Follows(row[s], z)
        BY <1>1, <2>2, <2>3 DEF GoodRow, Follows
  <2> QED BY <1>1, <1>2, <1>4, <2>4, RowMoves DEF Places
<1>5. UNCHANGED row \/ row' = [row EXCEPT ![s] = z]
      BY DEF Link
<1> QED BY <1>3, <1>4, <1>5

LEMMA ReadNameKeeps == ASSUME IInv, NEW j \in Jobs, ReadName(j) PROVE IInv'
<1>1. job[j].at = "read_name" /\ UNCHANGED <<row, archive>>
      BY DEF ReadName
<1>2. CASE Goto(j, "analyse")
      BY <1>1, <1>2, MovesOnly DEF Places
<1>3. ASSUME NEW k \in Closest(job[j].s),
             job' = [job EXCEPT ![j].at = "write_name", ![j].name = row[k].track]
      PROVE  IInv'
  <2> DEFINE y == [job[j] EXCEPT !.at = "write_name", !.name = row[k].track]
  <2>1. k \in Sessions /\ row[k].track \in Names
        BY DEF Closest, Near, Known, IInv, GoodRow, RowT
  <2>2. GoodJob(job[j], row, archive)
        BY DEF IInv
  <2>3. /\ y \in JobT /\ y.at = "write_name" /\ y.s = job[j].s
        /\ y.meta = job[j].meta /\ y.todo = job[j].todo
        BY <2>1, <2>2 DEF GoodJob, JobT, Places
  <2>4. job' = [job EXCEPT ![j] = y]
        BY <1>3
  <2> HIDE DEF y
  <2>5. GoodJob(y, row, archive')
        BY <1>1, <2>2, <2>3 DEF GoodJob
  <2> QED BY <1>1, <2>4, <2>5, JobStep
<1> QED BY <1>2, <1>3 DEF ReadName

LEMMA WriteNameKeeps == ASSUME IInv, NEW j \in Jobs, WriteName(j) PROVE IInv'
<1> DEFINE s == job[j].s
<1> DEFINE name == IF Stored(s) /\ row[s].track = Null THEN job[j].name ELSE row[s].track
<1> DEFINE z == [row[s] EXCEPT !.track = name]
<1> DEFINE y == [job[j] EXCEPT !.at = "analyse", !.name = Null]
<1>1. job[j].at = "write_name" /\ UNCHANGED archive
      BY DEF WriteName
<1>2. s \in Sessions /\ row[s].at # "none" /\ row[s] \in RowT /\ GoodRow(row[s], s, archive)
      BY <1>1, AtSession DEF IInv
<1>3. GoodJob(job[j], row, archive) /\ job[j] \in JobT
      BY DEF IInv, GoodJob
<1>4. name \in Names
      BY <1>2, <1>3 DEF RowT, JobT
<1>5. row' = [row EXCEPT ![s] = z] /\ job' = [job EXCEPT ![j] = y]
      BY DEF WriteName
<1> HIDE DEF name
<1>6. /\ z \in RowT /\ z.at = row[s].at /\ z.blob = row[s].blob
      /\ z.path = row[s].path /\ z.batch = row[s].batch
      BY <1>2, <1>4 DEF RowT
<1>7. Null \in Names
      BY DEF Names
<1>8. /\ y \in JobT /\ y.at = "analyse" /\ y.s = s
      /\ y.meta = job[j].meta /\ y.todo = job[j].todo
      BY <1>3, <1>7 DEF JobT, Places
<1> HIDE DEF z, y
<1>9. GoodRow(z, s, archive) /\ Follows(row[s], z)
      BY <1>2, <1>6 DEF GoodRow, Follows
<1>10. \A r \in Sessions : row'[r] = IF r = s THEN z ELSE row[r]
      BY <1>5 DEF IInv
<1>11. \A r \in Sessions : Follows(row[r], row'[r])
      BY <1>9, <1>10 DEF Follows
<1>12. GoodJob(job[j], row', archive)
      BY <1>3, <1>11, GoodStays
<1>13. GoodJob(y, row', archive)
      BY <1>1, <1>8, <1>12 DEF GoodJob
<1> QED BY <1>1, <1>2, <1>5, <1>9, <1>13, RowStep

\* Storing an analysis touches nothing else of a row.
LEMMA StoreAnalysisRow ==
    ASSUME IInv, NEW s \in Sessions, StoreAnalysis(s)
    PROVE  \E z : row' = [row EXCEPT ![s] = z] /\ GoodRow(z, s, archive) /\ Follows(row[s], z)
<1> DEFINE z == [row[s] EXCEPT !.analysed = "current"]
<1>1. GoodRow(row[s], s, archive) /\ row[s] \in RowT
      BY DEF IInv, GoodRow
<1>2. row' = [row EXCEPT ![s] = z]
      BY DEF StoreAnalysis
<1>3. /\ z \in RowT /\ z.at = row[s].at /\ z.track = row[s].track /\ z.blob = row[s].blob
      /\ z.path = row[s].path /\ z.batch = row[s].batch
      BY <1>1 DEF RowT
<1> HIDE DEF z
<1>4. GoodRow(z, s, archive) /\ Follows(row[s], z)
      BY <1>1, <1>3 DEF GoodRow, Follows
<1> QED BY <1>2, <1>4

LEMMA AnalyzeAndStoreKeeps == ASSUME IInv, NEW j \in Jobs, AnalyzeAndStore(j) PROVE IInv'
<1>1. job[j].at = "analyse" /\ UNCHANGED archive /\ Over(j)
      BY DEF AnalyzeAndStore
<1>2. CASE UNCHANGED row
      BY <1>1, <1>2, OverKeeps
<1>3. CASE StoreAnalysis(job[j].s)
  <2>1. job[j].s \in Sessions
        BY <1>1, AtSession
  <2>2. PICK z : /\ row' = [row EXCEPT ![job[j].s] = z]
                 /\ GoodRow(z, job[j].s, archive) /\ Follows(row[job[j].s], z)
        BY <1>3, <2>1, StoreAnalysisRow
  <2>3. GoodJob(Idle, row', archive)
        BY GoodIdle
  <2> QED BY <1>1, <2>1, <2>2, <2>3, RowStep DEF Over
<1> QED BY <1>2, <1>3 DEF AnalyzeAndStore

LEMMA AnalyseKeeps == ASSUME IInv, NEW j \in Jobs, Analyse(j) PROVE IInv'
<1>1. job[j].at = "analyse" /\ UNCHANGED archive
      BY DEF Analyse
<1>2. CASE Goto(j, "archive") /\ UNCHANGED row
      BY <1>1, <1>2, MovesOnly DEF Places
<1>3. CASE Goto(j, "next") /\ UNCHANGED row
      BY <1>1, <1>3, MovesOnly DEF Places
<1>4. CASE StoreAnalysis(job[j].s) /\ Goto(j, "archive")
  <2>1. job[j].s \in Sessions
        BY <1>1, AtSession
  <2>2. PICK z : /\ row' = [row EXCEPT ![job[j].s] = z]
                 /\ GoodRow(z, job[j].s, archive) /\ Follows(row[job[j].s], z)
        BY <1>4, <2>1, StoreAnalysisRow
  <2> QED BY <1>1, <1>4, <2>1, <2>2, RowMoves DEF Places
<1> QED BY <1>2, <1>3, <1>4 DEF Analyse, Fails

LEMMA BeginKeeps == ASSUME IInv, NEW j \in Jobs, NEW mode \in Modes, Begin(j, mode) PROVE IInv'
<1> DEFINE meta == [s \in Sessions |-> IF s \in Candidates THEN MetaOf(s) ELSE NoMeta]
<1> DEFINE y == [Idle EXCEPT !.kind = "backfill", !.at = "next", !.mode = mode,
                     !.todo = Candidates, !.meta = meta]
<1>1. mode \in SUBSET {"analyze", "archive", "clear"}
      BY LibraryConstantsOK DEF LibraryConstantsOK
<1>2. Candidates \subseteq Sessions /\ \A s \in Candidates : row[s].at # "none"
      BY DEF Candidates, Stored
<1>3. \A s \in Sessions : MetaOf(s) \in Meta
      BY DEF MetaOf, Meta, IInv, GoodRow, RowT, Batches
<1>4. meta \in [Sessions -> Meta]
      BY <1>3, NoMetaType
<1>5. \A s \in Sessions : /\ meta[s].batch # NoBatch => row[s].batch # NoBatch
                          /\ meta[s].path => row[s].path
      BY DEF MetaOf, NoMeta
<1>6. job' = [job EXCEPT ![j] = y] /\ UNCHANGED <<row, archive>>
      BY DEF Begin
<1> HIDE DEF meta
<1>7. Idle \in JobT
      BY IdleType
<1>8. y \in JobT /\ y.at = "next" /\ y.todo = Candidates /\ y.meta = meta
      BY <1>1, <1>2, <1>4, <1>7 DEF JobT, Places
<1> HIDE DEF y
<1>9. GoodJob(y, row, archive')
      BY <1>2, <1>5, <1>8 DEF GoodJob
<1> QED BY <1>6, <1>9, JobStep

LEMMA NextSessionKeeps == ASSUME IInv, NEW j \in Jobs, NextSession(j) PROVE IInv'
<1>1. PICK s \in job[j].todo :
         job' = [job EXCEPT ![j].s = s, ![j].todo = @ \ {s},
                    ![j].meta = [r \in Sessions |-> IF r \in job[j].todo THEN @[r] ELSE NoMeta],
                    ![j].at = IF job[j].mode = {"analyze"} /\ HasStoredAnalysis(s)
                              THEN "next" ELSE "load"]
      BY DEF NextSession
<1> DEFINE meta == [r \in Sessions |-> IF r \in job[j].todo THEN job[j].meta[r] ELSE NoMeta]
<1> DEFINE at == IF job[j].mode = {"analyze"} /\ HasStoredAnalysis(s) THEN "next" ELSE "load"
<1> DEFINE todo == job[j].todo \ {s}
<1> DEFINE y == [job[j] EXCEPT !.s = s, !.todo = todo, !.meta = meta, !.at = at]
<1>2. GoodJob(job[j], row, archive) /\ job[j] \in JobT
      BY DEF IInv, GoodJob
<1>3. s \in Sessions /\ row[s].at # "none" /\ todo \subseteq Sessions
      BY <1>2 DEF GoodJob, JobT
<1>4. meta \in [Sessions -> Meta]
      BY <1>2, NoMetaType DEF JobT
<1>5. at \in {"next", "load"}
      OBVIOUS
<1>6. job' = [job EXCEPT ![j] = y] /\ UNCHANGED <<row, archive>>
      BY <1>1 DEF NextSession
<1>7. \A r \in Sessions : meta[r] = job[j].meta[r] \/ meta[r] = NoMeta
      OBVIOUS
<1>8. todo \subseteq job[j].todo
      OBVIOUS
<1> HIDE DEF meta, at, todo
<1>9. y \in JobT /\ y.s = s /\ y.at = at /\ y.todo = todo /\ y.meta = meta
      BY <1>2, <1>3, <1>4, <1>5 DEF JobT, Places
<1> HIDE DEF y
<1>10. \A r \in Sessions : row[r].at # "deleted" =>
           /\ meta[r].batch # NoBatch => row[r].batch # NoBatch
           /\ meta[r].path => row[r].path
      BY <1>2, <1>7 DEF GoodJob, NoMeta
<1>11. GoodJob(y, row, archive')
      BY <1>2, <1>3, <1>5, <1>8, <1>9, <1>10 DEF GoodJob
<1> QED BY <1>6, <1>11, JobStep

LEMMA FinishKeeps == ASSUME IInv, NEW j \in Jobs, Finish(j) PROVE IInv'
BY OverKeeps DEF Finish

LEMMA KillKeeps == ASSUME IInv, NEW j \in Jobs, Kill(j) PROVE IInv'
BY OverKeeps DEF Kill

LEMMA LoadKeeps == ASSUME IInv, NEW j \in Jobs, Load(j) PROVE IInv'
<1>1. job[j].at = "load" /\ UNCHANGED <<row, archive>>
      BY DEF Load
<1>2. PICK at \in {"read_name", "archive", "next"} : Goto(j, at)
      BY DEF Load, Fails
<1> QED BY <1>1, <1>2, MovesOnly DEF Places

LEMMA ArchiveKeeps == ASSUME IInv, NEW j \in Jobs, Archive(j) PROVE IInv'
<1>1. job[j].at = "archive" /\ UNCHANGED row
      BY DEF Archive
<1>2. CASE archive' = archive \cup {job[j].s} /\ Goto(j, "record")
      BY <1>1, <1>2, MovesOnly DEF Places
<1>3. CASE UNCHANGED archive /\ (Goto(j, "next") \/ Goto(j, "clear"))
      BY <1>1, <1>3, MovesOnly DEF Places
<1> QED BY <1>2, <1>3 DEF Archive, Fails

LEMMA RecordKeeps == ASSUME IInv, NEW j \in Jobs, Record(j) PROVE IInv'
<1> DEFINE s == job[j].s
<1> DEFINE path == row[s].path \/ Stored(s)
<1> DEFINE z == [row[s] EXCEPT !.path = path]
<1> DEFINE m == [job[j].meta[s] EXCEPT !.path = TRUE]
<1> DEFINE meta == [job[j].meta EXCEPT ![s] = m]
<1> DEFINE y == [job[j] EXCEPT !.at = "clear", !.meta = meta]
<1>1. job[j].at = "record" /\ UNCHANGED archive
      BY DEF Record
<1>2. /\ s \in Sessions /\ row[s].at # "none" /\ row[s] \in RowT
      /\ GoodRow(row[s], s, archive)
      BY <1>1, AtSession DEF IInv
<1>3. GoodJob(job[j], row, archive) /\ job[j] \in JobT /\ s \in archive
      BY <1>1 DEF IInv, GoodJob
<1>4. row' = [row EXCEPT ![s] = z] /\ job' = [job EXCEPT ![j] = y]
      BY DEF Record
<1>5. path \in BOOLEAN /\ (row[s].path => path) /\ (Stored(s) => path)
      BY <1>2 DEF RowT
<1> HIDE DEF path
<1>6. /\ z \in RowT /\ z.at = row[s].at /\ z.track = row[s].track /\ z.blob = row[s].blob
      /\ z.path = path /\ z.batch = row[s].batch
      BY <1>2, <1>5 DEF RowT
<1>7. job[j].meta \in [Sessions -> Meta] /\ job[j].meta[s] \in Meta
      BY <1>2, <1>3 DEF JobT
<1>8. m \in Meta /\ m.path = TRUE /\ m.batch = job[j].meta[s].batch
      BY <1>7 DEF Meta
<1> HIDE DEF m
<1>9. meta \in [Sessions -> Meta] /\ \A r \in Sessions : meta[r] = IF r = s THEN m ELSE job[j].meta[r]
      BY <1>2, <1>7, <1>8
<1> HIDE DEF meta
<1>10. y \in JobT /\ y.at = "clear" /\ y.s = s /\ y.meta = meta /\ y.todo = job[j].todo
      BY <1>3, <1>9 DEF JobT, Places
<1> HIDE DEF z, y
<1>11. GoodRow(z, s, archive) /\ Follows(row[s], z)
      BY <1>2, <1>3, <1>5, <1>6 DEF GoodRow, Follows
<1>12. \A r \in Sessions : row'[r] = IF r = s THEN z ELSE row[r]
      BY <1>4 DEF IInv
<1>13. \A r \in Sessions : Follows(row[r], row'[r])
      BY <1>11, <1>12 DEF Follows
<1>14. GoodJob(job[j], row', archive)
      BY <1>3, <1>13, GoodStays
<1>15. row'[s].at # "deleted" => row'[s].path
      BY <1>2, <1>5, <1>6, <1>12 DEF RowT, Stored
<1>16. GoodJob(y, row', archive)
  <2>1. ASSUME NEW r \in Sessions, row'[r].at # "deleted"
        PROVE  /\ y.meta[r].batch # NoBatch => row'[r].batch # NoBatch
               /\ y.meta[r].path => row'[r].path
        BY <1>8, <1>9, <1>10, <1>14, <1>15, <2>1 DEF GoodJob
  <2> QED BY <1>1, <1>10, <1>14, <2>1 DEF GoodJob
<1> QED BY <1>1, <1>2, <1>4, <1>11, <1>16, RowStep

\* The blob goes only where the row, by what the job knows of it, has another
\* source.
LEMMA ClearKeeps == ASSUME IInv, NEW j \in Jobs, Clear(j) PROVE IInv'
<1> DEFINE s == job[j].s
<1> DEFINE z == [row[s] EXCEPT !.blob = FALSE]
<1>1. job[j].at = "clear" /\ UNCHANGED archive /\ Goto(j, "next")
      BY DEF Clear
<1>2. s \in Sessions /\ row[s].at # "none" /\ row[s] \in RowT /\ GoodRow(row[s], s, archive)
      BY <1>1, AtSession DEF IInv
<1>3. CASE UNCHANGED row
      BY <1>1, <1>3, MovesOnly DEF Places
<1>4. CASE row' = [row EXCEPT ![s] = z] /\ Recoverable(job[j].meta[s])
  <2>1. row[s].at = "stored" => row[s].path \/ row[s].batch # NoBatch
        BY <1>2, <1>4 DEF IInv, GoodJob, Recoverable
  <2>2. /\ z \in RowT /\ z.at = row[s].at /\ z.track = row[s].track
        /\ z.path = row[s].path /\ z.batch = row[s].batch
        BY <1>2 DEF RowT
  <2> HIDE DEF z
  <2>3. GoodRow(z, s, archive) /\ Follows(row[s], z)
        BY <1>2, <2>1, <2>2 DEF GoodRow, Follows
  <2> QED BY <1>1, <1>2, <1>4, <2>3, RowMoves DEF Places
<1>5. UNCHANGED row \/ (row' = [row EXCEPT ![s] = z] /\ Recoverable(job[j].meta[s]))
      BY DEF Clear, ClearBlob
<1> QED BY <1>3, <1>4, <1>5

LEMMA EditTrackKeeps ==
    ASSUME IInv, NEW s \in Sessions, NEW track \in NamesAt[s] \cup {Null, Blank}, EditTrack(s, track)
    PROVE  IInv'
<1> DEFINE z == [row[s] EXCEPT !.track = track]
<1>1. GoodRow(row[s], s, archive) /\ row[s] \in RowT /\ row[s].at = "stored"
      BY DEF IInv, GoodRow, EditTrack, Stored
<1>2. track \in Names
      BY DEF Names, Typed
<1>3. row' = [row EXCEPT ![s] = z] /\ UNCHANGED <<archive, job>>
      BY DEF EditTrack
<1>4. /\ z \in RowT /\ z.at = row[s].at /\ z.blob = row[s].blob
      /\ z.path = row[s].path /\ z.batch = row[s].batch
      BY <1>1, <1>2 DEF RowT
<1> HIDE DEF z
<1>5. GoodRow(z, s, archive) /\ Follows(row[s], z)
      BY <1>1, <1>4 DEF GoodRow, Follows
<1> QED BY <1>3, <1>5, RowStep

LEMMA DeleteSessionKeeps == ASSUME IInv, NEW s \in Sessions, DeleteSession(s) PROVE IInv'
<1>1. NoRow("deleted").at = "deleted" /\ ~NoRow("deleted").path
      BY DEF NoRow
<1>2. GoodRow(NoRow("deleted"), s, archive) /\ Follows(row[s], NoRow("deleted"))
      BY <1>1, NoRowType DEF GoodRow, Follows
<1> QED BY <1>2, RowStep DEF DeleteSession

LEMMA DeployKeeps == ASSUME IInv, Deploy PROVE IInv'
<1> DEFINE a(s) == IF row[s].analysed = "current" THEN "old" ELSE row[s].analysed
<1> DEFINE z(s) == [row[s] EXCEPT !.analysed = a(s)]
<1>1. row' = [s \in Sessions |-> z(s)] /\ UNCHANGED <<archive, job>>
      BY DEF Deploy
<1>2. ASSUME NEW s \in Sessions
      PROVE  GoodRow(row'[s], s, archive) /\ Follows(row[s], row'[s])
  <2>1. GoodRow(row[s], s, archive) /\ row[s] \in RowT
        BY DEF IInv, GoodRow
  <2>2. a(s) \in {"no", "old", "current"}
        BY <2>1 DEF RowT
  <2> HIDE DEF a
  <2>3. /\ z(s) \in RowT /\ z(s).at = row[s].at /\ z(s).track = row[s].track
        /\ z(s).blob = row[s].blob /\ z(s).path = row[s].path /\ z(s).batch = row[s].batch
        BY <2>1, <2>2 DEF RowT
  <2>4. row'[s] = z(s)
        BY <1>1
  <2> HIDE DEF z
  <2> QED BY <2>1, <2>3, <2>4 DEF GoodRow, Follows
<1>3. \A j \in Jobs : GoodJob(job'[j], row', archive')
      BY <1>1, <1>2, GoodStays DEF IInv
<1>4. row' = [s \in Sessions |-> row'[s]]
      BY <1>1
<1> QED BY <1>1, <1>2, <1>3, <1>4 DEF IInv

LEMMA StepKeeps == ASSUME IInv, NEW j \in Jobs, Step(j) PROVE IInv'
BY LinkKeeps, ReadNameKeeps, WriteNameKeeps, AnalyzeAndStoreKeeps, AnalyseKeeps, NextSessionKeeps,
   FinishKeeps, LoadKeeps, ArchiveKeeps, RecordKeeps, ClearKeeps, KillKeeps DEF Step

LEMMA NextIInv == IInv /\ [Next]_vars => IInv'
<1> SUFFICES ASSUME IInv, [Next]_vars PROVE IInv'
    OBVIOUS
<1>1. CASE \E j \in Jobs : Step(j)
      BY <1>1, StepKeeps
<1>2. CASE \E j \in Ingests, s \in Sessions : \E track \in NamesAt[s] \cup {Null}, gps \in GpsOf[s] :
               Save(j, s, track, gps)
      BY <1>2, SaveKeeps DEF Jobs
<1>3. CASE \E j \in Backfills, mode \in Modes : Begin(j, mode)
      BY <1>3, BeginKeeps DEF Jobs
<1>4. CASE \E s \in Sessions : \/ DeleteSession(s)
                               \/ \E track \in NamesAt[s] \cup {Null, Blank} : EditTrack(s, track)
      BY <1>4, DeleteSessionKeeps, EditTrackKeeps
<1>5. CASE Deploy
      BY <1>5, DeployKeeps
<1>6. CASE UNCHANGED vars
      BY <1>6 DEF vars, IInv
<1> QED BY <1>1, <1>2, <1>3, <1>4, <1>5, <1>6 DEF Next

LEMMA Inductive == Spec => []IInv
BY InitIInv, NextIInv, PTL DEF Spec

-----------------------------------------------------------------------------
(* Names of tracks *)

\* Circuits lie apart: sessions near each other are of one circuit.
Apart ==
    \A r, s \in Sessions :
        Abs(PlaceOf[r] - PlaceOf[s]) <= Radius => CircuitOf[r] = CircuitOf[s]

\* A name of the circuit where s was driven.
Right(s, name) ==
    \E r \in Sessions : CircuitOf[r] = CircuitOf[s] /\ name \in NamesAt[r]

\* A job holds a name only from reading it to writing it, and for its session.
NamesInv ==
    /\ IInv /\ NamesRight
    /\ \A j \in Jobs : job[j].name # Null =>
          job[j].at = "write_name" /\ Right(job[j].s, job[j].name)

LEMMA RightAt == ASSUME NEW s \in Sessions, NEW name \in NamesAt[s] PROVE Right(s, name)
BY DEF Right

\* The name of a near session is as right here as it is there.
LEMMA RightNearby ==
    ASSUME Apart, NamesRight, NEW s \in Sessions, NEW k \in Closest(s)
    PROVE  Right(s, row[k].track)
<1>1. k \in Sessions /\ ~Unknown(row[k].track)
      BY DEF Closest, Near, Known
<1>2. Abs(PlaceOf[k] - PlaceOf[s]) <= Radius
      BY DEF Closest, Near, Location
<1>3. PICK r \in Sessions : CircuitOf[r] = CircuitOf[k] /\ row[k].track \in NamesAt[r]
      BY <1>1 DEF NamesRight
<1> QED BY <1>1, <1>2, <1>3 DEF Apart, Right

\* Where the name of a session can come from: a person, or the job it is in hand of.
LEMMA TrackEffect ==
    ASSUME IInv, Next, NEW s \in Sessions, row'[s].track # row[s].track
    PROVE  \/ Unknown(row'[s].track)
           \/ row'[s].track \in NamesAt[s]
           \/ \E j \in Jobs : /\ job[j].at = "write_name" /\ job[j].s = s
                             /\ row'[s].track = job[j].name
<1>1. row[s] \in RowT
      BY DEF IInv, GoodRow
<1>2. ASSUME NEW j \in Ingests, NEW r \in Sessions, NEW track \in NamesAt[r] \cup {Null},
             NEW gps, Save(j, r, track, gps)
      PROVE  row'[s].track \in NamesAt[s] \cup {Null}
      BY <1>1, <1>2 DEF Save, IInv, RowT
<1>3. ASSUME NEW j \in Jobs, Step(j)
      PROVE  job[j].at = "write_name" /\ job[j].s = s /\ row'[s].track = job[j].name
  <2>1. \/ UNCHANGED row \/ (\E r \in Sessions : StoreAnalysis(r)) \/ Link(j) \/ WriteName(j)
        \/ Record(j) \/ ClearBlob(job[j].s)
        BY <1>3, AtSession DEF Step, ReadName, AnalyzeAndStore, Analyse, NextSession, Finish, Load,
           Archive, Clear, Kill
  <2>2. ~\E r \in Sessions : StoreAnalysis(r)
        BY <1>1 DEF StoreAnalysis, IInv, RowT
  <2>3. ~Link(j) /\ ~Record(j) /\ ~ClearBlob(job[j].s)
        BY <1>1 DEF Link, Record, ClearBlob, IInv, RowT
  <2>4. WriteName(j)
        BY <2>1, <2>2, <2>3
  <2> QED BY <1>1, <2>4 DEF WriteName, IInv, RowT
<1>4. ASSUME NEW j \in Backfills, NEW mode \in Modes, Begin(j, mode) PROVE FALSE
      BY <1>4 DEF Begin
<1>5. ASSUME NEW r \in Sessions, DeleteSession(r) PROVE row'[s].track = Null
      BY <1>5 DEF DeleteSession, IInv, NoRow
<1>6. ASSUME NEW r \in Sessions, NEW track \in NamesAt[r] \cup {Null, Blank}, EditTrack(r, track)
      PROVE  row'[s].track \in NamesAt[s] \cup {Null, Blank}
      BY <1>1, <1>6 DEF EditTrack, IInv, RowT
<1>7. ~Deploy
      BY <1>1 DEF Deploy, IInv, RowT
<1> QED BY <1>2, <1>3, <1>4, <1>5, <1>6, <1>7 DEF Next, Unknown

\* And the name a job holds: from the nearest session of a known name.
LEMMA HeldEffect ==
    ASSUME NamesInv, Next, NEW j \in Jobs, job'[j].name # Null
    PROVE  \/ job'[j] = job[j]
           \/ /\ job[j].s \in Sessions /\ job'[j].s = job[j].s /\ job'[j].at = "write_name"
              /\ \E k \in Closest(job[j].s) : job'[j].name = row[k].track
<1> USE DEF NamesInv
<1>1. job[j] \in JobT /\ Idle.name = Null
      BY DEF IInv, GoodJob, Idle
<1>2. ASSUME NEW i \in Ingests, NEW r, NEW track, NEW gps, Save(i, r, track, gps)
      PROVE  job'[j] = job[j]
      BY <1>1, <1>2 DEF Save, IInv, Idle
<1>3. ASSUME NEW i \in Backfills, NEW mode, Begin(i, mode) PROVE job'[j] = job[j]
      BY <1>1, <1>3 DEF Begin, IInv, Idle
<1>4. ASSUME NEW i \in Jobs, Step(i), i # j PROVE job'[j] = job[j]
      BY <1>4 DEF Step, Link, ReadName, WriteName, AnalyzeAndStore, Analyse, NextSession, Finish, Load,
         Archive, Record, Clear, Kill, Goto, Over, Fails, IInv
<1>5. ASSUME Step(j), job'[j] # job[j]
      PROVE  /\ job[j].s \in Sessions /\ job'[j].s = job[j].s /\ job'[j].at = "write_name"
             /\ \E k \in Closest(job[j].s) : job'[j].name = row[k].track
  <2>1. ~Over(j)
        BY <1>1 DEF Over, IInv
  <2>2. ASSUME NEW at, Goto(j, at), job[j].at # "write_name" PROVE FALSE
        BY <1>1, <2>2 DEF Goto, IInv, JobT
  <2>3. ~WriteName(j)
    <3>1. [[job[j] EXCEPT !.at = "analyse"] EXCEPT !.name = Null].name = Null
          BY <1>1 DEF JobT
    <3> QED BY <3>1 DEF WriteName, IInv
  <2>4. ~NextSession(j) /\ ~Record(j)
    <3>1. ASSUME NEW y, job'[j] = y, y.name = job[j].name, job[j].at # "write_name" PROVE FALSE
          BY <3>1
    <3>2. ASSUME Record(j) PROVE FALSE
      <4>1. PICK y : job'[j] = y /\ y = [[job[j] EXCEPT !.at = "clear"] EXCEPT !.meta[job[j].s].path = TRUE]
            BY <3>2 DEF Record, IInv
      <4>2. y.name = job[j].name
            BY <1>1, <4>1 DEF JobT
      <4> QED BY <3>1, <3>2, <4>1, <4>2 DEF Record
    <3>3. ASSUME NextSession(j) PROVE FALSE
      <4>1. PICK s \in job[j].todo :
               job'[j] = [job[j] EXCEPT !.s = s, !.todo = @ \ {s},
                  !.meta = [r \in Sessions |-> IF r \in job[j].todo THEN @[r] ELSE NoMeta],
                  !.at = IF job[j].mode = {"analyze"} /\ HasStoredAnalysis(s)
                         THEN "next" ELSE "load"]
            BY <3>3 DEF NextSession, IInv
      <4>2. job'[j].name = job[j].name
            BY <1>1, <4>1 DEF JobT
      <4> QED BY <3>1, <3>3, <4>2 DEF NextSession
    <3> QED BY <3>2, <3>3
  <2>5. ReadName(j)
        BY <1>5, <2>1, <2>2, <2>3, <2>4 DEF Step, Link, AnalyzeAndStore, Analyse, Finish,
           Load, Archive, Clear, Kill, Fails
  <2>6. PICK k \in Closest(job[j].s) :
            job' = [job EXCEPT ![j].at = "write_name", ![j].name = row[k].track]
        BY <2>2, <2>5 DEF ReadName
  <2>7. job[j].s \in Sessions
        BY <2>5, AtSession DEF ReadName
  <2> QED BY <1>1, <2>6, <2>7 DEF IInv, JobT
<1>6. ASSUME NEW s \in Sessions,
             DeleteSession(s) \/ \E track \in NamesAt[s] \cup {Null, Blank} : EditTrack(s, track)
      PROVE  job'[j] = job[j]
      BY <1>6 DEF DeleteSession, EditTrack
<1>7. ASSUME Deploy PROVE job'[j] = job[j]
      BY <1>7 DEF Deploy
<1> QED BY <1>2, <1>3, <1>4, <1>5, <1>6, <1>7 DEF Next, Jobs

LEMMA NextNames == Apart /\ NamesInv /\ [Next]_vars => NamesInv'
<1> SUFFICES ASSUME Apart, NamesInv, [Next]_vars PROVE NamesInv'
    OBVIOUS
<1>1. IInv'
      BY NextIInv DEF NamesInv
<1>2. CASE Next
  <2>1. ASSUME NEW s \in Sessions, ~Unknown(row'[s].track) PROVE Right(s, row'[s].track)
    <3>1. CASE row'[s].track = row[s].track
          BY <2>1, <3>1 DEF NamesInv, NamesRight, Right
    <3>2. CASE row'[s].track \in NamesAt[s]
          BY <3>2, RightAt
    <3>3. CASE \E j \in Jobs : job[j].at = "write_name" /\ job[j].s = s /\ row'[s].track = job[j].name
          BY <2>1, <3>3 DEF NamesInv, Unknown
    <3> QED BY <1>2, <2>1, <3>1, <3>2, <3>3, TrackEffect DEF NamesInv
  <2>2. ASSUME NEW j \in Jobs, job'[j].name # Null
        PROVE  job'[j].at = "write_name" /\ Right(job'[j].s, job'[j].name)
        BY <1>2, <2>2, HeldEffect, RightNearby DEF NamesInv
  <2> QED BY <1>1, <2>1, <2>2 DEF NamesInv, NamesRight, Right
<1>3. CASE UNCHANGED vars
      BY <1>1, <1>3 DEF vars, NamesInv, NamesRight, Right
<1> QED BY <1>2, <1>3

-----------------------------------------------------------------------------
(* The theorems *)

\* Rows keep their types, and a copy is recorded as archived only when the archive
\* holds it: _archive uploads before it writes the path.
THEOREM LibraryTypes == Spec => []TypeOK
<1>1. IInv => TypeOK
  <2> SUFFICES ASSUME IInv PROVE TypeOK
      OBVIOUS
  <2>1. row \in [Sessions -> RowT]
        BY DEF IInv, GoodRow
  <2>2. \A s \in Sessions : row[s].path => s \in archive
        BY DEF IInv, GoodRow
  <2>3. row \in [Sessions -> [at : {"none", "stored", "deleted"}, gps : BOOLEAN, batch : Batches,
                              track : Names, blob : BOOLEAN, path : BOOLEAN,
                              analysed : {"no", "old", "current"}]]
        BY <2>1 DEF RowT
  <2>4. /\ Batches = {BatchOf[s] : s \in Sessions} \cup {NoBatch}
        /\ Names = (UNION {NamesAt[s] : s \in Sessions}) \cup {Null, Blank}
        BY DEF Batches, Names, Typed
  <2> QED BY <2>2, <2>3, <2>4 DEF TypeOK
<1> QED BY <1>1, Inductive, PTL

\* Of uploads stored as they are, the raw telemetry of every session there is can
\* be read back, however many runs and ingests overlap and wherever they are
\* killed: the blob is cleared on what the job knew, and what it knew can only have
\* become truer.
THEOREM NoRawDataLost == Packed = {} /\ Spec => []RawReadable
<1>1. Packed = {} /\ IInv => RawReadable
      BY DEF IInv, GoodRow, RawReadable, Loadable, MetaOf, Stored
<1>2. Packed = {} => []RawReadable \/ ~[]IInv
  <2> SUFFICES ASSUME Packed = {} PROVE []RawReadable \/ ~[]IInv
      OBVIOUS
  <2>1. IInv => RawReadable
        BY <1>1
  <2> QED BY <2>1, PTL
<1> QED BY <1>2, Inductive, PTL

\* No job ever writes over a name: one changes by a person's edit, or goes with its
\* session.
THEOREM TypedNamesStand == Spec => NamesStand
<1>1. IInv /\ [Next]_vars => [\A s \in Sessions : (~Unknown(row[s].track) /\ row'[s].track # row[s].track)
                                  => UNCHANGED job]_vars
  <2> SUFFICES ASSUME IInv, Next, NEW s \in Sessions, ~Unknown(row[s].track),
                      row'[s].track # row[s].track
               PROVE  UNCHANGED job
      OBVIOUS
  <2>1. row[s].track # Null /\ row[s].at # "none"
        BY DEF Unknown, IInv, GoodRow
  <2>2. ASSUME NEW j \in Ingests, NEW r \in Sessions, NEW track, NEW gps, Save(j, r, track, gps)
        PROVE  FALSE
    <3>1. r # s
          BY <2>1, <2>2 DEF Save
    <3> QED BY <2>2, <3>1 DEF Save, IInv
  <2>3. ASSUME NEW j \in Jobs, Step(j) PROVE FALSE
    <3>1. UNCHANGED row \/ (\E r \in Sessions : StoreAnalysis(r)) \/ Link(j) \/ WriteName(j)
             \/ Record(j) \/ ClearBlob(job[j].s)
          BY <2>3, AtSession DEF Step, ReadName, AnalyzeAndStore, Analyse, NextSession, Finish, Load,
             Archive, Clear, Kill
    <3>2. ASSUME NEW r, NEW z, row' = [row EXCEPT ![r] = z], z.track = row[r].track PROVE FALSE
          BY <3>2 DEF IInv
    <3>3. row[s] \in RowT
          BY DEF IInv, GoodRow
    <3>4. ~UNCHANGED row
          OBVIOUS
    <3>5. row'[s] # row[s]
          OBVIOUS
    <3>6. ~\E r \in Sessions : StoreAnalysis(r)
          BY <3>3 DEF StoreAnalysis, IInv, RowT
    <3>7. ~Link(j)
          BY <3>3 DEF Link, IInv, RowT
    <3>8. ~WriteName(j)
          BY <2>1, <3>3 DEF WriteName, IInv, RowT
    <3>9. ~Record(j)
          BY <3>3 DEF Record, IInv, RowT
    <3>10. ~ClearBlob(job[j].s)
          BY <3>3 DEF ClearBlob, IInv, RowT
    <3> QED BY <3>1, <3>4, <3>6, <3>7, <3>8, <3>9, <3>10
  <2>4. ASSUME NEW j \in Backfills, NEW mode \in Modes, Begin(j, mode) PROVE FALSE
        BY <2>4 DEF Begin
  <2> QED BY <2>2, <2>3, <2>4 DEF Next, DeleteSession, EditTrack, Deploy
<1> QED BY <1>1, Inductive, PTL DEF Spec, NamesStand

\* Where circuits lie further apart than the radius and people name a track right,
\* every name a session
\* ever gets is right, however long the chain of sessions it was inferred along,
\* and although the name is read in one transaction and written in another.
THEOREM InferredNamesRight == Apart /\ Spec => []NamesRight
<1>1. Init => NamesInv
  <2> SUFFICES ASSUME Init PROVE NamesInv
      OBVIOUS
  <2>1. IInv
        BY InitIInv
  <2>2. \A s \in Sessions : Unknown(row[s].track)
        BY DEF Init, NoRow, Unknown
  <2>3. \A j \in Jobs : job[j].name = Null
        BY DEF Init, Idle
  <2> QED BY <2>1, <2>2, <2>3 DEF NamesInv, NamesRight
<1>2. Apart => (Spec => []NamesInv)
  <2> SUFFICES ASSUME Apart PROVE Spec => []NamesInv
      OBVIOUS
  <2>1. NamesInv /\ [Next]_vars => NamesInv'
        BY NextNames
  <2> QED BY <1>1, <2>1, PTL DEF Spec
<1>3. NamesInv => NamesRight
      BY DEF NamesInv
<1> QED BY <1>2, <1>3, PTL
=============================================================================
