------------------------------ MODULE Library ------------------------------
(***************************************************************************)
(* The session library on Postgres (telemetry/storage.py) and what is      *)
(* derived from it after a session is saved: its track name                *)
(* (track_naming.py), its stored analysis (analysis_store.py); and the      *)
(* backfill (scripts/backfill_analysis.py), which analyses again what an   *)
(* older version analysed and frees the database of raw telemetry that can *)
(* be had elsewhere.                                                       *)
(*                                                                         *)
(* A job is an ingest of one session or a run of the backfill; every       *)
(* transaction of it, and every look at the store, is a step.  A session is *)
(* driven at a point of a line, its circuit being a stretch of it.         *)
(***************************************************************************)
EXTENDS Integers, FiniteSets

CONSTANTS
    Sessions,      \* their ids, as the database hands them out
    BatchOf,       \* the upload a session came from, NoBatch when synced
    NoBatch,
    Packed,        \* uploads the browser gzipped
    PlaceOf,       \* where a session was driven
    CircuitOf,     \* the circuit that is there
    GpsOf,         \* whether its file may have, or may lack, positions
    NamesAt,       \* the names people give the track there
    Null, Blank,   \* no name, and an empty one
    Radius,        \* MATCH_RADIUS_M
    Modes,         \* the flags of the runs of the backfill
    Ingests,       \* the processes that save sessions
    Backfills      \* those that run the script

ASSUME LibraryConstantsOK ==
    /\ Sessions \subseteq Nat /\ DOMAIN BatchOf = Sessions
    /\ PlaceOf \in [Sessions -> Int] /\ DOMAIN NamesAt = Sessions /\ DOMAIN CircuitOf = Sessions
    /\ GpsOf \in [Sessions -> (SUBSET BOOLEAN) \ {{}}]
    /\ Modes \subseteq SUBSET {"analyze", "archive", "clear"}
    /\ \A s \in Sessions : Null \notin NamesAt[s]
    /\ Null # Blank
    /\ Radius \in Nat

Jobs == Ingests \cup Backfills

VARIABLES
    row,       \* [Sessions -> row of sessions, session_cache and session_analysis]
    archive,   \* sessions with an object under archive/session-cache
    job

vars == <<row, archive, job>>

Meta == [batch : {BatchOf[s] : s \in Sessions} \cup {NoBatch}, path : BOOLEAN, blob : BOOLEAN]
NoMeta == [batch |-> NoBatch, path |-> FALSE, blob |-> FALSE]
Idle == [kind |-> "idle", at |-> "idle", s |-> 0, name |-> Null, mode |-> {},
         meta |-> [s \in Sessions |-> NoMeta], todo |-> {}]
NoRow(at) == [at |-> at, batch |-> NoBatch, track |-> Null, gps |-> FALSE,
              blob |-> FALSE, path |-> FALSE, analysed |-> "no"]

Init ==
    /\ row = [s \in Sessions |-> NoRow("none")]
    /\ archive = {}
    /\ job = [j \in Jobs |-> Idle]

-----------------------------------------------------------------------------
(* Rows *)

Stored(s) == row[s].at = "stored"
Goto(j, at) == job' = [job EXCEPT ![j].at = at]
Over(j) == job' = [job EXCEPT ![j] = Idle]
Unknown(track) == track \in {Null, Blank}

HasStoredAnalysis(s) == Stored(s) /\ row[s].analysed = "current"

\* session_location: nowhere, without positions.
Location(s) == IF Stored(s) /\ row[s].gps THEN {PlaceOf[s]} ELSE {}

\* nearest_track over the latest session of every track whose traces are there.
Abs(n) == IF n < 0 THEN -n ELSE n
Traced(s) == Location(s) # {} /\ row[s].analysed # "no"
Known == {k \in Sessions :
    /\ Traced(k) /\ ~Unknown(row[k].track)
    /\ \A l \in Sessions : (Traced(l) /\ row[l].track = row[k].track) => l <= k}
\* Mutant: one too far is near.
NearBeyond(s) == {k \in Known : \E p \in Location(s) : Abs(PlaceOf[k] - p) <= Radius + 1}

Near(s) == {k \in Known : \E p \in Location(s) : Abs(PlaceOf[k] - p) <= Radius}
Closest(s) == {k \in Near(s) : \A l \in Near(s) :
    LET d == Abs(PlaceOf[k] - PlaceOf[s])  e == Abs(PlaceOf[l] - PlaceOf[s])
    IN d < e \/ (d = e /\ row[k].track <= row[l].track)}

-----------------------------------------------------------------------------
(* Ingest of a session: the worker and the sync tool *)

\* save_session, with the name the uploader gave, if any.
Save(j, s, track, gps) ==
    /\ job[j].kind = "idle"
    /\ row[s].at = "none" /\ \A r \in Sessions : r < s => row[r].at # "none"
    /\ row' = [row EXCEPT ![s].at = "stored", ![s].track = track,
                          ![s].gps = gps, ![s].blob = TRUE]
    /\ job' = [job EXCEPT ![j] = [Idle EXCEPT !.kind = "ingest", !.s = s,
                   !.at = IF BatchOf[s] = NoBatch THEN "read_name" ELSE "link"]]
    /\ UNCHANGED archive

\* _link_to_batch, best-effort.
Link(j) ==
    LET s == job[j].s
    IN  /\ job[j].at = "link"
        /\ row' \in {row, [row EXCEPT ![s].batch = IF Stored(s) THEN BatchOf[s] ELSE @]}
        /\ Goto(j, "read_name")
        /\ UNCHANGED archive

\* name_track_if_unknown reads the name and the known tracks,
ReadName(j) ==
    LET s == job[j].s
    IN  /\ job[j].at = "read_name"
        /\ IF Stored(s) /\ Unknown(row[s].track) /\ Closest(s) # {}
           THEN \E k \in Closest(s) :
                   job' = [job EXCEPT ![j].at = "write_name", ![j].name = row[k].track]
           ELSE Goto(j, "analyse")
        /\ UNCHANGED <<row, archive>>

\* Mutant: the name is written whatever the row has by now.
WriteNameUnguarded(j) ==
    LET s == job[j].s
    IN  /\ job[j].at = "write_name"
        /\ row' = [row EXCEPT ![s].track = IF Stored(s) THEN job[j].name ELSE @]
        /\ job' = [job EXCEPT ![j].at = "analyse", ![j].name = Null]
        /\ UNCHANGED archive

\* and writes the nearest one where there is still none.
WriteName(j) ==
    LET s == job[j].s
    IN  /\ job[j].at = "write_name"
        /\ row' = [row EXCEPT ![s].track = IF Stored(s) /\ @ = Null THEN job[j].name ELSE @]
        /\ job' = [job EXCEPT ![j].at = "analyse", ![j].name = Null]
        /\ UNCHANGED archive

\* analyze_session and store_session_analysis: one transaction, whose rows
\* replace those there were.
StoreAnalysis(s) ==
    /\ Stored(s)
    /\ row' = [row EXCEPT ![s].analysed = "current"]

\* analyze_and_store, the end of an ingest, best-effort.
AnalyzeAndStore(j) ==
    /\ job[j].at = "analyse" /\ job[j].kind = "ingest"
    /\ Over(j)
    /\ StoreAnalysis(job[j].s) \/ UNCHANGED row
    /\ UNCHANGED archive

\* A session that fails in the backfill is left for the next.
Fails(j) == Goto(j, "next")

\* What the backfill does of it.
Analyse(j) ==
    LET s == job[j].s
    IN  /\ job[j].at = "analyse" /\ job[j].kind = "backfill"
        /\ IF job[j].mode \cap {"analyze", "clear"} = {} \/ HasStoredAnalysis(s)
           THEN Goto(j, "archive") /\ UNCHANGED row
           ELSE \/ StoreAnalysis(s) /\ Goto(j, "archive")
                \/ Fails(j) /\ UNCHANGED row
        /\ UNCHANGED archive

-----------------------------------------------------------------------------
(* The backfill *)

\* Where a session's raw data is, by its rows.
MetaOf(s) == [batch |-> row[s].batch, path |-> row[s].path, blob |-> row[s].blob]

\* _candidates: the sessions there are.
Candidates == {s \in Sessions : Stored(s)}

Begin(j, mode) ==
    /\ job[j].kind = "idle"
    /\ job' = [job EXCEPT ![j] = [Idle EXCEPT
          !.kind = "backfill", !.at = "next", !.mode = mode, !.todo = Candidates,
          !.meta = [s \in Sessions |-> IF s \in Candidates THEN MetaOf(s) ELSE NoMeta]]]
    /\ UNCHANGED <<row, archive>>

\* The next session, unless there is nothing to do for it.
NextSession(j) ==
    /\ job[j].at = "next" /\ job[j].todo # {}
    /\ \E s \in job[j].todo :
          /\ \A r \in job[j].todo : s <= r
          /\ job' = [job EXCEPT ![j].s = s, ![j].todo = @ \ {s},
                 ![j].meta = [r \in Sessions |-> IF r \in job[j].todo THEN @[r] ELSE NoMeta],
                 ![j].at = IF job[j].mode = {"analyze"} /\ HasStoredAnalysis(s)
                           THEN "next" ELSE "load"]
    /\ UNCHANGED <<row, archive>>

Finish(j) ==
    /\ job[j].at = "next" /\ job[j].todo = {}
    /\ Over(j)
    /\ UNCHANGED <<row, archive>>

\* Where _load_dataframe finds the telemetry of a session: its row, the archived
\* copy its meta names, the upload its meta names.
Loadable(s, meta) ==
    \/ Stored(s) /\ row[s].blob
    \/ meta.path /\ s \in archive
    \/ ~meta.path /\ meta.batch # NoBatch /\ meta.batch \notin Packed

\* _load_dataframe; a download may fail.
Load(j) ==
    LET s == job[j].s
    IN  /\ job[j].at = "load"
        /\ \/ /\ Loadable(s, job[j].meta[s])
              /\ Goto(j, IF job[j].mode \cap {"analyze", "clear"} # {} THEN "read_name" ELSE "archive")
           \/ ~(Stored(s) /\ row[s].blob) /\ Fails(j)
        /\ UNCHANGED <<row, archive>>

\* Mutant: an upload that fails is not noticed.
ArchiveSwallowing(j) ==
    LET s == job[j].s
    IN  /\ job[j].at = "archive"
        /\ IF "archive" \in job[j].mode /\ ~job[j].meta[s].path
           THEN archive' \in {archive, archive \cup {s}} /\ Goto(j, "record")
           ELSE Goto(j, "clear") /\ UNCHANGED archive
        /\ UNCHANGED row

\* _archive uploads the copy,
Archive(j) ==
    LET s == job[j].s
    IN  /\ job[j].at = "archive"
        /\ IF "archive" \in job[j].mode /\ ~job[j].meta[s].path
           THEN \/ archive' = archive \cup {s} /\ Goto(j, "record")
                \/ Fails(j) /\ UNCHANGED archive
           ELSE Goto(j, "clear") /\ UNCHANGED archive
        /\ UNCHANGED row

\* and records where it is.
Record(j) ==
    LET s == job[j].s
    IN  /\ job[j].at = "record"
        /\ row' = [row EXCEPT ![s].path = @ \/ Stored(s)]
        /\ job' = [job EXCEPT ![j].at = "clear", ![j].meta[s].path = TRUE]
        /\ UNCHANGED archive

\* Mutant: what came from nowhere is cleared too.
RecoverableAlways(meta) == TRUE

Recoverable(meta) == meta.batch # NoBatch \/ meta.path

ClearBlob(s) == row' = [row EXCEPT ![s].blob = FALSE]

\* The blob of a session that is recoverable.
Clear(j) ==
    LET s == job[j].s  meta == job[j].meta[s]
    IN  /\ job[j].at = "clear"
        /\ IF "clear" \in job[j].mode /\ meta.blob /\ Recoverable(meta)
           THEN ClearBlob(s) ELSE UNCHANGED row
        /\ Goto(j, "next")
        /\ UNCHANGED archive

\* The job is killed.
Kill(j) ==
    /\ job[j].kind # "idle"
    /\ Over(j)
    /\ UNCHANGED <<row, archive>>

-----------------------------------------------------------------------------
(* People *)

\* The name of a track is typed, changed or cleared (update_session_details).
EditTrack(s, track) ==
    /\ Stored(s) /\ row[s].track # track
    /\ row' = [row EXCEPT ![s].track = track]
    /\ UNCHANGED <<archive, job>>

\* delete_session
DeleteSession(s) ==
    /\ Stored(s)
    /\ row' = [row EXCEPT ![s] = NoRow("deleted")]
    /\ UNCHANGED <<archive, job>>

\* Code with another ANALYSIS_VERSION is deployed.  (Bound: no job runs.)
Deploy ==
    /\ \A j \in Jobs : job[j].kind = "idle"
    /\ \E s \in Sessions : row[s].analysed = "current"
    /\ row' = [s \in Sessions |-> [row[s] EXCEPT !.analysed = IF @ = "current" THEN "old" ELSE @]]
    /\ UNCHANGED <<archive, job>>

Step(j) ==
    \/ Link(j) \/ ReadName(j) \/ WriteName(j) \/ AnalyzeAndStore(j) \/ Analyse(j)
    \/ NextSession(j) \/ Finish(j) \/ Load(j) \/ Archive(j) \/ Record(j) \/ Clear(j)
    \/ Kill(j)

Next ==
    \/ \E j \in Jobs : Step(j)
    \/ \E j \in Ingests, s \in Sessions : \E track \in NamesAt[s] \cup {Null}, gps \in GpsOf[s] :
          Save(j, s, track, gps)
    \/ \E j \in Backfills, mode \in Modes : Begin(j, mode)
    \/ \E s \in Sessions :
          \/ DeleteSession(s)
          \/ \E track \in NamesAt[s] \cup {Null, Blank} : EditTrack(s, track)
    \/ Deploy

Spec == Init /\ [][Next]_vars

-----------------------------------------------------------------------------
(* Properties *)

\* Types; an archived copy is only recorded once it is there.
TypeOK ==
    /\ row \in [Sessions -> [at : {"none", "stored", "deleted"}, gps : BOOLEAN,
                             batch : {BatchOf[s] : s \in Sessions} \cup {NoBatch},
                             track : (UNION {NamesAt[s] : s \in Sessions}) \cup {Null, Blank},
                             blob : BOOLEAN, path : BOOLEAN, analysed : {"no", "old", "current"}]]
    /\ \A s \in Sessions : row[s].path => s \in archive

\* "`--clear-blobs` will not touch a session whose raw data it cannot account
\* for" (backfill_analysis.py:17-18): whatever runs and ingests overlap and
\* wherever they are killed, the raw telemetry of a session there is can be read
\* back by the next run, from its row, the archive or its upload.  "A blob-only
\* query means that the moment it succeeds it can never analyse anything again"
\* (backfill_analysis.py:66-68).
RawReadable ==
    \A s \in Sessions : Stored(s) =>
        Loadable(s, MetaOf(s))

\* Where people name tracks right and circuits lie further apart than the radius
\* ("comfortably less than the distance to the next circuit", track_naming.py:37),
\* a name that was inferred is right too, through any chain of sessions named after
\* each other, longer than the radius as it may get: "a session labelled with the
\* wrong circuit is a lap time compared against the wrong reference" (97-98).
NamesRight ==
    \A s \in Sessions : ~Unknown(row[s].track) =>
        \E r \in Sessions : CircuitOf[r] = CircuitOf[s] /\ row[s].track \in NamesAt[r]

\* "A name the uploader typed is never overwritten" (track_naming.py:154): a name
\* changes by a person's edit or with the session, never by a job that has read
\* the row before the name was typed.
NamesStand ==
    [][\A s \in Sessions : (~Unknown(row[s].track) /\ row'[s].track # row[s].track) =>
          UNCHANGED job]_vars
=============================================================================
