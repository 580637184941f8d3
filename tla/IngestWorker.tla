---------------------------- MODULE IngestWorker ----------------------------
(***************************************************************************)
(* The web upload pipeline: the queue table upload_batches, the worker     *)
(* processes that drain it (worker/main.py, queue.py, processor.py) and    *)
(* the library rows they write (telemetry/storage.py, post_ingest.py,      *)
(* accounts.py).  Every database transaction of a worker is one action,    *)
(* so workers, uploaders, the stale-claim sweep and kills interleave       *)
(* exactly where the code lets them.                                       *)
(***************************************************************************)
EXTENDS Integers, Sequences, FiniteSets

CONSTANTS
    Workers,      \* worker processes
    Batches,      \* upload_batches rows, numbered in created_at order
    Sessions,     \* session identities: source file, index, start time
    Drivers,      \* driver profiles (their display names taken as distinct)
    NoDriver,     \* driver_profile_id IS NULL
    NoBatch,      \* upload_batch_id IS NULL; a worker's job when it has none
    Content,      \* Content[b]: the sessions load_sessions finds in b's file
    DriverOf,     \* DriverOf[b]: upload_batches.driver_profile_id
    Claimant,     \* the registered profile a placeholder's sessions move to
    Placeholders, \* the drivers that are unclaimed placeholder profiles
    Timely,       \* no live worker holds a claim past the 30 minute limit
    MaxStops      \* bound: how often worker processes stop, in total

ASSUME ConstantsOK ==
    /\ IsFiniteSet(Workers)
    /\ Batches \subseteq Nat
    /\ NoDriver \notin Drivers
    /\ NoBatch \notin Batches
    /\ Content \in [Batches -> Seq(Sessions)]
    /\ DriverOf \in [Batches -> Drivers \cup {NoDriver}]
    /\ Placeholders \subseteq Drivers
    /\ Claimant \in Drivers \ Placeholders
    /\ Timely \in BOOLEAN
    /\ MaxStops \in Nat

VARIABLES
    status,      \* upload_batches.status; "absent" before the row exists
    claimed,     \* claimed_at: NULL, under 30 minutes old, or older
    created,     \* sessions_created; -1 for NULL
    error,       \* error_message IS NOT NULL
    pc,          \* where each worker process is
    job,         \* the batch it claimed
    at,          \* index of the session its loop is at
    row,         \* its session_db_id: position in library, 0 for none
    made,        \* its local count `created`
    library,     \* the sessions table, in insertion order
    stops,       \* how often worker processes have stopped
    calm         \* nothing goes wrong from here on: no best-effort step or
                 \* database call fails, no process stops (chosen at the start)

queueVars  == <<status, claimed, created, error>>
workerVars == <<pc, job, at, row, made>>
vars == <<status, claimed, created, error, pc, job, at, row, made, library, stops, calm>>

Status  == {"absent", "pending", "processing", "complete", "failed"}
Settled == {"complete", "failed"}
Busy    == {"fetch", "find", "save", "link", "finish", "attribute", "fail"}
PC      == {"down", "boot", "poll", "between"} \cup Busy

\* A sessions row.  `profile` is driver_profile_id, `driver` the name filed
\* with it, `batch` upload_batch_id, `analysed` whether session_analysis has
\* its row.
Row == [key: Sessions, driver: Drivers \cup {NoDriver},
        profile: Drivers \cup {NoDriver},
        batch: Batches \cup {NoBatch}, analysed: BOOLEAN]

TypeOK ==
    /\ status \in [Batches -> Status]
    /\ claimed \in [Batches -> {"null", "recent", "old"}]
    /\ created \in [Batches -> Nat \cup {-1}]
    /\ error \in [Batches -> BOOLEAN]
    /\ pc \in [Workers -> PC]
    /\ job \in [Workers -> Batches \cup {NoBatch}]
    /\ at \in [Workers -> Nat \ {0}]
    /\ row \in [Workers -> Nat]
    /\ made \in [Workers -> Nat]
    /\ library \in Seq(Row)
    /\ stops \in 0..MaxStops
    /\ calm \in BOOLEAN

Holds(w, b) == pc[w] \in Busy /\ job[w] = b

Current(w) == Content[job[w]][at[w]]

\* Mutant of Matches: only sessions linked to a batch are looked at.
MatchesLinked(r, k, d) == r.key = k /\ r.batch # NoBatch /\ (d = NoDriver \/ r.driver = d)

\* find_session: the driver is matched only when the batch names one.
Matches(r, k, d) == r.key = k /\ (d = NoDriver \/ r.driver = d)

Stored(k, d) == \E i \in 1..Len(library) : Matches(library[i], k, d)

-----------------------------------------------------------------------------

Init ==
    /\ status  = [b \in Batches |-> "absent"]
    /\ claimed = [b \in Batches |-> "null"]
    /\ created = [b \in Batches |-> -1]
    /\ error   = [b \in Batches |-> FALSE]
    /\ pc      = [w \in Workers |-> "down"]
    /\ job     = [w \in Workers |-> NoBatch]
    /\ at      = [w \in Workers |-> 1]
    /\ row     = [w \in Workers |-> 0]
    /\ made    = [w \in Workers |-> 0]
    /\ library = <<>>
    /\ stops   = 0
    /\ calm \in BOOLEAN

\* POST /api/uploads/confirm queues a file that has reached Storage.
Submit(b) ==
    /\ status[b] = "absent"
    /\ \A c \in Batches : c < b => status[c] # "absent"
    /\ status' = [status EXCEPT ![b] = "pending"]
    /\ UNCHANGED <<claimed, created, error, workerVars, library, stops, calm>>

\* Thirty minutes pass since b was claimed.
Age(b) ==
    /\ status[b] = "processing" /\ claimed[b] = "recent"
    /\ Timely => \A w \in Workers : ~Holds(w, b)
    /\ claimed' = [claimed EXCEPT ![b] = "old"]
    /\ UNCHANGED <<status, created, error, workerVars, library, stops, calm>>

-----------------------------------------------------------------------------
\* The worker's main loop.

Goto(w, label) == pc' = [pc EXCEPT ![w] = label]

\* Mutant of Release: the loop restarts one before the first session.
ReleaseAtZero(w, label) ==
    /\ Goto(w, label)
    /\ job' = [job EXCEPT ![w] = NoBatch]
    /\ at' = [at EXCEPT ![w] = 0]
    /\ row' = [row EXCEPT ![w] = 0]
    /\ made' = [made EXCEPT ![w] = 0]

Release(w, label) ==
    /\ Goto(w, label)
    /\ job' = [job EXCEPT ![w] = NoBatch]
    /\ at' = [at EXCEPT ![w] = 1]
    /\ row' = [row EXCEPT ![w] = 0]
    /\ made' = [made EXCEPT ![w] = 0]

Start(w) ==
    /\ pc[w] = "down"
    /\ Goto(w, "boot")
    /\ UNCHANGED <<queueVars, job, at, row, made, library, stops, calm>>

\* Mutant of Sweep: the age of a claim is not looked at.
SweepEverything(w) ==
    /\ pc[w] \in {"boot", "between"}
    /\ LET Stale == {b \in Batches : status[b] = "processing"}
       IN  /\ status' = [b \in Batches |-> IF b \in Stale THEN "pending" ELSE status[b]]
           /\ claimed' = [b \in Batches |-> IF b \in Stale THEN "null" ELSE claimed[b]]
    /\ Goto(w, "poll")
    /\ UNCHANGED <<created, error, job, at, row, made, library, stops, calm>>

\* Mutant of Sweep: only done when the process starts.
SweepAtBootOnly(w) ==
    /\ pc[w] = "boot"
    /\ LET Stale == {b \in Batches : status[b] = "processing" /\ claimed[b] = "old"}
       IN  /\ status' = [b \in Batches |-> IF b \in Stale THEN "pending" ELSE status[b]]
           /\ claimed' = [b \in Batches |-> IF b \in Stale THEN "null" ELSE claimed[b]]
    /\ Goto(w, "poll")
    /\ UNCHANGED <<created, error, job, at, row, made, library, stops, calm>>

\* requeue_stale_processing, at startup and at most every ten minutes
\* between drains.
Sweep(w) ==
    /\ pc[w] \in {"boot", "between"}
    /\ LET Stale == {b \in Batches : status[b] = "processing" /\ claimed[b] = "old"}
       IN  /\ status' = [b \in Batches |-> IF b \in Stale THEN "pending" ELSE status[b]]
           /\ claimed' = [b \in Batches |-> IF b \in Stale THEN "null" ELSE claimed[b]]
    /\ Goto(w, "poll")
    /\ UNCHANGED <<created, error, job, at, row, made, library, stops, calm>>

\* Less than ten minutes since the last sweep: just poll again.
Nap(w) ==
    /\ pc[w] = "between"
    /\ Goto(w, "poll")
    /\ UNCHANGED <<queueVars, job, at, row, made, library, stops, calm>>

\* claim_next_batch finds nothing: run_once returns.
Drained(w) ==
    /\ pc[w] = "poll"
    /\ \A b \in Batches : status[b] # "pending"
    /\ Goto(w, "between")
    /\ UNCHANGED <<queueVars, job, at, row, made, library, stops, calm>>

\* claim_next_batch takes the oldest pending row.  SKIP LOCKED passes over a
\* row that another polling worker has locked and not yet committed.
Claim(w, b) ==
    /\ pc[w] = "poll"
    /\ status[b] = "pending"
    /\ Cardinality({c \in Batches : c < b /\ status[c] = "pending"})
           <= Cardinality({v \in Workers \ {w} : pc[v] = "poll"})
    /\ status' = [status EXCEPT ![b] = "processing"]
    /\ claimed' = [claimed EXCEPT ![b] = "recent"]
    /\ Goto(w, "fetch")
    /\ job' = [job EXCEPT ![w] = b]
    /\ UNCHANGED <<created, error, at, row, made, library, stops, calm>>

\* SIGTERM between two batches, or a kill or a crash anywhere: the process is
\* gone with its locals, the tables keep what was committed.
Stop(w) ==
    /\ pc[w] # "down"
    /\ ~calm /\ stops < MaxStops
    /\ stops' = stops + 1
    /\ Release(w, "down")
    /\ UNCHANGED <<queueVars, library, calm>>

-----------------------------------------------------------------------------
\* process_batch, one transaction at a time.

\* The file is downloaded, unpacked and parsed into at least one session.
Fetch(w) ==
    /\ pc[w] = "fetch"
    /\ Content[job[w]] # <<>>
    /\ Goto(w, "find")
    /\ UNCHANGED <<queueVars, job, at, row, made, library, stops, calm>>

\* BatchFailed while reading the file, or any database error the loop does
\* not swallow.
Raise(w) ==
    /\ \/ pc[w] = "fetch"
       \/ ~calm /\ pc[w] \in {"save", "attribute"}
       \/ ~calm /\ pc[w] = "find" /\ at[w] <= Len(Content[job[w]])
    /\ Goto(w, "fail")
    /\ UNCHANGED <<queueVars, job, at, row, made, library, stops, calm>>

\* find_session: skip a session the library already has.
Find(w) ==
    /\ pc[w] = "find"
    /\ at[w] <= Len(Content[job[w]])
    /\ IF Stored(Current(w), DriverOf[job[w]])
       THEN at' = [at EXCEPT ![w] = @ + 1] /\ UNCHANGED pc
       ELSE Goto(w, "save") /\ UNCHANGED at
    /\ UNCHANGED <<queueVars, job, row, made, library, stops, calm>>

\* Mutant of Save: a failed save is swallowed and the loop goes on.
SaveSwallowingErrors(w) ==
    /\ pc[w] = "save"
    /\ \/ /\ library' = Append(library,
                               [key |-> Current(w), driver |-> DriverOf[job[w]],
                                profile |-> DriverOf[job[w]],
                                batch |-> NoBatch, analysed |-> FALSE])
          /\ row' = [row EXCEPT ![w] = Len(library) + 1]
          /\ Goto(w, "link")
          /\ UNCHANGED <<at, made>>
       \/ /\ ~calm
          /\ at' = [at EXCEPT ![w] = @ + 1]
          /\ made' = [made EXCEPT ![w] = @ + 1]
          /\ Goto(w, "find")
          /\ UNCHANGED <<library, row>>
    /\ UNCHANGED <<queueVars, job, stops, calm>>

\* save_session: row, cached dataframe and laps in one transaction.
Save(w) ==
    /\ pc[w] = "save"
    /\ library' = Append(library,
                         [key |-> Current(w), driver |-> DriverOf[job[w]],
                          profile |-> DriverOf[job[w]],
                          batch |-> NoBatch, analysed |-> FALSE])
    /\ row' = [row EXCEPT ![w] = Len(library) + 1]
    /\ Goto(w, "link")
    /\ UNCHANGED <<queueVars, job, at, made, stops, calm>>

\* _link_to_batch: best-effort, an error leaves the row unlinked.
Link(w) ==
    /\ pc[w] = "link"
    /\ \/ library' = [library EXCEPT ![row[w]].batch = job[w]]
       \/ ~calm /\ UNCHANGED library
    /\ Goto(w, "finish")
    /\ UNCHANGED <<queueVars, job, at, row, made, stops, calm>>

\* The bottom of the loop body: count the session, go on to the next one.
NextSession(w) ==
    /\ Goto(w, "find")
    /\ at' = [at EXCEPT ![w] = @ + 1]
    /\ row' = [row EXCEPT ![w] = 0]
    /\ made' = [made EXCEPT ![w] = @ + 1]

\* Mutant of Finish: a session without a driver is left before its analysis.
FinishAttributedOnly(w) ==
    /\ pc[w] = "finish"
    /\ IF DriverOf[job[w]] = NoDriver
       THEN NextSession(w) /\ UNCHANGED library
       ELSE /\ library' = [library EXCEPT ![row[w]].analysed = TRUE]
            /\ Goto(w, "attribute")
            /\ UNCHANGED <<at, row, made>>
    /\ UNCHANGED <<queueVars, job, stops, calm>>

\* finish_session: analysis is stored best-effort.  A batch without a driver
\* has no attribution to do.
Finish(w) ==
    /\ pc[w] = "finish"
    /\ \/ library' = [library EXCEPT ![row[w]].analysed = TRUE]
       \/ ~calm /\ UNCHANGED library
    /\ IF DriverOf[job[w]] = NoDriver
       THEN NextSession(w)
       ELSE Goto(w, "attribute") /\ UNCHANGED <<at, row, made>>
    /\ UNCHANGED <<queueVars, job, stops, calm>>

\* attribute_session: files the row under the batch's driver, whatever it is
\* filed under by now.
Attribute(w) ==
    /\ pc[w] = "attribute"
    /\ library' = [library EXCEPT ![row[w]].profile = DriverOf[job[w]]]
    /\ NextSession(w)
    /\ UNCHANGED <<queueVars, job, stops, calm>>

\* Mutant of Complete: the loop ends one session early.
CompleteEarly(w) ==
    /\ pc[w] = "find"
    /\ at[w] >= Len(Content[job[w]])
    /\ status' = [status EXCEPT ![job[w]] = "complete"]
    /\ created' = [created EXCEPT ![job[w]] = made[w]]
    /\ error' = [error EXCEPT ![job[w]] = FALSE]
    /\ Release(w, "poll")
    /\ UNCHANGED <<claimed, library, stops, calm>>

\* Mutant of Complete: an earlier error message stays.
CompleteKeepingError(w) ==
    /\ pc[w] = "find"
    /\ at[w] > Len(Content[job[w]])
    /\ status' = [status EXCEPT ![job[w]] = "complete"]
    /\ created' = [created EXCEPT ![job[w]] = made[w]]
    /\ Release(w, "poll")
    /\ UNCHANGED <<claimed, error, library, stops, calm>>

\* The loop is over: mark_complete, which clears an error and overwrites
\* whatever state the row is in by now.
Complete(w) ==
    /\ pc[w] = "find"
    /\ at[w] > Len(Content[job[w]])
    /\ status' = [status EXCEPT ![job[w]] = "complete"]
    /\ created' = [created EXCEPT ![job[w]] = made[w]]
    /\ error' = [error EXCEPT ![job[w]] = FALSE]
    /\ Release(w, "poll")
    /\ UNCHANGED <<claimed, library, stops, calm>>

\* mark_failed, equally unconditional; sessions_created keeps its value.
Fail(w) ==
    /\ pc[w] = "fail"
    /\ status' = [status EXCEPT ![job[w]] = "failed"]
    /\ error' = [error EXCEPT ![job[w]] = TRUE]
    /\ Release(w, "poll")
    /\ UNCHANGED <<claimed, created, library, stops, calm>>

-----------------------------------------------------------------------------

\* reassign_temp_driver_sessions: a placeholder's driver has registered, and
\* everything filed under the placeholder moves to the registered profile.
Reassign(d) ==
    /\ d \in Placeholders
    /\ \E i \in 1..Len(library) : library[i].profile = d
    /\ library' = [i \in 1..Len(library) |->
                     IF library[i].profile = d
                     THEN [library[i] EXCEPT !.profile = Claimant] ELSE library[i]]
    /\ UNCHANGED <<queueVars, workerVars, stops, calm>>

Process(w) ==
    \/ Fetch(w) \/ Raise(w) \/ Find(w) \/ Save(w) \/ Link(w)
    \/ Finish(w) \/ Attribute(w) \/ Complete(w) \/ Fail(w)

Step(w) ==
    \/ Start(w) \/ Sweep(w) \/ Nap(w) \/ Drained(w) \/ Process(w)
    \/ \E b \in Batches : Claim(w, b)

Next ==
    \/ \E b \in Batches : Submit(b) \/ Age(b)
    \/ \E w \in Workers : Step(w) \/ Stop(w)
    \/ \E d \in Placeholders : Reassign(d)

Spec == Init /\ [][Next]_vars

\* A process runs until it is stopped, the platform restarts it, time passes,
\* and the ten minute timer cannot be put off for ever.
Fairness ==
    /\ \A w \in Workers : WF_vars(Step(w)) /\ SF_vars(Sweep(w))
    /\ \A b \in Batches : WF_vars(Age(b))

FairSpec == Spec /\ Fairness

-----------------------------------------------------------------------------
\* Properties.

InFile(b, k) == \E n \in 1..Len(Content[b]) : Content[b][n] = k

\* A batch reported complete has every session of its file in the library,
\* whichever worker stored it and however often the batch was requeued:
\* mark_complete is reached only at the end of process_batch's loop.
StoredBeforeComplete ==
    \A b \in Batches : status[b] = "complete" =>
        \A n \in 1..Len(Content[b]) : Stored(Content[b][n], DriverOf[b])

\* Two workers are never at work on one batch, and one that is at work still
\* owns its claim: the claim in claim_next_batch, the sweep and the
\* unconditional updates of mark_complete and mark_failed taken together.
OneWorkerPerBatch ==
    \A w \in Workers, b \in Batches : Holds(w, b) =>
        /\ status[b] = "processing" /\ claimed[b] = "recent"
        /\ \A v \in Workers : Holds(v, b) => v = w

\* "Re-uploading the exact same file under the same driver name is a no-op"
\* (README.md:190): no two rows have the same file, index, start time and
\* driver.  This is so of a single worker, and of several that have nothing to
\* race for; two that look at the same time store a session twice.
NoDuplicates ==
    \A i, j \in 1..Len(library) :
        library[i].key = library[j].key /\ library[i].driver = library[j].driver => i = j

Copies(k, d) == {i \in 1..Len(library) : library[i].key = k /\ library[i].driver = d}

\* The workers that are about to save a session, having found none.
Racing(k, d) == {w \in Workers : pc[w] = "save" /\ Current(w) = k /\ DriverOf[job[w]] = d}

\* What NoDuplicates comes to with any workers: find_session and save_session are
\* transactions of their own, so a session that is in the library is stored for
\* its driver again only by workers that had looked before it was, one each: not
\* by a retry after a kill, a swept batch or another upload of the file, however
\* many of these there are.
OnlyRacersDuplicate ==
    \A k \in Sessions, d \in Drivers \cup {NoDriver} : Copies(k, d) # {} =>
        Cardinality(Copies(k, d)) + Cardinality(Racing(k, d)) <= Cardinality(Workers)

\* The uploader is shown an error exactly on a failed batch, even when two
\* workers settle the same batch in either order: mark_complete clears what a
\* late mark_failed left.
ErrorIffFailed == \A b \in Batches : error[b] <=> status[b] = "failed"

\* "Stored n sessions" is never more than the library has of that file, with
\* crashes, requeues and racing workers: sessions_created counts rows saved.
NeverOverclaims ==
    \A b \in Batches :
        created[b] <= Cardinality({i \in 1..Len(library) : InFile(b, library[i].key)})

\* What a completed batch created is linked to it, analysed and filed under
\* its driver, or under the profile a placeholder's sessions moved to, as long
\* as nothing went wrong: after a kill the retry skips what is stored.
CompleteMeansFinished ==
    \A b \in Batches : calm /\ status[b] = "complete" =>
        \A n \in 1..Len(Content[b]) : \E i \in 1..Len(library) :
            /\ Matches(library[i], Content[b][n], DriverOf[b])
            /\ library[i].batch # NoBatch /\ library[i].analysed
            /\ library[i].profile \in {library[i].driver, Claimant}

\* Every uploaded batch settles, through crashes, requeues and other batches:
\* nobody is left watching a spinner.
EveryBatchSettles ==
    \A b \in Batches : status[b] = "pending" ~> status[b] \in Settled

\* With timely workers the pipeline keeps the promise of UploadBatches.
Promise == INSTANCE UploadBatches WITH
    stored <- {[key |-> library[i].key, driver |-> library[i].driver] :
                   i \in 1..Len(library)},
    Wanted <- [b \in Batches |-> {Content[b][n] : n \in 1..Len(Content[b])}]

KeepsPromise == Promise!Spec

=============================================================================
