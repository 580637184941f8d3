---------------------------- MODULE UploadBatches ----------------------------
(***************************************************************************)
(* What the upload pipeline promises to the person who uploaded a file,    *)
(* with no worker, claim or database in sight: a batch waits, is worked    *)
(* on, and settles; the sessions of a file reach the library only while    *)
(* its batch is being worked on; a batch settles as complete only with     *)
(* every session of its file in the library; and what has settled stays.   *)
(* supabase/migrations/0003 states the lifecycle ("pending -> processing   *)
(* -> complete | failed"), worker/queue.py adds the way back to pending.   *)
(***************************************************************************)
EXTENDS FiniteSets

CONSTANTS
    Batches,    \* the rows of upload_batches
    Sessions,   \* session identities: source file, index in it, start time
    Drivers,    \* the driver profiles a file can be filed under
    NoDriver,   \* a batch whose driver is to be decided per session, later
    Wanted,     \* Wanted[b]: the identities of the sessions in b's file
    DriverOf    \* DriverOf[b]: whom b's sessions are filed under

VARIABLES
    status,     \* upload_batches.status; "absent" before the row exists
    stored      \* the library, as a set of [key, driver]

vars == <<status, stored>>

Settled == {"complete", "failed"}

Entry == [key: Sessions, driver: Drivers \cup {NoDriver}]

\* Duplicate detection: a batch without a driver matches any driver's copy.
InLibrary(k, d) == \E e \in stored : e.key = k /\ (d = NoDriver \/ e.driver = d)

-----------------------------------------------------------------------------

Init ==
    /\ status = [b \in Batches |-> "absent"]
    /\ stored = {}

Submit(b) ==
    /\ status[b] = "absent"
    /\ status' = [status EXCEPT ![b] = "pending"]
    /\ UNCHANGED stored

Start(b) ==
    /\ status[b] = "pending"
    /\ status' = [status EXCEPT ![b] = "processing"]
    /\ UNCHANGED stored

\* One session of the file is stored, once.
Store(b, k) ==
    /\ status[b] = "processing"
    /\ k \in Wanted[b]
    /\ ~InLibrary(k, DriverOf[b])
    /\ stored' = stored \cup {[key |-> k, driver |-> DriverOf[b]]}
    /\ UNCHANGED status

\* Batches nobody works on any more go back to the queue.
GiveUp(S) ==
    /\ S # {}
    /\ \A b \in S : status[b] = "processing"
    /\ status' = [b \in Batches |-> IF b \in S THEN "pending" ELSE status[b]]
    /\ UNCHANGED stored

Complete(b) ==
    /\ status[b] = "processing"
    /\ \A k \in Wanted[b] : InLibrary(k, DriverOf[b])
    /\ status' = [status EXCEPT ![b] = "complete"]
    /\ UNCHANGED stored

Fail(b) ==
    /\ status[b] = "processing"
    /\ status' = [status EXCEPT ![b] = "failed"]
    /\ UNCHANGED stored

Next ==
    \/ \E b \in Batches : Submit(b) \/ Start(b) \/ Complete(b) \/ Fail(b)
    \/ \E b \in Batches, k \in Sessions : Store(b, k)
    \/ \E S \in SUBSET Batches : GiveUp(S)

Spec == Init /\ [][Next]_vars

=============================================================================
