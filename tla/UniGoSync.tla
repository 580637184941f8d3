----------------------------- MODULE UniGoSync ------------------------------
(***************************************************************************)
(* The sync tool on the driver's laptop: sync passes that copy files from  *)
(* the logger to a staging folder and then upload or queue them            *)
(* (core/sync_engine.py, sync_orchestrator.py), the flushes that drain the *)
(* queue (pending_uploads.py) and the threads of gui_app.py that run both. *)
(* Every SQLite commit, file read and session saved is one action.         *)
(***************************************************************************)
EXTENDS Integers, Sequences, FiniteSets

CONSTANTS
    Passes,      \* threads that can run a sync pass: the button, auto-sync
    Flushers,    \* threads that can run a flush: the poll, "Upload now"
    Nobody,      \* _flush_lock is free
    Names,       \* session files of the logger
    Parts,       \* Parts[n]: how many sessions load_sessions finds in n
    Dated,       \* the files whose name tells when they were recorded
    Unreadable,  \* the files that load_sessions always rejects
    Fails,       \* what else may fail: a subset of {"fetch", "load", "save"}
    MaxVersion,  \* bound: how often a file on the logger is written
    MaxCrashes   \* bound: how often the application is killed

ASSUME ConstantsOK ==
    /\ Passes \cap Flushers = {}
    /\ Nobody \notin Flushers
    /\ IsFiniteSet(Names)
    /\ Parts \in [Names -> Nat \ {0}]
    /\ Dated \subseteq Names /\ Unreadable \subseteq Names
    /\ Fails \subseteq {"fetch", "load", "save"}
    /\ MaxVersion \in Nat \ {0}
    /\ MaxCrashes \in Nat

VARIABLES
    device,      \* the version of each file on the logger, 0 for none
    period,      \* the sync period chosen in the settings
    past,        \* files recorded before today
    online,      \* the sessions database can be reached
    synced,      \* sync_state.db: size recorded with "success", 0 if none
    staged,      \* the version of each file in the staging folder
    queue,       \* pending_uploads.db, oldest first: file and staged version
    copies,      \* how often a session is in the library: 0, 1 or 2 (more)
    lock,        \* _flush_lock
    pc,          \* where each thread is
    todo,        \* what its loop has left
    fresh,       \* a pass's result.new_synced
    ver,         \* the version of the file it has loaded
    part,        \* the session of that file it is at
    crashes

diskVars   == <<synced, staged, queue>>
threadVars == <<pc, todo, fresh, ver, part>>
world == <<device, period, past, online>>
vars == <<device, period, past, online, synced, staged, queue, copies, lock,
          pc, todo, fresh, ver, part, crashes>>

Threads  == Passes \cup Flushers
Versions == 1..MaxVersion
Items    == UNION {{n} \X Versions \X (1..Parts[n]) : n \in Names}

\* core/period.py, of which the two periods in between are left out.
SyncPeriods == {"today", "all"}

NamesIn(s) == {s[i].name : i \in 1..Len(s)}

\* The place of the row of that name: the name is the table's primary key.
RowOf(s, n) == CHOOSE i \in 1..Len(s) : s[i].name = n
Without(s, n) ==
    IF n \notin NamesIn(s) THEN s
    ELSE [i \in 1..(Len(s) - 1) |-> IF i < RowOf(s, n) THEN s[i] ELSE s[i + 1]]

Current(t) == Head(todo[t])

-----------------------------------------------------------------------------

Init ==
    /\ device = [n \in Names |-> 0]
    /\ period = "today"
    /\ past = {}
    /\ online \in BOOLEAN
    /\ synced = [n \in Names |-> 0]
    /\ staged = [n \in Names |-> 0]
    /\ queue = <<>>
    /\ copies = [i \in Items |-> 0]
    /\ lock = Nobody
    /\ pc = [t \in Threads |-> "idle"]
    /\ todo = [t \in Threads |-> <<>>]
    /\ fresh = [t \in Threads |-> <<>>]
    /\ ver = [t \in Threads |-> 0]
    /\ part = [t \in Threads |-> 1]
    /\ crashes = 0

\* The logger writes a file, or a file of the same name with another size.
Drive(n) ==
    /\ device[n] < MaxVersion
    /\ device' = [device EXCEPT ![n] = @ + 1]
    /\ UNCHANGED <<period, past, online, diskVars, copies, lock, threadVars, crashes>>

\* A day goes by: what was recorded before is not of today any more.
Midnight ==
    /\ past' = {n \in Dated : device[n] # 0}
    /\ UNCHANGED <<device, period, online, diskVars, copies, lock, threadVars, crashes>>

\* The settings screen, where auto-sync too takes its period from.
ChoosePeriod ==
    /\ period' \in SyncPeriods
    /\ UNCHANGED <<device, past, online, diskVars, copies, lock, threadVars, crashes>>

\* The laptop leaves or joins a network with a route to the database.
Toggle ==
    /\ online' = ~online
    /\ UNCHANGED <<device, period, past, diskVars, copies, lock, threadVars, crashes>>

\* The application is killed; what is on disk and in the database stays.
Crash ==
    /\ crashes < MaxCrashes
    /\ crashes' = crashes + 1
    /\ lock' = Nobody
    /\ pc' = [t \in Threads |-> "idle"]
    /\ todo' = [t \in Threads |-> <<>>]
    /\ fresh' = [t \in Threads |-> <<>>]
    /\ ver' = [t \in Threads |-> 0]
    /\ part' = [t \in Threads |-> 1]
    /\ UNCHANGED <<world, diskVars, copies>>

-----------------------------------------------------------------------------
\* A sync pass, first half: run_sync.

Goto(t, label) == pc' = [pc EXCEPT ![t] = label]

\* On to the next entry of the loop.
NextEntry(t, label) ==
    /\ Goto(t, label)
    /\ todo' = [todo EXCEPT ![t] = Tail(@)]

\* session_in_period: a name that tells no date is always in.
InPeriod(n) == period = "all" \/ n \notin past

\* What a pass works on, listed in whatever order the logger has it.
Listed == {n \in Names : device[n] # 0 /\ InPeriod(n)}
Listings ==
    {l \in [1..Cardinality(Listed) -> Listed] :
        \A i, j \in 1..Cardinality(Listed) : l[i] = l[j] => i = j}

\* Each file comes with the size it has now.
StartSync(p) ==
    /\ pc[p] = "idle"
    /\ Goto(p, "check")
    /\ \E l \in Listings :
          todo' = [todo EXCEPT ![p] =
              [i \in 1..Cardinality(Listed) |-> [name |-> l[i], size |-> device[l[i]]]]]
    /\ UNCHANGED <<world, diskVars, copies, lock, fresh, ver, part, crashes>>

\* is_synced: skip a file recorded as synced with the listed size.
Check(p) ==
    /\ pc[p] = "check" /\ todo[p] # <<>>
    /\ IF synced[Current(p).name] = Current(p).size
       THEN NextEntry(p, "check")
       ELSE Goto(p, "fetch") /\ UNCHANGED todo
    /\ UNCHANGED <<world, diskVars, copies, lock, fresh, ver, part, crashes>>

\* Download, decode and write the file as it is on the logger by now.
Fetch(p) ==
    /\ pc[p] = "fetch"
    /\ staged' = [staged EXCEPT ![Current(p).name] = device[Current(p).name]]
    /\ Goto(p, "record")
    /\ UNCHANGED <<world, synced, queue, copies, lock, todo, fresh, ver, part,
                   crashes>>

\* record_attempt: one row for each name, with the outcome of the last attempt.
RecordAttempt(n, size) == synced' = [synced EXCEPT ![n] = size]

\* A failed download or decode is recorded, which forgets a success.
FetchFails(p) ==
    /\ pc[p] = "fetch" /\ "fetch" \in Fails
    /\ RecordAttempt(Current(p).name, 0)
    /\ NextEntry(p, "check")
    /\ UNCHANGED <<world, staged, queue, copies, lock, fresh, ver, part, crashes>>

\* record_attempt "success", with the size the listing gave.
Record(p) ==
    /\ pc[p] = "record"
    /\ RecordAttempt(Current(p).name, Current(p).size)
    /\ fresh' = [fresh EXCEPT ![p] = Append(@, Current(p))]
    /\ NextEntry(p, "check")
    /\ UNCHANGED <<world, staged, queue, copies, lock, ver, part, crashes>>

-----------------------------------------------------------------------------
\* A sync pass, second half: sync_and_upload.

\* Mutant of Probe: offline, the new files are left to a later pass.
ProbeLeaving(p) ==
    /\ pc[p] = "check" /\ todo[p] = <<>>
    /\ IF fresh[p] = <<>> \/ ~online THEN Goto(p, "idle") ELSE Goto(p, "load")
    /\ todo' = [todo EXCEPT ![p] = IF online THEN fresh[p] ELSE <<>>]
    /\ fresh' = [fresh EXCEPT ![p] = <<>>]
    /\ UNCHANGED <<world, diskVars, copies, lock, ver, part, crashes>>

\* run_sync is done: upload what is new, or queue all of it when offline.
Probe(p) ==
    /\ pc[p] = "check" /\ todo[p] = <<>>
    /\ IF fresh[p] = <<>> THEN Goto(p, "idle")
       ELSE IF online THEN Goto(p, "load") ELSE Goto(p, "park")
    /\ todo' = [todo EXCEPT ![p] = fresh[p]]
    /\ fresh' = [fresh EXCEPT ![p] = <<>>]
    /\ UNCHANGED <<world, diskVars, copies, lock, ver, part, crashes>>

\* PendingUploadQueue.add: INSERT OR REPLACE, with a new queued_at.
Add(n) == queue' = Append(Without(queue, n), [name |-> n, size |-> staged[n]])

Park(p) ==
    /\ pc[p] = "park"
    /\ Add(Current(p).name)
    /\ IF Tail(todo[p]) = <<>> THEN NextEntry(p, "idle") ELSE NextEntry(p, "park")
    /\ UNCHANGED <<world, synced, staged, copies, lock, fresh, ver, part, crashes>>

\* The except clause of the upload loop: queue it rather than lose it.
Requeue(p) ==
    /\ pc[p] = "requeue"
    /\ Add(Current(p).name)
    /\ NextEntry(p, "load")
    /\ UNCHANGED <<world, synced, staged, copies, lock, fresh, ver, part, crashes>>

-----------------------------------------------------------------------------
\* flush_pending_uploads, under _flush_lock.

\* Mutant of StartFlush: no lock.
StartFlushUnlocked(f) ==
    /\ pc[f] = "idle"
    /\ Goto(f, "list")
    /\ UNCHANGED <<world, diskVars, copies, lock, todo, fresh, ver, part, crashes>>

StartFlush(f) ==
    /\ pc[f] = "idle" /\ lock = Nobody
    /\ lock' = f
    /\ Goto(f, "list")
    /\ UNCHANGED <<world, diskVars, copies, todo, fresh, ver, part, crashes>>

\* Mutant of List: the queue is emptied into the flush's own list.
ListTaking(f) ==
    /\ pc[f] = "list"
    /\ Goto(f, "load")
    /\ todo' = [todo EXCEPT ![f] = IF online THEN queue ELSE <<>>]
    /\ queue' = IF online THEN <<>> ELSE queue
    /\ UNCHANGED <<world, synced, staged, copies, lock, fresh, ver, part, crashes>>

\* list_pending and probe: nothing to do when offline.
List(f) ==
    /\ pc[f] = "list"
    /\ Goto(f, "load")
    /\ todo' = [todo EXCEPT ![f] = IF online THEN queue ELSE <<>>]
    /\ UNCHANGED <<world, diskVars, copies, lock, fresh, ver, part, crashes>>

\* The row of that name goes, whichever it is by now.
Remove(f) ==
    /\ pc[f] = "remove"
    /\ queue' = Without(queue, Current(f).name)
    /\ NextEntry(f, "load")
    /\ UNCHANGED <<world, synced, staged, copies, lock, fresh, ver, part, crashes>>

\* The loop is over, of a pass or of a flush.
Finish(t) ==
    /\ pc[t] = "load" /\ todo[t] = <<>>
    /\ Goto(t, "idle")
    /\ lock' = IF t \in Flushers THEN Nobody ELSE lock
    /\ UNCHANGED <<world, diskVars, copies, todo, fresh, ver, part, crashes>>

-----------------------------------------------------------------------------
\* ingest_one, for a pass and for a flush.

\* Mutant of GiveUp: the first error ends a flush.
GiveUpAll(t) ==
    IF t \in Passes THEN Goto(t, "requeue") /\ UNCHANGED todo
    ELSE Goto(t, "load") /\ todo' = [todo EXCEPT ![t] = <<>>]

\* The exception reaches the caller's loop: a pass queues the file, a flush
\* leaves it queued; both go on with the next.
GiveUp(t) ==
    IF t \in Passes THEN Goto(t, "requeue") /\ UNCHANGED todo
    ELSE NextEntry(t, "load")

\* load_sessions reads the staged file.
Load(t) ==
    /\ pc[t] = "load" /\ todo[t] # <<>>
    /\ Current(t).name \notin Unreadable
    /\ ver' = [ver EXCEPT ![t] = staged[Current(t).name]]
    /\ part' = [part EXCEPT ![t] = 1]
    /\ Goto(t, "save")
    /\ UNCHANGED <<world, diskVars, copies, lock, todo, fresh, crashes>>

LoadFails(t) ==
    /\ pc[t] = "load" /\ todo[t] # <<>>
    /\ Current(t).name \in Unreadable \/ "load" \in Fails
    /\ GiveUp(t)
    /\ UNCHANGED <<world, diskVars, copies, lock, fresh, ver, part, crashes>>

\* save_session commits one session; no find_session comes before it.
Save(t) ==
    /\ pc[t] = "save"
    /\ LET n == Current(t).name
       IN  /\ copies' = [copies EXCEPT ![<<n, ver[t], part[t]>>] = IF @ = 2 THEN 2 ELSE @ + 1]
           /\ IF part[t] < Parts[n]
              THEN part' = [part EXCEPT ![t] = @ + 1] /\ UNCHANGED <<pc, todo>>
              ELSE /\ part' = [part EXCEPT ![t] = 1]
                   /\ IF t \in Passes THEN NextEntry(t, "load") ELSE Goto(t, "remove") /\ UNCHANGED todo
    /\ ver' = [ver EXCEPT ![t] = IF part[t] < Parts[Current(t).name] THEN @ ELSE 0]
    /\ UNCHANGED <<world, diskVars, lock, fresh, crashes>>

SaveFails(t) ==
    /\ pc[t] = "save" /\ "save" \in Fails
    /\ GiveUp(t)
    /\ ver' = [ver EXCEPT ![t] = 0]
    /\ part' = [part EXCEPT ![t] = 1]
    /\ UNCHANGED <<world, diskVars, copies, lock, fresh, crashes>>

-----------------------------------------------------------------------------

Ingest(t) == Load(t) \/ LoadFails(t) \/ Save(t) \/ SaveFails(t) \/ Finish(t)

Sync(p) ==
    \/ StartSync(p) \/ Check(p) \/ Fetch(p) \/ FetchFails(p) \/ Record(p)
    \/ Probe(p) \/ Park(p) \/ Requeue(p) \/ Ingest(p)

Flush(f) == StartFlush(f) \/ List(f) \/ Remove(f) \/ Ingest(f)

Next ==
    \/ \E n \in Names : Drive(n)
    \/ Midnight \/ ChoosePeriod \/ Toggle \/ Crash
    \/ \E p \in Passes : Sync(p)
    \/ \E f \in Flushers : Flush(f)

Spec == Init /\ [][Next]_vars

\* Auto-sync and the poll come round again and again, and a download, a parse
\* or a save that is retried for ever, by whatever thread, succeeds in the end.
Fairness ==
    /\ \A p \in Passes : WF_vars(Sync(p))
    /\ \A f \in Flushers : WF_vars(Flush(f))
    /\ \A n \in Names : SF_vars(\E p \in Passes : Fetch(p) /\ Current(p).name = n)
    /\ \A n \in Names \ Unreadable :
           /\ SF_vars(\E t \in Threads : Load(t) /\ Current(t).name = n)
           /\ \A k \in 1..Parts[n] :
                  SF_vars(\E t \in Threads :
                              Save(t) /\ Current(t).name = n /\ part[t] = k)

FairSpec == Spec /\ Fairness

-----------------------------------------------------------------------------
\* Properties.

\* All sessions of n, as it was at version v or later, are in the library.
Arrived(n, v) ==
    \E u \in v..MaxVersion : \A k \in 1..Parts[n] : copies[<<n, u, k>>] > 0

\* A pass still has n in hand.
InHand(n) ==
    \E p \in Passes : \/ n \in NamesIn(fresh[p])
                      \/ pc[p] \in {"load", "save", "requeue", "park"} /\ n \in NamesIn(todo[p])

\* A file that is recorded as synced, and so never fetched again, is in the
\* library, in the queue, or in the hands of a running pass, as long as the
\* logger has not written it again and the application is not killed: "queue
\* it rather than lose it" in sync_and_upload. (Killed between the record and
\* the queue, it is lost.)
NothingLost ==
    crashes = 0 => \A n \in Names : synced[n] # 0 /\ device[n] = 1 =>
        Arrived(n, synced[n]) \/ n \in NamesIn(queue) \/ InHand(n)

\* A file that was uploaded to its last session is not uploaded again,
\* whichever of a pass, the background poll and the "Upload now" button gets to
\* it: what _flush_lock is there for, and what record_attempt and the queue's
\* primary key add to it. (Not so after a kill between the last save and the
\* removal from the queue, nor when the logger writes the file again; and when
\* a later session fails to save, the retry saves the earlier ones again.)
NoDoubleUpload ==
    crashes = 0 => \A n \in Names : device[n] = 1 => copies[<<n, 1, Parts[n]>>] <= 1

\* A queued file leaves the queue only with all its sessions in the library,
\* unless the logger has written it again (then a flush can remove the newer
\* row by its name).
QueuedUntilUploaded ==
    [][\A e \in {queue[i] : i \in 1..Len(queue)} :
           e.name \notin NamesIn(queue') /\ device'[e.name] = 1
               => Arrived(e.name, e.size)']_vars

\* Once the database stays reachable, every readable file of the logger that
\* stays in the chosen period, or was downloaded, gets into the library with
\* no action of the user, unless the application is killed: downloads and
\* uploads are retried, and one file that never uploads does not hold up the
\* others.  (A file that could not be downloaded by midnight is out of "today
\* only", the default, for manual and automatic passes until another period
\* is chosen.)
EverythingArrives ==
    \A n \in Names \ Unreadable :
        <>[](online /\ (InPeriod(n) \/ synced[n] # 0))
            => (device[n] # 0 ~> Arrived(n, 1) \/ crashes > 0)

=============================================================================
