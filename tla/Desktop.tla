------------------------------- MODULE Desktop -------------------------------
(***************************************************************************)
(* The window of the laptop tool (platform_windows/gui_app.py): signing in *)
(* and out, the login remembered in a file (core/auth_cache.py), the       *)
(* driver and period chosen, the sync button, and the threads that report  *)
(* back to the main thread through root.after.  A handler of the main      *)
(* thread is one action; a thread takes one step per call it makes.  What  *)
(* a pass does with the files is UniGoSync.  Whether a network call gets   *)
(* through is a choice at each call.                                       *)
(***************************************************************************)
EXTENDS Integers, Sequences, SequencesExt

CONSTANTS
    Drivers,
    Logins,       \* login sessions: each stands for a user and a token
    Own,          \* Own[l]: the claimed profile of its user, NoDriver if none
    MaxSigning,   \* bound: login_worker threads at once
    Workers,      \* preview and sync threads there can be at once
    Uploaders,    \* threads of "Upload now" there can be at once
    Out, NoDriver,
    MaxPosted     \* bound: callbacks waiting when a thread is started

ASSUME DesktopConstantsOK ==
    /\ Out \notin Logins /\ NoDriver \notin Drivers
    /\ Own \in [Logins -> Drivers \cup {NoDriver}]
    /\ {MaxSigning, MaxPosted} \subseteq Nat \ {0}

VARIABLES
    roster,       \* unclaimed and invited profiles on the server, in order
    live,         \* of the tokens in use, those the server takes
    cache,        \* the file of auth_cache: none, or one record
    screen,       \* "off", "login", "settings", "leaving"; "half": a settings
                  \* screen whose list of drivers could not be read
    mem,          \* self.user_id and self.session_token
    shown,        \* whom the label "Signed in as" of the screen names
    choices,      \* self.driver_choices
    pick,         \* what _selected_driver returns
    period,       \* self._period_var
    button,       \* is the current sync button enabled
    upload,       \* is the current "Upload now" button enabled
    auto, snap,   \* _auto_sync_enabled, _selected_driver_snapshot
    asking,       \* open "Sync everything?" dialogs
    signing,      \* how many login_worker threads run
    worker,       \* [Workers -> "idle", "preview", "sync", or "dead" of a raise]
    flushing,     \* [Uploaders -> is a _manual_flush_worker running]
    back,         \* the background thread: "none", "wait", "sync", or "raised" and
                  \* waiting
    ui            \* callbacks posted with root.after, oldest first

form    == <<shown, choices, pick, period, button, upload>>
copies  == <<auto, snap>>
threads == <<signing, worker, flushing, back>>
vars    == <<roster, live, cache, screen, mem, form, copies, asking, threads, ui>>

NoCache  == <<>>
Periods  == {"today", "all"}
Offered(l) == (IF Own[l] = NoDriver THEN <<>> ELSE <<Own[l]>>) \o roster
First(s)   == IF s = <<>> THEN NoDriver ELSE Head(s)

Init ==
    /\ roster = <<>> /\ live = {}
    /\ cache = NoCache
    /\ screen = "off" /\ mem = Out
    /\ shown = Out
    /\ choices = <<>> /\ pick = NoDriver /\ period = "today" /\ button = TRUE
    /\ upload = TRUE
    /\ auto = FALSE /\ snap = NoDriver
    /\ asking = 0
    /\ signing = 0
    /\ worker = [w \in Workers |-> "idle"]
    /\ flushing = [v \in Uploaders |-> FALSE]
    /\ back = "none"
    /\ ui = <<>>

Post(e) == ui' = Append(ui, e)

-----------------------------------------------------------------------------
\* The file (core/auth_cache.py) and the server (core/auth_session.py).

Cached(l) == <<[login |-> l, driver |-> NoDriver, period |-> "today", stale |-> FALSE]>>

UpdateSettings(c, d, p) == [i \in DOMAIN c |-> [c[i] EXCEPT !.driver = d, !.period = p]]

Clear == cache' = NoCache

\* The server drops a token: it has expired, or the password was changed.
Expire(l) ==
    /\ l \in live
    /\ live' = live \ {l}
    /\ UNCHANGED <<roster, cache, screen, mem, form, copies, asking, threads, ui>>

\* The logins this laptop knows of: another one has a token of its own.
Known == live \cup {mem} \cup {cache[i].login : i \in DOMAIN cache}
            \cup {ui[i].login : i \in {i \in DOMAIN ui : ui[i].do = "login"}}

-----------------------------------------------------------------------------
\* Screens.

\* There is no cached login, or it is older than seven days (is_stale).
Stale == \A i \in DOMAIN cache : cache[i].stale

\* Seven days make the cached login stale.
WeekPasses ==
    /\ ~Stale
    /\ cache' = [i \in DOMAIN cache |-> [cache[i] EXCEPT !.stale = TRUE]]
    /\ UNCHANGED <<roster, live, screen, mem, form, copies, asking, threads, ui>>

\* _save_settings: the snapshot for the background thread and the cache, if
\* there is one.
SaveSettings(c, d, p) ==
    /\ snap' = d
    /\ cache' = UpdateSettings(c, d, p)

\* _show_settings when the drivers could be listed: a new form with the
\* cached driver, if still offered, or the first one.
ShowSettings(l, c, preselect, p) ==
    /\ screen' = "settings" /\ shown' = l
    /\ choices' = Offered(l)
    /\ pick' = IF \E i \in DOMAIN choices' : choices'[i] = preselect THEN preselect
               ELSE First(choices')
    /\ period' = p
    /\ button' = TRUE /\ upload' = TRUE
    /\ auto' = FALSE
    /\ SaveSettings(c, pick', p)
    /\ back' = IF back = "none" THEN "wait" ELSE back

\* The widgets of a settings screen are gone, or not there yet.
NoForm ==
    /\ choices' = <<>> /\ pick' = NoDriver /\ period' = "today"
    /\ button' = TRUE /\ upload' = TRUE

\* _show_login. The copies for the background thread stay as they are.
ShowLogin ==
    /\ screen' = "login" /\ shown' = Out
    /\ NoForm
    /\ UNCHANGED <<copies, back>>

\* _try_restore_cached_session. The server is asked if it can be reached;
\* a call that fails otherwise ends the program here.
Launch ==
    /\ screen = "off"
    /\ \/ /\ \A i \in DOMAIN cache : cache[i].stale \/ cache[i].login \notin live
          /\ Clear /\ mem' = Out
          /\ ShowLogin
       \/ /\ ~Stale
          /\ mem' = cache[1].login
          /\ ShowSettings(cache[1].login, cache, cache[1].driver, cache[1].period)
    /\ UNCHANGED <<roster, live, asking, signing, worker, flushing, ui>>

\* _on_close, or the process is killed: the threads are daemons.
Quit ==
    /\ screen # "off"
    /\ screen' = "off" /\ mem' = Out /\ shown' = Out
    /\ NoForm
    /\ auto' = FALSE /\ snap' = NoDriver
    /\ asking' = 0
    /\ signing' = 0
    /\ worker' = [w \in Workers |-> "idle"]
    /\ flushing' = [v \in Uploaders |-> FALSE]
    /\ back' = "none"
    /\ ui' = <<>>
    /\ UNCHANGED <<roster, live, cache>>

\* do_login. The Return key starts it whether or not the button is disabled.
SignIn ==
    /\ screen = "login" /\ asking = 0
    /\ signing < MaxSigning /\ Len(ui) < MaxPosted
    /\ signing' = signing + 1
    /\ UNCHANGED <<roster, live, cache, screen, mem, form, copies, asking, worker, flushing, back, ui>>

\* login_worker: auth_session.login issues a token, or anything goes wrong,
\* and what is posted then only changes labels of the login screen.
LoginWorker ==
    /\ signing > 0
    /\ signing' = signing - 1
    /\ \/ \E l \in Logins \ Known :
             live' = live \cup {l} /\ Post([do |-> "login", login |-> l])
       \/ UNCHANGED <<live, ui>>
    /\ UNCHANGED <<roster, cache, screen, mem, form, copies, asking, worker, flushing, back>>

\* Mutant of SignedIn: the cache is saved once the login frame is gone.
SignedInSavingLast(e) ==
    /\ mem' = e.login
    /\ LET c == Cached(e.login)
       IN  \/ screen = "login" /\ ShowSettings(e.login, c, NoDriver, "today")
           \/ /\ screen = "login"
              /\ screen' = "half" /\ shown' = e.login /\ cache' = c
              /\ NoForm /\ UNCHANGED <<copies, back>>
           \/ /\ screen # "login"
              /\ UNCHANGED <<cache, screen, form, copies, back>>
    /\ UNCHANGED <<roster, live, asking, signing, worker, flushing>>

\* Mutant of SignedIn: the label is made once the drivers are listed.
SignedInLabelLast(e) ==
    /\ mem' = e.login
    /\ LET c == Cached(e.login)
       IN  \/ screen = "login" /\ ShowSettings(e.login, c, NoDriver, "today")
           \/ /\ screen = "login"
              /\ screen' = "half" /\ cache' = c
              /\ NoForm /\ UNCHANGED <<shown, copies, back>>
           \/ /\ screen # "login"
              /\ cache' = c
              /\ UNCHANGED <<screen, form, copies, back>>
    /\ UNCHANGED <<roster, live, asking, signing, worker, flushing>>

\* _on_login_result: cache the login, leave the login screen, and list the
\* drivers, which may fail once the label is there. Without a login frame (a
\* second login that was under way) the handler raises after the cache is
\* written, and the label and the list on the screen stay as they are.
SignedIn(e) ==
    /\ mem' = e.login
    /\ LET c == Cached(e.login)
       IN  \/ screen = "login" /\ ShowSettings(e.login, c, NoDriver, "today")
           \/ /\ screen = "login"
              /\ screen' = "half" /\ shown' = e.login /\ cache' = c
              /\ NoForm /\ UNCHANGED <<copies, back>>
           \/ /\ screen # "login"
              /\ cache' = c
              /\ UNCHANGED <<screen, form, copies, back>>
    /\ UNCHANGED <<roster, live, asking, signing, worker, flushing>>

\* _sign_out: the server is told if it can be reached, then the cache is
\* cleared, whatever came of that.  (A token nobody holds any more is not
\* live here, whether the server was told or not.)
SignOut ==
    /\ screen \in {"settings", "half"} /\ asking = 0
    /\ screen' = "leaving"
    /\ UNCHANGED <<roster, live, cache, mem, form, copies, asking, threads, ui>>

SignedOut ==
    /\ screen = "leaving"
    /\ live' = live \ {mem}
    /\ Clear /\ mem' = Out
    /\ ShowLogin
    /\ UNCHANGED <<roster, asking, signing, worker, flushing, ui>>

-----------------------------------------------------------------------------
\* The settings screen.

OnForm == screen = "settings" /\ asking = 0

\* _on_driver_selected: an entry of the list. (Of two drivers with one name,
\* _selected_driver takes the first whichever was picked; here names differ.)
Choose(d) ==
    /\ OnForm
    /\ pick' = d
    /\ SaveSettings(cache, d, period)
    /\ UNCHANGED <<roster, live, screen, mem, shown, choices, period, button, upload, auto, asking, threads, ui>>

\* create_driver.
CreateDriver(d) == roster' = Append(roster, d)

\* "+ Add new driver": a profile of its own, or an error that leaves the list
\* at that entry, which stands for no driver.
AddDriver(d) ==
    /\ OnForm
    /\ d \notin ToSet(roster) /\ \A l \in Logins : d # Own[l]
    /\ \/ /\ CreateDriver(d)
          /\ choices' = Append(choices, d)
          /\ pick' = d
          /\ SaveSettings(cache, d, period)
       \/ /\ pick' = NoDriver
          /\ UNCHANGED <<roster, choices, snap, cache>>
    /\ UNCHANGED <<live, screen, mem, shown, period, button, upload, auto, asking, threads, ui>>

SetPeriod(p) ==
    /\ OnForm
    /\ period' = p
    /\ SaveSettings(cache, pick, p)
    /\ UNCHANGED <<roster, live, screen, mem, shown, choices, pick, button, upload, auto, asking, threads, ui>>

\* _on_auto_sync_toggled.
ToggleAuto ==
    /\ OnForm
    /\ auto' = ~auto /\ snap' = pick
    /\ UNCHANGED <<roster, live, cache, screen, mem, form, asking, threads, ui>>

\* _begin_sync: a thread of its own.
BeginSync(w) ==
    /\ worker[w] = "idle"
    /\ button' = FALSE
    /\ worker' = [worker EXCEPT ![w] = "sync"]

\* _start_sync: everything on the device is looked at first.
StartSync(w) ==
    /\ OnForm /\ button /\ Len(ui) < MaxPosted
    /\ pick # NoDriver
    /\ IF period = "today" THEN BeginSync(w)
       ELSE /\ worker[w] = "idle"
            /\ button' = FALSE
            /\ worker' = [worker EXCEPT ![w] = "preview"]
    /\ UNCHANGED <<roster, live, cache, screen, mem, shown, choices, pick, period, upload, copies, asking,
                   signing, flushing, back, ui>>

\* Mutant of Preview: only an error of the device is reported.
PreviewDying(w) ==
    /\ worker[w] = "preview"
    /\ worker' = [worker EXCEPT ![w] = "idle"]
    /\ \E what \in {"nothing", "ask", "done"} : Post([do |-> what]) \/ UNCHANGED ui
    /\ UNCHANGED <<roster, live, cache, screen, mem, form, copies, asking, signing, flushing,
                   back>>

\* _preview_worker: nothing new, something new, or an error of whatever kind.
Preview(w) ==
    /\ worker[w] = "preview"
    /\ worker' = [worker EXCEPT ![w] = "idle"]
    /\ \E what \in {"nothing", "ask", "done"} : Post([do |-> what])
    /\ UNCHANGED <<roster, live, cache, screen, mem, form, copies, asking, signing, flushing,
                   back>>

\* _sync_worker reads the period's tk variable before anything else and outside
\* its try: "depending on how Tcl was built it either raises outright or marshals
\* back to the main thread".  Where it raises no report follows, else it ends with
\* _on_sync_done or _on_sync_error.
SyncWorker(w) ==
    /\ worker[w] = "sync"
    /\ \/ worker' = [worker EXCEPT ![w] = "idle"] /\ Post([do |-> "done"])
       \/ worker' = [worker EXCEPT ![w] = "dead"] /\ UNCHANGED ui
    /\ UNCHANGED <<roster, live, cache, screen, mem, form, copies, asking, signing, flushing,
                   back>>

\* _background_tick, from the snapshot on: the tool is on the device's WiFi.
Tick ==
    /\ back \in {"wait", "raised"} /\ auto /\ snap # NoDriver
    /\ Len(ui) < MaxPosted
    /\ back' = "sync"
    /\ Post([do |-> "disable"])
    /\ UNCHANGED <<roster, live, cache, screen, mem, form, copies, asking, signing, worker,
                   flushing>>

\* The same on the background thread, whose loop goes on whatever is raised.
AutoSync ==
    /\ back = "sync"
    /\ \/ back' = "wait" /\ Post([do |-> "done"])
       \/ back' = "raised" /\ UNCHANGED ui
    /\ UNCHANGED <<roster, live, cache, screen, mem, form, copies, asking, signing, worker,
                   flushing>>

\* _start_manual_flush and its thread, which reports whatever happens.
UploadNow(v) ==
    /\ OnForm /\ upload /\ Len(ui) < MaxPosted
    /\ ~flushing[v]
    /\ upload' = FALSE
    /\ flushing' = [flushing EXCEPT ![v] = TRUE]
    /\ UNCHANGED <<roster, live, cache, screen, mem, shown, choices, pick, period, button,
                   copies, asking, signing, worker, back, ui>>

ManualFlush(v) ==
    /\ flushing[v]
    /\ flushing' = [flushing EXCEPT ![v] = FALSE]
    /\ Post([do |-> "flushed"])
    /\ UNCHANGED <<roster, live, cache, screen, mem, form, copies, asking, signing,
                   worker, back>>

\* The dialog of _on_preview_ready is answered. On a screen without a sync
\* button the handler raises.
Answer(yes, w) ==
    /\ asking > 0
    /\ asking' = asking - 1
    /\ \/ screen = "settings" /\ yes /\ BeginSync(w)
       \/ screen = "settings" /\ ~yes /\ button' = TRUE /\ UNCHANGED worker
       \/ screen # "settings" /\ UNCHANGED <<button, worker>>
    /\ UNCHANGED <<roster, live, cache, screen, mem, shown, choices, pick, period, upload, copies,
                   signing, flushing, back, ui>>

\* _on_sync_done and _on_sync_error enable the button there is now; the
\* background thread disables it.
OnSyncDone    == button' = (screen = "settings" \/ button) /\ UNCHANGED <<upload, asking>>
OnSyncBegun   == button' = (screen # "settings" /\ button) /\ UNCHANGED <<upload, asking>>

\* _on_preview_ready: with nothing new the button is enabled, else the user
\* is asked.
OnPreviewReady(news) ==
    IF news THEN asking' = asking + 1 /\ UNCHANGED <<button, upload>> ELSE OnSyncDone

\* _on_flush_done, _enable_upload_button.
OnFlushDone == upload' = (screen = "settings" \/ upload) /\ UNCHANGED <<button, asking>>

OnReport(e) ==
    /\ CASE e.do = "done"    -> OnSyncDone
         [] e.do = "disable" -> OnSyncBegun
         [] e.do = "nothing" -> OnPreviewReady(FALSE)
         [] e.do = "ask"     -> OnPreviewReady(TRUE)
         [] e.do = "flushed" -> OnFlushDone
    /\ UNCHANGED <<roster, live, cache, screen, mem, shown, choices, pick, period, copies, threads>>

\* The main thread runs the oldest callback, unless a handler keeps it busy
\* (an open dialog does not).
Callback ==
    /\ ui # <<>> /\ screen # "leaving"
    /\ ui' = Tail(ui)
    /\ IF Head(ui).do = "login" THEN SignedIn(Head(ui)) ELSE OnReport(Head(ui))

-----------------------------------------------------------------------------

Next ==
    \/ WeekPasses \/ Launch \/ Quit \/ SignOut \/ SignedOut \/ Callback
    \/ \E l \in Logins : Expire(l)
    \/ \E v \in Uploaders : UploadNow(v) \/ ManualFlush(v)
    \/ SignIn \/ LoginWorker
    \/ \E i \in DOMAIN choices : Choose(choices[i])
    \/ \E d \in Drivers : AddDriver(d)
    \/ \E p \in Periods : SetPeriod(p)
    \/ ToggleAuto \/ Tick \/ AutoSync
    \/ \E w \in Workers :
          \/ StartSync(w) \/ Preview(w) \/ SyncWorker(w)
          \/ \E yes \in BOOLEAN : Answer(yes, w)

Spec == Init /\ [][Next]_vars

\* Threads run, and the main loop comes round to what is posted; people do
\* what they like.
FairSpec ==
    /\ Spec
    /\ WF_vars(Callback) /\ WF_vars(SignedOut) /\ WF_vars(AutoSync)
    /\ \A v \in Uploaders : WF_vars(ManualFlush(v))
    /\ \A w \in Workers : WF_vars(Preview(w)) /\ WF_vars(SyncWorker(w))

-----------------------------------------------------------------------------
\* Properties.

\* The user the program acts for, self.user_id and the token, is the one of
\* the file, so that a relaunch at the track goes on as the same user and a
\* sign-out leaves nothing behind: through lost connections, logins that come
\* back late or twice, half-built screens and kills anywhere ("it is the same
\* 7-day session, just persisted to disk", auth_cache.py).  What the screen
\* says is LabelNamesUser.
CacheMirrorsLogin ==
    /\ screen \in {"settings", "half", "leaving"} =>
          cache # NoCache /\ mem = cache[1].login
    /\ screen = "login" => cache = NoCache /\ mem = Out

\* What the label says ("Signed in as", gui_app.py:246): the user whose name a new
\* screen shows, and whose drivers it lists, is the one in whose name it syncs, and
\* stays that one until a second login, started with the Return key before the
\* first came back, changes the user under the screen: by no restored login,
\* half-built screen, sign-out or late report.
LabelNamesUser ==
    [][(screen' \in {"settings", "half"} /\ shown' # mem') =>
          \/ UNCHANGED <<shown, mem>>
          \/ screen # "login" /\ ui # <<>> /\ Head(ui).do = "login" /\ ui' = Tail(ui)]_vars

\* A thread that was to sync has raised before its try: "the button still
\* disabled [...] a hung app" (gui_app.py:204-206, of the thread that signs in).
SyncDied == back = "raised" \/ \E w \in Workers : worker[w] = "dead"

\* A button that a press, a preview, the auto-sync or a thread of an earlier
\* login disabled can be pressed again, or the user is being asked or leaves:
\* every thread reports back, in whatever order ("report, don't crash the
\* app"), but for a sync that raises at the one variable it reads itself.
ButtonsComeBack ==
    /\ (screen = "settings" /\ ~button) ~>
          (screen # "settings" \/ button \/ asking > 0 \/ SyncDied)
    /\ (screen = "settings" /\ ~upload) ~> (screen # "settings" \/ upload)

=============================================================================
