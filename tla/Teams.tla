-------------------------------- MODULE Teams --------------------------------
(***************************************************************************)
(* Team memberships in Postgres: the SQL functions of migrations 0010,     *)
(* 0012 and 0008, and the two writes a driver makes directly under the     *)
(* row-level policies.  A function that reads before it has locked what it *)
(* writes is two actions, Start and Commit; `call` is what it remembers in *)
(* between and which rows it holds locked.  Every other transaction is one *)
(* action, and waits for locked rows.                                      *)
(***************************************************************************)
EXTENDS FiniteSets, Naturals

CONSTANTS
    Profiles,    \* driver profiles
    Teams,       \* teams.id
    Rows,        \* team_memberships.id; as many rows as there will ever be
    Calls,       \* transactions that can be open at a time
    NoTeam, NoProfile, NoRow,
    MaxDeletes   \* bound: how many accounts are deleted

ASSUME ConstantsOK ==
    /\ NoTeam \notin Teams
    /\ NoProfile \notin Profiles
    /\ NoRow \notin Rows
    /\ MaxDeletes \in Nat

VARIABLES
    team,        \* teams: "new" before, "open", "deleted" after
    member,      \* team_memberships
    account,     \* the profiles whose account exists
    call

vars == <<team, member, account, call>>

\* "none" for a row not inserted yet, "gone" for one that was deleted.
Status == {"none", "pending", "active", "rejected", "left", "removed", "gone"}
Live   == {"pending", "active"}
Role   == {"manager", "admin", "member"}
Member == [team: Teams \cup {NoTeam}, profile: Profiles \cup {NoProfile},
           role: Role, status: Status]

Op   == {"idle", "resolve", "role", "remove", "transfer", "reassign", "drop"}
Call == [op: Op, row: Rows \cup {NoRow}, mine: Rows \cup {NoRow},
         to: Status \cup Role, team: Teams \cup {NoTeam}, locks: SUBSET Rows]

Idle == [op |-> "idle", row |-> NoRow, mine |-> NoRow, to |-> "none",
         team |-> NoTeam, locks |-> {}]

Stored(m) == m.status \notin {"none", "gone"}

\* Types, and the foreign keys of a membership.
TypeOK ==
    /\ team \in [Teams -> {"new", "open", "deleted"}]
    /\ member \in [Rows -> Member]
    /\ account \in SUBSET Profiles
    /\ call \in [Calls -> Call]
    /\ \A i \in Rows : Stored(member[i]) =>
           /\ member[i].profile \in account
           /\ member[i].team \in Teams /\ team[member[i].team] = "open"

Locked(i) == \E c \in Calls : i \in call[c].locks

Manages(m, t) == m.team = t /\ m.role = "manager" /\ m.status = "active"

\* The unique index team_memberships_one_live_per_profile.
OneLive(mm) ==
    \A i, j \in Rows : mm[i].status \in Live /\ mm[j].status \in Live
                       /\ mm[i].profile = mm[j].profile => i = j

\* The unique index team_one_active_manager.
OneManager(mm) ==
    \A t \in Teams, i, j \in Rows : Manages(mm[i], t) /\ Manages(mm[j], t) => i = j

\* Mutant of Unique: the schema of 0001, before the first index.
UniqueManagerOnly(mm) == OneManager(mm)

Unique(mm) == OneLive(mm) /\ OneManager(mm)

\* current_role_in_team.  A comparison with the NULL it returns for somebody
\* who is not an active member raises no error.
RoleIn(t, p) == {member[i].role : i \in {j \in Rows : /\ member[j].team = t
                                                       /\ member[j].profile = p
                                                       /\ member[j].status = "active"}}
Refused(t, p, allowed) == RoleIn(t, p) \cap (Role \ allowed) # {}

-----------------------------------------------------------------------------

Init ==
    /\ team = [t \in Teams |-> "new"]
    /\ member = [i \in Rows |-> [team |-> NoTeam, profile |-> NoProfile,
                                 role |-> "member", status |-> "none"]]
    /\ account = Profiles
    /\ call = [c \in Calls |-> Idle]

\* An INSERT, which the unique indexes may refuse.
Insert(i, t, p, role, status) ==
    LET mm == [member EXCEPT ![i] = [team |-> t, profile |-> p,
                                     role |-> role, status |-> status]]
    IN  /\ member[i].status = "none"
        /\ p \in account
        /\ Unique(mm)
        /\ member' = mm

\* team_create
Create(i, t, p) ==
    /\ team[t] = "new"
    /\ \A j \in Rows : member[j].profile = p => member[j].status \notin Live
    /\ Insert(i, t, p, "manager", "active")
    /\ team' = [team EXCEPT ![t] = "open"]
    /\ UNCHANGED <<account, call>>

\* requestToJoin: an insert under team_memberships_insert_request.
Ask(i, t, p) ==
    /\ team[t] = "open"
    /\ Insert(i, t, p, "member", "pending")
    /\ UNCHANGED <<team, account, call>>

\* Mutant of Quit: the policy before 0010, which let a manager leave.
QuitAnyRole(i, status) ==
    /\ Stored(member[i])
    /\ ~Locked(i)
    /\ status \in {"left", "rejected"}
    /\ member' = [member EXCEPT ![i].status = status]
    /\ UNCHANGED <<team, account, call>>

\* withdrawOrLeave: an update under team_memberships_leave_own, whatever the
\* status was when the page was loaded and is by now.
Quit(i, status) ==
    /\ Stored(member[i]) /\ member[i].role # "manager"
    /\ ~Locked(i)
    /\ status \in {"left", "rejected"}
    /\ member' = [member EXCEPT ![i].status = status]
    /\ UNCHANGED <<team, account, call>>

-----------------------------------------------------------------------------
\* Decisions on one row, which is locked (FOR UPDATE) from the start.

Begin(c, op, i, to) ==
    /\ call[c].op = "idle"
    /\ ~Locked(i)
    /\ call' = [call EXCEPT ![c] = [Idle EXCEPT !.op = op, !.row = i, !.to = to,
                                                !.locks = {i}]]
    /\ UNCHANGED <<team, member, account>>

\* team_resolve_join_request
StartResolve(c, p, i, to) ==
    /\ to \in {"active", "rejected"}
    /\ member[i].status = "pending"
    /\ ~Refused(member[i].team, p, {"manager", "admin"})
    /\ Begin(c, "resolve", i, to)

\* team_set_member_role
StartRole(c, p, i, to) ==
    /\ to \in {"admin", "member"}
    /\ member[i].status = "active" /\ member[i].role # "manager"
    /\ ~Refused(member[i].team, p, {"manager"})
    /\ Begin(c, "role", i, to)

\* team_remove_member
StartRemove(c, p, i) ==
    /\ member[i].status = "active" /\ member[i].role # "manager"
    /\ ~Refused(member[i].team, p, IF member[i].role = "admin" THEN {"manager"}
                                   ELSE {"manager", "admin"})
    /\ Begin(c, "remove", i, "removed")

\* The final UPDATE of each, which repeats what the SELECT asked of the row.
CommitDecision(c) ==
    LET i    == call[c].row
        op   == call[c].op
        same == /\ member[i].status = IF op = "resolve" THEN "pending" ELSE "active"
                /\ op # "resolve" => member[i].role # "manager"
    IN  /\ op \in {"resolve", "role", "remove"}
        /\ member' = IF ~same THEN member
                     ELSE IF op = "role" THEN [member EXCEPT ![i].role = call[c].to]
                     ELSE [member EXCEPT ![i].status = call[c].to]
        /\ call' = [call EXCEPT ![c] = Idle]
        /\ UNCHANGED <<team, account>>

-----------------------------------------------------------------------------
\* Changes of manager, which read both rows before they lock them.

\* team_transfer_manager, up to the lock.
StartTransfer(c, p, i, mine) ==
    /\ call[c].op = "idle"
    /\ Stored(member[i]) /\ i # mine
    /\ Manages(member[mine], member[i].team) /\ member[mine].profile = p
    /\ call' = [call EXCEPT ![c] = [Idle EXCEPT !.op = "transfer", !.row = i, !.mine = mine]]
    /\ UNCHANGED <<team, member, account>>

\* admin_team_reassign_manager, up to the lock; there may be no manager.
StartReassign(c, i, old) ==
    /\ call[c].op = "idle"
    /\ Stored(member[i])
    /\ IF old = NoRow THEN \A j \in Rows : ~Manages(member[j], member[i].team)
       ELSE Manages(member[old], member[i].team)
    /\ call' = [call EXCEPT ![c] = [Idle EXCEPT !.op = "reassign", !.row = i, !.mine = old]]
    /\ UNCHANGED <<team, member, account>>

\* Mutant of StillActive: the statuses are not read again under the lock.
StillActiveBefore(c) == TRUE

\* The check repeated under the lock.  The status of a row deleted meanwhile
\* is NULL, and not found different from 'active'.
StillActive(c) ==
    /\ member[call[c].row].status \in {"active", "gone"}
    /\ call[c].op = "transfer" => member[call[c].mine].status \in {"active", "gone"}

\* Both rows are locked, checked and updated, or the transaction is aborted:
\* by the check, or by an index.
CommitManager(c) ==
    LET i  == call[c].row
        j  == call[c].mine
        demoted == [k \in Rows |-> IF k = j /\ Stored(member[k])
                                   THEN [member[k] EXCEPT !.role = "admin"] ELSE member[k]]
        mm == [k \in Rows |-> IF k = i /\ Stored(member[k])
                              THEN [member[k] EXCEPT !.role = "manager"] ELSE demoted[k]]
    IN  /\ call[c].op \in {"transfer", "reassign"}
        /\ ~Locked(i) /\ (j # NoRow => ~Locked(j))
        /\ member' = IF StillActive(c) /\ Unique(mm) THEN mm ELSE member
        /\ call' = [call EXCEPT ![c] = Idle]
        /\ UNCHANGED <<team, account>>

-----------------------------------------------------------------------------
\* Administration.

\* admin_delete_empty_team: every row of the team is locked, none is active.
StartDrop(c, t) ==
    LET mine == {i \in Rows : Stored(member[i]) /\ member[i].team = t}
    IN  /\ call[c].op = "idle" /\ team[t] = "open"
        /\ \A i \in mine : ~Locked(i) /\ member[i].status # "active"
        /\ call' = [call EXCEPT ![c] = [Idle EXCEPT !.op = "drop", !.team = t, !.locks = mine]]
        /\ UNCHANGED <<team, member, account>>

\* Mutant of CommitDrop: only the rows that were locked are deleted.
CommitDropLocked(c) ==
    /\ call[c].op = "drop"
    /\ member' = [i \in Rows |-> IF i \in call[c].locks
                                 THEN [member[i] EXCEPT !.status = "gone"] ELSE member[i]]
    /\ team' = [team EXCEPT ![call[c].team] = "deleted"]
    /\ call' = [call EXCEPT ![c] = Idle]
    /\ UNCHANGED account

\* Its two DELETEs, which take requests that came in since with them.
CommitDrop(c) ==
    LET doomed == {i \in Rows : Stored(member[i]) /\ member[i].team = call[c].team}
    IN  /\ call[c].op = "drop"
        /\ \A i \in doomed \ call[c].locks : ~Locked(i)
        /\ member' = [i \in Rows |-> IF i \in doomed
                                     THEN [member[i] EXCEPT !.status = "gone"] ELSE member[i]]
        /\ team' = [team EXCEPT ![call[c].team] = "deleted"]
        /\ call' = [call EXCEPT ![c] = Idle]
        /\ UNCHANGED account

\* The second DELETE fails on a request inserted after the first.
AbortDrop(c) ==
    /\ call[c].op = "drop"
    /\ \E i \in Rows \ call[c].locks : Stored(member[i]) /\ member[i].team = call[c].team
    /\ call' = [call EXCEPT ![c] = Idle]
    /\ UNCHANGED <<team, member, account>>

\* admin_delete_user, for the profile of the account.
DeleteUser(p) ==
    /\ p \in account
    /\ Cardinality(Profiles \ account) < MaxDeletes
    /\ \A i \in Rows : member[i].profile = p => ~Locked(i)
    /\ account' = account \ {p}
    /\ member' = [i \in Rows |-> IF Stored(member[i]) /\ member[i].profile = p
                                 THEN [member[i] EXCEPT !.status = "gone"] ELSE member[i]]
    /\ UNCHANGED <<team, call>>

-----------------------------------------------------------------------------

Join ==
    \/ \E i \in Rows, t \in Teams, p \in Profiles : Create(i, t, p) \/ Ask(i, t, p)
    \/ \E i \in Rows, s \in {"left", "rejected"} : Quit(i, s)

Decide(c) ==
    \/ \E p \in account, i \in Rows :
           \/ \E to \in {"active", "rejected"} : StartResolve(c, p, i, to)
           \/ \E to \in {"admin", "member"} : StartRole(c, p, i, to)
           \/ StartRemove(c, p, i)
    \/ CommitDecision(c)

HandOver(c) ==
    \/ \E p \in account, i, j \in Rows : StartTransfer(c, p, i, j)
    \/ \E i \in Rows, j \in Rows \cup {NoRow} : StartReassign(c, i, j)
    \/ CommitManager(c)

Administer ==
    \/ \E c \in Calls, t \in Teams : StartDrop(c, t)
    \/ \E c \in Calls : CommitDrop(c) \/ AbortDrop(c)
    \/ \E p \in Profiles : DeleteUser(p)

Next ==
    \/ Join \/ Administer
    \/ \E c \in Calls : Decide(c) \/ HandOver(c)

Spec == Init /\ [][Next]_vars

-----------------------------------------------------------------------------
\* Properties.

\* A driver is never on, or waiting on, two teams, whatever tabs and stale
\* pages the requests come from: pre-check and index of 0010 together.
OneTeamPerDriver == OneLive(member)

\* A team never has two managers, also when two hand-overs read the same
\* manager before either has locked a row.
OneManagerPerTeam == OneManager(member)

\* Whoever holds the manager's role is an active member: the new manager
\* cannot have left, or the old one quit, while the hand-over was under way.
ManagerIsActive ==
    \A i \in Rows : Stored(member[i]) /\ member[i].role = "manager" => member[i].status = "active"

\* As long as nobody's account is deleted a team that has a manager keeps
\* one: no order of hand-overs, removals, resignations and administrators'
\* reassignments leaves it without.
ManagerStays ==
    [][account' = Profiles =>
           \A t \in Teams : (\E i \in Rows : Manages(member[i], t)) =>
                                \E j \in Rows : Manages(member'[j], t)]_vars

=============================================================================
