----------------------------- MODULE TeamsProofs -----------------------------
(***************************************************************************)
(* Theorems about Teams, for any number of drivers, teams, rows and open   *)
(* transactions.                                                           *)
(***************************************************************************)
EXTENDS Teams, TLAPS

\* What an open transaction remembers.
CallOK(c) ==
    /\ call[c].op \in {"resolve", "role", "remove", "transfer", "reassign"} =>
           call[c].row \in Rows
    /\ call[c].op = "resolve" => call[c].to \in {"active", "rejected"}
    /\ call[c].op = "role" => call[c].to \in {"admin", "member"}
    /\ call[c].op = "remove" => call[c].to = "removed"
    /\ call[c].op = "transfer" => call[c].mine \in Rows
    /\ call[c].op = "drop" => call[c].team \in Teams

CallsOK == \A c \in Calls : CallOK(c)

TypeInv == TypeOK /\ CallsOK

-----------------------------------------------------------------------------
\* Every step is one of these.
LEMMA Steps ==
    ASSUME Next
    PROVE  \/ \E i \in Rows, t \in Teams, p \in Profiles : Create(i, t, p)
           \/ \E i \in Rows, t \in Teams, p \in Profiles : Ask(i, t, p)
           \/ \E i \in Rows, s \in {"left", "rejected"} : Quit(i, s)
           \/ \E c \in Calls, p \in account, i \in Rows, to \in {"active", "rejected"} :
                  StartResolve(c, p, i, to)
           \/ \E c \in Calls, p \in account, i \in Rows, to \in {"admin", "member"} :
                  StartRole(c, p, i, to)
           \/ \E c \in Calls, p \in account, i \in Rows : StartRemove(c, p, i)
           \/ \E c \in Calls : CommitDecision(c)
           \/ \E c \in Calls, p \in account, i, j \in Rows : StartTransfer(c, p, i, j)
           \/ \E c \in Calls, i \in Rows, j \in Rows \cup {NoRow} : StartReassign(c, i, j)
           \/ \E c \in Calls : CommitManager(c)
           \/ \E c \in Calls, t \in Teams : StartDrop(c, t)
           \/ \E c \in Calls : CommitDrop(c)
           \/ \E c \in Calls : AbortDrop(c)
           \/ \E p \in Profiles : DeleteUser(p)
  BY DEF Next, Join, Decide, HandOver, Administer

\* Opening a transaction keeps the types, whichever it is.
LEMMA OpenKeepsTypes ==
    ASSUME TypeInv, NEW c \in Calls, NEW x \in Call,
           call' = [call EXCEPT ![c] = x],
           x.op \in {"resolve", "role", "remove", "transfer", "reassign"} => x.row \in Rows,
           x.op = "resolve" => x.to \in {"active", "rejected"},
           x.op = "role" => x.to \in {"admin", "member"},
           x.op = "remove" => x.to = "removed",
           x.op = "transfer" => x.mine \in Rows,
           x.op = "drop" => x.team \in Teams
    PROVE  call' \in [Calls -> Call] /\ CallsOK'
  <1>1. call \in [Calls -> Call]
    BY DEF TypeInv, TypeOK
  <1>2. call' \in [Calls -> Call]
    BY <1>1
  <1>3. ASSUME NEW d \in Calls
        PROVE  CallOK(d)'
    <2>1. CASE d = c
      <3>1. call'[d] = x
        BY <1>1, <2>1
      <3> QED
        BY <3>1 DEF CallOK
    <2>2. CASE d # c
      <3>1. call'[d] = call[d] /\ CallOK(d)
        BY <1>1, <2>2 DEF TypeInv, CallsOK
      <3> QED
        BY <3>1 DEF CallOK
    <2> QED
      BY <2>1, <2>2
  <1> QED
    BY <1>2, <1>3 DEF CallsOK

LEMMA IdleIsCall == Idle \in Call
  BY DEF Idle, Call, Op, Status, Role

\* Closing one does too.
LEMMA CloseKeepsTypes ==
    ASSUME TypeInv, NEW c \in Calls, call' = [call EXCEPT ![c] = Idle]
    PROVE  call' \in [Calls -> Call] /\ CallsOK'
  <1>1. Idle \in Call /\ Idle.op = "idle"
    BY IdleIsCall DEF Idle
  <1> QED
    BY <1>1, OpenKeepsTypes

LEMMA InitTypes == Init => TypeInv
  <1> SUFFICES ASSUME Init
               PROVE  TypeInv
    OBVIOUS
  <1>1. TypeOK
    BY IdleIsCall DEF Init, TypeOK, Member, Role, Status, Stored
  <1>2. CallsOK
    BY DEF Init, CallsOK, CallOK, Idle
  <1> QED
    BY <1>1, <1>2 DEF TypeInv

\* What a step on the team tables must keep for the types to be kept.
TablesOK ==
    /\ team \in [Teams -> {"new", "open", "deleted"}]
    /\ member \in [Rows -> Member]
    /\ account \in SUBSET Profiles
    /\ \A i \in Rows : Stored(member[i]) =>
           /\ member[i].profile \in account
           /\ member[i].team \in Teams /\ team[member[i].team] = "open"

LEMMA CreateTables ==
    ASSUME TypeInv, NEW i \in Rows, NEW t \in Teams, NEW p \in Profiles, Create(i, t, p)
    PROVE  TablesOK'
  BY DEF TypeInv, TypeOK, TablesOK, Create, Insert, Member, Role, Status, Stored

LEMMA AskTables ==
    ASSUME TypeInv, NEW i \in Rows, NEW t \in Teams, NEW p \in Profiles, Ask(i, t, p)
    PROVE  TablesOK'
  BY DEF TypeInv, TypeOK, TablesOK, Ask, Insert, Member, Role, Status, Stored

LEMMA QuitTables ==
    ASSUME TypeInv, NEW i \in Rows, NEW s \in {"left", "rejected"}, Quit(i, s)
    PROVE  TablesOK'
  BY DEF TypeInv, TypeOK, TablesOK, Quit, Member, Role, Status, Stored

LEMMA CommitDecisionTables ==
    ASSUME TypeInv, NEW c \in Calls, CommitDecision(c)
    PROVE  TablesOK'
  <1> DEFINE i == call[c].row
  <1>1. i \in Rows /\ CallOK(c) /\ call[c].op \in {"resolve", "role", "remove"}
    BY DEF TypeInv, CallsOK, CallOK, CommitDecision
  <1>2. CASE member' = member
    BY <1>2 DEF TypeInv, TypeOK, TablesOK, CommitDecision
  <1>3. CASE /\ call[c].op = "role"
             /\ member' = [member EXCEPT ![i].role = call[c].to]
    <2>1. call[c].to \in Role
      BY <1>1, <1>3 DEF CallOK, Role
    <2> QED
      BY <1>1, <1>3, <2>1 DEF TypeInv, TypeOK, TablesOK, CommitDecision, Member, Stored
  <1>4. CASE /\ call[c].op # "role"
             /\ member[i].status \in {"pending", "active"}
             /\ member' = [member EXCEPT ![i].status = call[c].to]
    <2>1. call[c].to \in {"active", "rejected", "removed"}
      BY <1>1, <1>4 DEF CallOK
    <2> QED
      BY <1>1, <1>4, <2>1 DEF TypeInv, TypeOK, TablesOK, CommitDecision, Member, Status, Stored
  <1> QED
    BY <1>1, <1>2, <1>3, <1>4 DEF CommitDecision

LEMMA CommitManagerTables ==
    ASSUME TypeInv, NEW c \in Calls, CommitManager(c)
    PROVE  TablesOK'
  <1>1. /\ member' \in [Rows -> Member]
        /\ \A k \in Rows : /\ member'[k].status = member[k].status
                           /\ member'[k].team = member[k].team
                           /\ member'[k].profile = member[k].profile
    BY DEF TypeInv, TypeOK, CommitManager, Member, Role
  <1> QED
    BY <1>1 DEF TypeInv, TypeOK, TablesOK, CommitManager, Stored

LEMMA CommitDropTables ==
    ASSUME TypeInv, NEW c \in Calls, CommitDrop(c)
    PROVE  TablesOK'
  <1>1. call[c].team \in Teams
    BY DEF TypeInv, CallsOK, CallOK, CommitDrop
  <1> QED
    BY <1>1 DEF TypeInv, TypeOK, TablesOK, CommitDrop, Member, Status, Stored

LEMMA DeleteUserTables ==
    ASSUME TypeInv, NEW p \in Profiles, DeleteUser(p)
    PROVE  TablesOK'
  BY DEF TypeInv, TypeOK, TablesOK, DeleteUser, Member, Status, Stored

LEMMA SameTables ==
    ASSUME TypeInv, UNCHANGED <<team, member, account>>
    PROVE  TablesOK'
  BY DEF TypeInv, TypeOK, TablesOK

LEMMA TablesAndCalls ==
    ASSUME TablesOK', call' \in [Calls -> Call] /\ CallsOK'
    PROVE  TypeInv'
  BY DEF TablesOK, TypeInv, TypeOK

LEMMA BeginTypes ==
    ASSUME TypeInv, NEW c \in Calls, NEW i \in Rows,
           NEW op \in {"resolve", "role", "remove"}, NEW to \in Status \cup Role,
           op = "resolve" => to \in {"active", "rejected"},
           op = "role" => to \in {"admin", "member"},
           op = "remove" => to = "removed",
           Begin(c, op, i, to)
    PROVE  TypeInv'
  <1> DEFINE x == [Idle EXCEPT !.op = op, !.row = i, !.to = to, !.locks = {i}]
  <1>1. /\ x \in Call /\ x.op = op /\ x.row = i /\ x.to = to
        /\ call' = [call EXCEPT ![c] = x]
    BY DEF Begin, Idle, Call, Op
  <1> HIDE DEF x
  <1>2. call' \in [Calls -> Call] /\ CallsOK'
    BY <1>1, OpenKeepsTypes
  <1> QED
    BY <1>2, SameTables, TablesAndCalls DEF Begin

LEMMA TypeStep ==
    ASSUME TypeInv, [Next]_vars
    PROVE  TypeInv'
  <1>1. CASE UNCHANGED vars
    BY <1>1 DEF vars, TypeInv, TypeOK, CallsOK, CallOK
  <1>2. ASSUME UNCHANGED call, TablesOK'
        PROVE  TypeInv'
    BY <1>2 DEF TypeInv, TypeOK, TablesOK, CallsOK, CallOK
  <1>3. ASSUME NEW c \in Calls, call' = [call EXCEPT ![c] = Idle], TablesOK'
        PROVE  TypeInv'
    BY <1>3, CloseKeepsTypes, TablesAndCalls
  <1>4. ASSUME NEW i \in Rows, NEW t \in Teams, NEW p \in Profiles,
               Create(i, t, p) \/ Ask(i, t, p)
        PROVE  TypeInv'
    BY <1>2, <1>4, CreateTables, AskTables DEF Create, Ask
  <1>5. ASSUME NEW i \in Rows, NEW s \in {"left", "rejected"}, Quit(i, s)
        PROVE  TypeInv'
    BY <1>2, <1>5, QuitTables DEF Quit
  <1>6. ASSUME NEW p \in Profiles, DeleteUser(p)
        PROVE  TypeInv'
    BY <1>2, <1>6, DeleteUserTables DEF DeleteUser
  <1>7. ASSUME NEW c \in Calls, NEW p \in account, NEW i \in Rows,
               NEW to \in {"active", "rejected"}, StartResolve(c, p, i, to)
        PROVE  TypeInv'
    BY <1>7, BeginTypes DEF StartResolve, Status
  <1>8. ASSUME NEW c \in Calls, NEW p \in account, NEW i \in Rows,
               NEW to \in {"admin", "member"}, StartRole(c, p, i, to)
        PROVE  TypeInv'
    BY <1>8, BeginTypes DEF StartRole, Role
  <1>9. ASSUME NEW c \in Calls, NEW p \in account, NEW i \in Rows, StartRemove(c, p, i)
        PROVE  TypeInv'
    BY <1>9, BeginTypes DEF StartRemove, Status
  <1>10. ASSUME NEW c \in Calls,
                CommitDecision(c) \/ CommitManager(c) \/ CommitDrop(c) \/ AbortDrop(c)
         PROVE  TypeInv'
    <2>1. TablesOK'
      BY <1>10, CommitDecisionTables, CommitManagerTables, CommitDropTables, SameTables
         DEF AbortDrop
    <2> QED
      BY <1>3, <1>10, <2>1 DEF CommitDecision, CommitManager, CommitDrop, AbortDrop
  <1>11. ASSUME NEW c \in Calls, NEW p \in account, NEW i \in Rows, NEW j \in Rows,
                StartTransfer(c, p, i, j)
         PROVE  TypeInv'
    <2> DEFINE x == [Idle EXCEPT !.op = "transfer", !.row = i, !.mine = j]
    <2>1. /\ x \in Call /\ x.op = "transfer" /\ x.row = i /\ x.mine = j
          /\ call' = [call EXCEPT ![c] = x]
      BY <1>11 DEF StartTransfer, Idle, Call, Op, Status
    <2> HIDE DEF x
    <2>2. call' \in [Calls -> Call] /\ CallsOK'
      BY <2>1, OpenKeepsTypes
    <2> QED
      BY <1>11, <2>2, SameTables, TablesAndCalls DEF StartTransfer
  <1>12. ASSUME NEW c \in Calls, NEW i \in Rows, NEW j \in Rows \cup {NoRow},
                StartReassign(c, i, j)
         PROVE  TypeInv'
    <2> DEFINE x == [Idle EXCEPT !.op = "reassign", !.row = i, !.mine = j]
    <2>1. /\ x \in Call /\ x.op = "reassign" /\ x.row = i
          /\ call' = [call EXCEPT ![c] = x]
      BY <1>12 DEF StartReassign, Idle, Call, Op, Status
    <2> HIDE DEF x
    <2>2. call' \in [Calls -> Call] /\ CallsOK'
      BY <2>1, OpenKeepsTypes
    <2> QED
      BY <1>12, <2>2, SameTables, TablesAndCalls DEF StartReassign
  <1>13. ASSUME NEW c \in Calls, NEW t \in Teams, StartDrop(c, t)
         PROVE  TypeInv'
    <2> DEFINE mine == {i \in Rows : Stored(member[i]) /\ member[i].team = t}
               x == [Idle EXCEPT !.op = "drop", !.team = t, !.locks = mine]
    <2>1. /\ x \in Call /\ x.op = "drop" /\ x.team = t
          /\ call' = [call EXCEPT ![c] = x]
      BY <1>13 DEF StartDrop, Idle, Call, Op, Status
    <2> HIDE DEF x
    <2>2. call' \in [Calls -> Call] /\ CallsOK'
      BY <2>1, OpenKeepsTypes
    <2> QED
      BY <1>13, <2>2, SameTables, TablesAndCalls DEF StartDrop
  <1> QED
    BY <1>1, <1>4, <1>5, <1>6, <1>7, <1>8, <1>9, <1>10, <1>11, <1>12, <1>13, Steps

\* The tables keep their types and their foreign keys, and an open
\* transaction only ever refers to rows and teams that exist or existed.
THEOREM TeamTypes == Spec => []TypeOK
  <1>1. Init => TypeInv
    BY InitTypes
  <1>2. TypeInv /\ [Next]_vars => TypeInv'
    BY TypeStep
  <1>3. TypeInv => TypeOK
    BY DEF TypeInv
  <1> QED
    BY <1>1, <1>2, <1>3, PTL DEF Spec

-----------------------------------------------------------------------------
\* One team per driver, one manager per team.

Indexes == OneTeamPerDriver /\ OneManagerPerTeam /\ ManagerIsActive

LEMMA InsertKeepsIndexes ==
    ASSUME TypeInv, Indexes, NEW i \in Rows, NEW t, NEW p, NEW role, NEW status,
           role = "manager" => status = "active",
           Insert(i, t, p, role, status)
    PROVE  Indexes'
  <1>1. OneLive(member') /\ OneManager(member')
    BY DEF Insert, Unique
  <1>2. ManagerIsActive'
    BY DEF Insert, Indexes, ManagerIsActive, Stored, TypeInv, TypeOK
  <1> QED
    BY <1>1, <1>2 DEF Indexes, OneTeamPerDriver, OneManagerPerTeam

\* Memberships that end, or are deleted, disturb nothing as long as those
\* that stay in the table with another status are not managers'.
LEMMA EndingKeepsIndexes ==
    ASSUME Indexes,
           \A i \in Rows : \/ member'[i] = member[i]
                          \/ /\ member'[i].status \notin Live
                             /\ Stored(member'[i]) => member'[i].role # "manager"
    PROVE  Indexes'
  <1>1. OneTeamPerDriver'
    BY DEF Indexes, OneTeamPerDriver, OneLive
  <1>2. OneManagerPerTeam'
    BY DEF Indexes, OneManagerPerTeam, OneManager, Manages, Live
  <1>3. ManagerIsActive'
    BY DEF Indexes, ManagerIsActive
  <1> QED
    BY <1>1, <1>2, <1>3 DEF Indexes

LEMMA DecisionKeepsIndexes ==
    ASSUME TypeInv, Indexes, NEW c \in Calls, CommitDecision(c)
    PROVE  Indexes'
  <1> DEFINE i == call[c].row
  <1>1. i \in Rows /\ CallOK(c) /\ member \in [Rows -> Member]
    BY DEF TypeInv, TypeOK, CallsOK, CallOK, CommitDecision
  <1>2. CASE member' = member
    BY <1>2, EndingKeepsIndexes
  <1>3. CASE /\ call[c].op = "role" /\ member[i].role # "manager"
             /\ member' = [member EXCEPT ![i].role = call[c].to]
    <2>1. \A k \in Rows : /\ member'[k].status = member[k].status
                          /\ member'[k].team = member[k].team
                          /\ member'[k].profile = member[k].profile
                          /\ member'[k].role = "manager" => member[k].role = "manager"
      BY <1>1, <1>3 DEF CallOK, Member
    <2> QED
      BY <2>1 DEF Indexes, OneTeamPerDriver, OneLive, OneManagerPerTeam, OneManager,
                  Manages, ManagerIsActive, Stored
  <1>4. CASE /\ call[c].op = "resolve" /\ member[i].status = "pending"
             /\ member' = [member EXCEPT ![i].status = call[c].to]
    <2>1. member[i].role # "manager"
      BY <1>1, <1>4 DEF Indexes, ManagerIsActive, Stored
    <2>2. \A k \in Rows : /\ member'[k].team = member[k].team
                          /\ member'[k].profile = member[k].profile
                          /\ member'[k].role = member[k].role
                          /\ member'[k].status \in Live => member[k].status \in Live
                          /\ k # i => member'[k] = member[k]
      BY <1>1, <1>4 DEF CallOK, Member, Live
    <2> QED
      BY <2>1, <2>2 DEF Indexes, OneTeamPerDriver, OneLive, OneManagerPerTeam, OneManager,
                        Manages, ManagerIsActive, Stored
  <1>5. CASE /\ call[c].op = "remove" /\ member[i].role # "manager"
             /\ member' = [member EXCEPT ![i].status = call[c].to]
    BY <1>1, <1>5, EndingKeepsIndexes DEF CallOK, Member, Live
  <1> QED
    BY <1>2, <1>3, <1>4, <1>5 DEF CommitDecision

LEMMA HandOverKeepsIndexes ==
    ASSUME TypeInv, Indexes, NEW c \in Calls, CommitManager(c)
    PROVE  Indexes'
  <1>1. CASE member' = member
    BY <1>1, EndingKeepsIndexes
  <1>2. CASE StillActive(c) /\ Unique(member') /\ member' # member
    <2> DEFINE i == call[c].row
    <2>1. i \in Rows /\ member[i].status \in {"active", "gone"}
      BY <1>2 DEF TypeInv, CallsOK, CallOK, CommitManager, StillActive
    <2>2. \A k \in Rows : /\ member'[k].status = member[k].status
                          /\ k # i /\ member'[k].role = "manager" => member[k].role = "manager"
      BY <1>2 DEF CommitManager, TypeInv, TypeOK, Member
    <2>3. ManagerIsActive'
      BY <2>1, <2>2 DEF Indexes, ManagerIsActive, Stored
    <2> QED
      BY <1>2, <2>3 DEF Unique, Indexes, OneTeamPerDriver, OneManagerPerTeam
  <1> QED
    BY <1>1, <1>2 DEF CommitManager

LEMMA IndexStep ==
    ASSUME TypeInv, Indexes, [Next]_vars
    PROVE  Indexes'
  <1>1. CASE member' = member
    BY <1>1, EndingKeepsIndexes
  <1>2. ASSUME NEW i \in Rows, NEW t \in Teams, NEW p \in Profiles,
               Create(i, t, p) \/ Ask(i, t, p)
        PROVE  Indexes'
    BY <1>2, InsertKeepsIndexes DEF Create, Ask
  <1>3. ASSUME NEW i \in Rows, NEW s \in {"left", "rejected"}, Quit(i, s)
        PROVE  Indexes'
    BY <1>3, EndingKeepsIndexes DEF Quit, TypeInv, TypeOK, Member, Live
  <1>4. ASSUME NEW c \in Calls, CommitDrop(c)
        PROVE  Indexes'
    BY <1>4, EndingKeepsIndexes DEF CommitDrop, TypeInv, TypeOK, Member, Live, Stored
  <1>5. ASSUME NEW p \in Profiles, DeleteUser(p)
        PROVE  Indexes'
    BY <1>5, EndingKeepsIndexes DEF DeleteUser, TypeInv, TypeOK, Member, Live, Stored
  <1>6. ASSUME NEW c \in Calls, CommitDecision(c) \/ CommitManager(c)
        PROVE  Indexes'
    BY <1>6, DecisionKeepsIndexes, HandOverKeepsIndexes
  <1> QED
    BY <1>1, <1>2, <1>3, <1>4, <1>5, <1>6, Steps
       DEF vars, StartResolve, StartRole, StartRemove, Begin, StartTransfer,
           StartReassign, StartDrop, AbortDrop

LEMMA InitIndexes == Init => Indexes
  BY DEF Init, Indexes, OneTeamPerDriver, OneLive, OneManagerPerTeam, OneManager, Manages,
         ManagerIsActive, Live, Stored

LEMMA AlwaysMemberInv == Spec => [](TypeInv /\ Indexes)
  <1>1. Init => TypeInv /\ Indexes
    BY InitTypes, InitIndexes
  <1>2. TypeInv /\ Indexes /\ [Next]_vars => (TypeInv /\ Indexes)'
    BY TypeStep, IndexStep
  <1> QED
    BY <1>1, <1>2, PTL DEF Spec

\* No driver is on, or waiting on, two teams.
THEOREM OneTeam == Spec => []OneTeamPerDriver
  BY AlwaysMemberInv, PTL DEF Indexes

\* No team has two managers, however many hand-overs race.
THEOREM OneManagerOnly == Spec => []OneManagerPerTeam
  BY AlwaysMemberInv, PTL DEF Indexes

\* Nobody holds the manager's role who has left, was removed or is waiting.
THEOREM ManagersAreActive == Spec => []ManagerIsActive
  BY AlwaysMemberInv, PTL DEF Indexes

-----------------------------------------------------------------------------
\* A team keeps a manager.

\* The rows a hand-over works on are still there, and of one team.
HandOverOK(c) ==
    call[c].op \in {"transfer", "reassign"} =>
        /\ Stored(member[call[c].row])
        /\ call[c].mine \in Rows =>
               /\ Stored(member[call[c].mine])
               /\ member[call[c].mine].team = member[call[c].row].team

\* As long as no account was deleted every team has its manager, so nobody
\* deletes a team, and so no row has gone.
Managed ==
    account = Profiles =>
        /\ \A t \in Teams : team[t] = "open" => \E j \in Rows : Manages(member[j], t)
        /\ \A i \in Rows : member[i].status # "gone"
        /\ \A c \in Calls : call[c].op # "drop" /\ HandOverOK(c)

ManagedInv == TypeInv /\ Indexes /\ Managed

\* The first conjunct of Managed after a step.
AllManaged(tm, mm) ==
    \A t \in Teams : tm[t] = "open" => \E j \in Rows : Manages(mm[j], t)

\* Rows that are there stay, in the team they are in.
RowsStay == \A i \in Rows : Stored(member[i]) => /\ Stored(member'[i])
                                                /\ member'[i].team = member[i].team

LEMMA CallsFollow ==
    ASSUME Managed, TypeInv, account = Profiles, RowsStay,
           NEW c \in Calls, call'[c] = call[c] \/ call'[c] = Idle
    PROVE  call'[c].op # "drop" /\ HandOverOK(c)'
  <1>1. CASE call'[c] = Idle
    BY <1>1 DEF Idle, HandOverOK
  <1>2. CASE call'[c] = call[c]
    <2>1. call[c].op # "drop" /\ HandOverOK(c) /\ CallOK(c)
      BY DEF Managed, TypeInv, CallsOK
    <2> QED
      BY <1>2, <2>1 DEF HandOverOK, CallOK, RowsStay
  <1> QED
    BY <1>1, <1>2

LEMMA CreateManaged ==
    ASSUME ManagedInv, account = Profiles, NEW i \in Rows, NEW t \in Teams, NEW p \in Profiles,
           Create(i, t, p)
    PROVE  AllManaged(team', member')
  <1>1. /\ member'[i] = [team |-> t, profile |-> p, role |-> "manager", status |-> "active"]
        /\ \A k \in Rows \ {i} : member'[k] = member[k]
        /\ team' = [team EXCEPT ![t] = "open"] /\ member[i].status = "none"
    BY DEF Create, Insert, ManagedInv, TypeInv, TypeOK
  <1>2. Manages(member'[i], t)
    BY <1>1 DEF Manages
  <1>3. ASSUME NEW u \in Teams \ {t}, team'[u] = "open"
        PROVE  \E j \in Rows : Manages(member'[j], u)
    <2>1. team[u] = "open"
      BY <1>1, <1>3 DEF ManagedInv, TypeInv, TypeOK
    <2>2. PICK j \in Rows : Manages(member[j], u)
      BY <2>1 DEF ManagedInv, Managed
    <2>3. j # i
      BY <1>1, <2>2 DEF Manages
    <2> QED
      BY <1>1, <2>2, <2>3
  <1> QED
    BY <1>2, <1>3 DEF AllManaged

\* A step that leaves the teams and every manager's row alone.
LEMMA ManagersUntouched ==
    ASSUME ManagedInv, account = Profiles, team' = team,
           \A k \in Rows : member'[k] = member[k] \/ ~\E t \in Teams : Manages(member[k], t)
    PROVE  AllManaged(team', member')
  BY DEF ManagedInv, Managed, AllManaged

LEMMA DecisionManaged ==
    ASSUME ManagedInv, account = Profiles, NEW c \in Calls, CommitDecision(c)
    PROVE  AllManaged(team', member') /\ RowsStay
  <1> DEFINE i == call[c].row
  <1>1. /\ i \in Rows /\ CallOK(c) /\ member \in [Rows -> Member]
    BY DEF ManagedInv, TypeInv, TypeOK, CallsOK, CallOK, CommitDecision
  <1>2. \A k \in Rows \ {i} : member'[k] = member[k]
    BY <1>1 DEF CommitDecision
  <1>3. member'[i] = member[i] \/ ~\E t \in Teams : Manages(member[i], t)
    BY <1>1 DEF CommitDecision, Manages
  <1>4. AllManaged(team', member')
    BY <1>2, <1>3, ManagersUntouched DEF CommitDecision
  <1>5. Stored(member[i]) => Stored(member'[i]) /\ member'[i].team = member[i].team
    BY <1>1 DEF CommitDecision, CallOK, Member, Stored
  <1> QED
    BY <1>2, <1>4, <1>5 DEF RowsStay

LEMMA HandOverManaged ==
    ASSUME ManagedInv, account = Profiles, NEW c \in Calls, CommitManager(c)
    PROVE  AllManaged(team', member')
  <1> DEFINE i == call[c].row
             j == call[c].mine
  <1>1. CASE member' = member
    BY <1>1, ManagersUntouched DEF CommitManager
  <1>2. CASE StillActive(c) /\ member' # member
    <2>1. i \in Rows /\ Stored(member[i]) /\ member[i].status = "active"
      BY <1>2 DEF ManagedInv, Managed, TypeInv, CallsOK, CallOK, HandOverOK, CommitManager,
                  StillActive, Stored
    <2>2. j \in Rows => member[j].team = member[i].team
      BY DEF ManagedInv, Managed, HandOverOK, CommitManager
    <2>3. /\ member'[i] = [member[i] EXCEPT !.role = "manager"] 
             \/ member'[i] = [[member[i] EXCEPT !.role = "admin"] EXCEPT !.role = "manager"]
          /\ \A k \in Rows : k # i /\ k # j => member'[k] = member[k]
      BY <1>2, <2>1 DEF CommitManager
    <2>4. Manages(member'[i], member[i].team)
      BY <2>1, <2>3 DEF ManagedInv, TypeInv, TypeOK, Member, Manages
    <2>5. ASSUME NEW t \in Teams, team[t] = "open", t # member[i].team
          PROVE  \E k \in Rows : Manages(member'[k], t)
      <3>1. PICK k \in Rows : Manages(member[k], t)
        BY <2>5 DEF ManagedInv, Managed
      <3>2. k # i /\ k # j
        BY <2>2, <2>5, <3>1 DEF Manages
      <3> QED
        BY <2>3, <3>1, <3>2
    <2> QED
      BY <2>1, <2>4, <2>5 DEF AllManaged, CommitManager
  <1> QED
    BY <1>1, <1>2 DEF CommitManager

LEMMA HandOverStays ==
    ASSUME TypeInv, NEW c \in Calls, CommitManager(c)
    PROVE  RowsStay
  BY DEF TypeInv, TypeOK, CommitManager, Member, RowsStay, Stored

\* An administrator finds an active member in every team.
LEMMA NobodyDrops ==
    ASSUME ManagedInv, account = Profiles, NEW c \in Calls, NEW t \in Teams, StartDrop(c, t)
    PROVE  FALSE
  BY DEF ManagedInv, Managed, StartDrop, Manages, Stored

\* What a step does while every account still exists.
LEMMA ManagedParts ==
    ASSUME ManagedInv, account = Profiles, account' = Profiles, [Next]_vars
    PROVE  /\ AllManaged(team', member') /\ RowsStay
           /\ \A t \in Teams : team[t] = "open" => team'[t] = "open"
           /\ \A i \in Rows : member'[i].status = "gone" => member[i].status = "gone"
           /\ \A c \in Calls : \/ call'[c] = call[c] \/ call'[c] = Idle
                               \/ call'[c].op \in {"resolve", "role", "remove"}
                               \/ \E p \in account, i, j \in Rows : StartTransfer(c, p, i, j)
                               \/ \E i \in Rows, j \in Rows \cup {NoRow} : StartReassign(c, i, j)
  <1> DEFINE Parts ==
           /\ AllManaged(team', member') /\ RowsStay
           /\ \A t \in Teams : team[t] = "open" => team'[t] = "open"
           /\ \A i \in Rows : member'[i].status = "gone" => member[i].status = "gone"
           /\ \A c \in Calls : \/ call'[c] = call[c] \/ call'[c] = Idle
                               \/ call'[c].op \in {"resolve", "role", "remove"}
                               \/ \E p \in account, i, j \in Rows : StartTransfer(c, p, i, j)
                               \/ \E i \in Rows, j \in Rows \cup {NoRow} : StartReassign(c, i, j)
  <1>0. /\ team \in [Teams -> {"new", "open", "deleted"}] /\ member \in [Rows -> Member]
        /\ call \in [Calls -> Call]
    BY DEF ManagedInv, TypeInv, TypeOK
  <1>1. ASSUME UNCHANGED <<team, member>>
        PROVE  AllManaged(team', member') /\ RowsStay
    BY <1>1, ManagersUntouched DEF RowsStay
  <1>2. CASE UNCHANGED vars
    BY <1>1, <1>2 DEF vars
  <1>3. ASSUME NEW i \in Rows, NEW t \in Teams, NEW p \in Profiles, Create(i, t, p)
        PROVE  Parts
    <2>1. RowsStay /\ \A k \in Rows : member'[k].status = "gone" => member[k].status = "gone"
      BY <1>0, <1>3 DEF Create, Insert, RowsStay, Stored
    <2> QED
      BY <1>0, <1>3, <2>1, CreateManaged DEF Create
  <1>4. ASSUME NEW i \in Rows, NEW t \in Teams, NEW p \in Profiles, Ask(i, t, p)
        PROVE  Parts
    <2>1. /\ RowsStay
          /\ \A k \in Rows : /\ member'[k].status = "gone" => member[k].status = "gone"
                             /\ member'[k] = member[k] \/ member[k].status = "none"
      BY <1>0, <1>4 DEF Ask, Insert, RowsStay, Stored
    <2>2. AllManaged(team', member')
      BY <1>4, <2>1, ManagersUntouched DEF Ask, Manages
    <2> QED
      BY <1>4, <2>1, <2>2 DEF Ask
  <1>5. ASSUME NEW i \in Rows, NEW s \in {"left", "rejected"}, Quit(i, s)
        PROVE  Parts
    <2>1. /\ RowsStay
          /\ \A k \in Rows : /\ member'[k].status = "gone" => member[k].status = "gone"
                             /\ member'[k] = member[k] \/ member[k].role # "manager"
      BY <1>0, <1>5 DEF Quit, RowsStay, Stored, Member
    <2>2. AllManaged(team', member')
      BY <1>5, <2>1, ManagersUntouched DEF Quit, Manages
    <2> QED
      BY <1>5, <2>1, <2>2 DEF Quit
  <1>6. ASSUME NEW p \in Profiles, DeleteUser(p)
        PROVE  FALSE
    BY <1>6 DEF DeleteUser
  <1>7. ASSUME NEW c \in Calls, NEW op \in {"resolve", "role", "remove"}, NEW i, NEW to,
               Begin(c, op, i, to)
        PROVE  Parts
    <2>1. call'[c].op = op /\ \A d \in Calls : d # c => call'[d] = call[d]
      BY <1>0, <1>7 DEF Begin, Idle
    <2> QED
      BY <1>1, <1>7, <2>1 DEF Begin
  <1>8. ASSUME NEW c \in Calls, CommitDecision(c)
        PROVE  Parts
    <2>1. \A k \in Rows : member'[k].status = "gone" => member[k].status = "gone"
      BY <1>0, <1>8 DEF CommitDecision, ManagedInv, TypeInv, CallsOK, CallOK
    <2>2. \A d \in Calls : call'[d] = call[d] \/ call'[d] = Idle
      BY <1>0, <1>8 DEF CommitDecision
    <2> QED
      BY <1>8, <2>1, <2>2, DecisionManaged DEF CommitDecision
  <1>9. ASSUME NEW c \in Calls, CommitManager(c)
        PROVE  Parts
    <2>1. \A k \in Rows : member'[k].status = "gone" => member[k].status = "gone"
      BY <1>0, <1>9 DEF CommitManager, Member
    <2>2. \A d \in Calls : call'[d] = call[d] \/ call'[d] = Idle
      BY <1>0, <1>9 DEF CommitManager
    <2>3. TypeInv
      BY DEF ManagedInv
    <2> QED
      BY <1>9, <2>1, <2>2, <2>3, HandOverManaged, HandOverStays DEF CommitManager
  <1>10. ASSUME NEW c \in Calls, NEW p \in account, NEW i \in Rows, NEW j \in Rows,
                StartTransfer(c, p, i, j)
         PROVE  Parts
    <2>1. \A d \in Calls : d # c => call'[d] = call[d]
      BY <1>0, <1>10 DEF StartTransfer
    <2> QED
      BY <1>1, <1>10, <2>1 DEF StartTransfer
  <1>11. ASSUME NEW c \in Calls, NEW i \in Rows, NEW j \in Rows \cup {NoRow},
                StartReassign(c, i, j)
         PROVE  Parts
    <2>1. \A d \in Calls : d # c => call'[d] = call[d]
      BY <1>0, <1>11 DEF StartReassign
    <2> QED
      BY <1>1, <1>11, <2>1 DEF StartReassign
  <1>12. ASSUME NEW c \in Calls, CommitDrop(c) \/ AbortDrop(c)
         PROVE  FALSE
    BY <1>12 DEF CommitDrop, AbortDrop, ManagedInv, Managed
  <1>13. ASSUME NEW c \in Calls, NEW p, NEW i, NEW to,
                StartResolve(c, p, i, to) \/ StartRole(c, p, i, to) \/ StartRemove(c, p, i)
         PROVE  Parts
    BY <1>7, <1>13 DEF StartResolve, StartRole, StartRemove
  <1> QED
    BY <1>2, <1>3, <1>4, <1>5, <1>6, <1>8, <1>9, <1>10, <1>11, <1>12, <1>13, NobodyDrops, Steps

LEMMA ManagedStep ==
    ASSUME ManagedInv, [Next]_vars
    PROVE  Managed'
  <1> SUFFICES ASSUME account' = Profiles
               PROVE  Managed'
    BY DEF Managed
  <1>1. account = Profiles
    BY Steps DEF ManagedInv, TypeInv, TypeOK, vars, Create, Ask, Quit, StartResolve, StartRole,
       StartRemove, Begin, CommitDecision, StartTransfer, StartReassign, CommitManager,
       StartDrop, CommitDrop, AbortDrop, DeleteUser
  <1>2. AllManaged(team', member') /\ RowsStay
    BY <1>1, ManagedParts
  <1>3. \A i \in Rows : member'[i].status # "gone"
    BY <1>1, ManagedParts DEF ManagedInv, Managed
  <1>4. ASSUME NEW c \in Calls
        PROVE  call'[c].op # "drop" /\ HandOverOK(c)'
    <2>1. CASE call'[c] = call[c] \/ call'[c] = Idle
      BY <1>1, <1>2, <2>1, CallsFollow DEF ManagedInv
    <2>2. CASE call'[c].op \in {"resolve", "role", "remove"}
      BY <2>2 DEF HandOverOK
    <2>3. CASE \E p \in account, i, j \in Rows : StartTransfer(c, p, i, j)
      BY <2>3 DEF StartTransfer, HandOverOK, Manages, Stored, ManagedInv, TypeInv, TypeOK, Call, Idle
    <2>4. CASE \E i \in Rows, j \in Rows \cup {NoRow} : StartReassign(c, i, j)
      BY <2>4, ConstantsOK
         DEF StartReassign, HandOverOK, Manages, Stored, ManagedInv, TypeInv, TypeOK, Call, Idle
    <2> QED
      BY <1>1, <2>1, <2>2, <2>3, <2>4, ManagedParts
  <1> QED
    BY <1>2, <1>3, <1>4 DEF Managed, AllManaged

\* While no account is deleted, a team that has a manager keeps one.
THEOREM TeamKeepsManager == Spec => ManagerStays
  <1>1. Init => ManagedInv
    <2>1. Init => Managed
      BY DEF Init, Managed, Idle, HandOverOK
    <2> QED
      BY <2>1, InitTypes, InitIndexes DEF ManagedInv
  <1>2. ManagedInv /\ [Next]_vars => ManagedInv'
    BY TypeStep, IndexStep, ManagedStep DEF ManagedInv
  <1>3. ASSUME ManagedInv, ManagedInv', [Next]_vars, account' = Profiles, NEW t \in Teams,
               \E i \in Rows : Manages(member[i], t)
        PROVE  \E j \in Rows : Manages(member'[j], t)
    <2>1. account = Profiles
      BY <1>3, Steps DEF ManagedInv, TypeInv, TypeOK, vars, Create, Ask, Quit, StartResolve,
         StartRole, StartRemove, Begin, CommitDecision, StartTransfer, StartReassign,
         CommitManager, StartDrop, CommitDrop, AbortDrop, DeleteUser
    <2>2. team[t] = "open"
      BY <1>3 DEF ManagedInv, TypeInv, TypeOK, Manages, Stored
    <2> QED
      BY <1>3, <2>1, <2>2, ManagedParts DEF AllManaged
  <1>4. ManagedInv /\ ManagedInv' /\ [Next]_vars =>
            [account' = Profiles =>
                 \A t \in Teams : (\E i \in Rows : Manages(member[i], t)) =>
                                      \E j \in Rows : Manages(member'[j], t)]_vars
    BY <1>3
  <1> QED
    BY <1>1, <1>2, <1>4, PTL DEF Spec, ManagerStays

=============================================================================
