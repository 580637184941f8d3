----------------------------- MODULE Attribution -----------------------------
(***************************************************************************)
(* Whose session is it, and who may see it: driver profiles and their      *)
(* claims, the attribution of sessions to profiles, and the boards and     *)
(* policies that read it (telemetry/accounts.py, worker/processor.py, the  *)
(* upload and home pages of web/, migrations 0001, 0002, 0008, 0011, 0014, *)
(* 0017 and 0018).                                                         *)
(*                                                                         *)
(* A transaction is an action.  Claiming is two: claim_profile checks in   *)
(* transactions of its own before it updates.  So is an upload: the worker *)
(* saves a session, analyses it, and then attributes it.                   *)
(***************************************************************************)
EXTENDS FiniteSets

CONSTANTS
    Users, Profiles, Sessions, Requests,   \* ids there will ever be
    Callers,                               \* processes that claim
    Teams,
    Tiers,                                 \* bound: sharing tiers in use
    NoUser, NoProfile, NoTeam

ASSUME AttributionConstantsOK ==
    /\ NoUser \notin Users /\ NoProfile \notin Profiles /\ NoTeam \notin Teams
    /\ Sessions # {}
    /\ Tiers \subseteq {"private", "team", "shared"}

VARIABLES
    profile,   \* driver_profiles
    session,   \* sessions: the ownership columns
    request,   \* attribution_requests
    claim,     \* [Callers -> the claim a caller has checked]
    member,    \* [Profiles -> the active membership (see Teams)]
    upload,    \* [Sessions -> profile the worker has still to attribute it to]
    listed,    \* sessions an open Upload page lists as unassigned
    hand       \* who moved or deleted a session in the last step; NoUser:
               \* nobody, or it was the worker or an admin

vars == <<profile, session, request, claim, member, upload, listed, hand>>

Profile == [status : {"none", "unclaimed", "invited", "claimed"}, user : Users \cup {NoUser},
            link : BOOLEAN,                    \* has a claim link that is not expired
            creator : Users \cup {NoUser}]
Session == [stored : BOOLEAN, driver : Profiles \cup {NoProfile}, by : Users \cup {NoUser},
            status : {"confirmed", "pending_confirmation", "rejected"},
            visibility : {"private", "team", "shared"}]
Request == [status : {"none", "pending", "accepted", "rejected"},
            session : Sessions, target : Profiles \cup {NoProfile}, by : Users \cup {NoUser}]

NoRow     == [status |-> "none", user |-> NoUser, link |-> FALSE, creator |-> NoUser]
NotStored == [stored |-> FALSE, driver |-> NoProfile, by |-> NoUser,
              status |-> "confirmed", visibility |-> "private"]
NoRequest == [status |-> "none", session |-> CHOOSE s \in Sessions : TRUE,
              target |-> NoProfile, by |-> NoUser]
NoClaim   == [profile |-> NoProfile, user |-> NoUser]
Nowhere   == [team |-> NoTeam, lead |-> FALSE]

Exists(p) == profile[p].status # "none"

Init ==
    /\ profile = [p \in Profiles |-> NoRow]
    /\ session = [s \in Sessions |-> NotStored]
    /\ request = [r \in Requests |-> NoRequest]
    /\ claim = [c \in Callers |-> NoClaim]
    /\ member = [p \in Profiles |-> Nowhere]
    /\ upload = [s \in Sessions |-> NoProfile]
    /\ listed = {}
    /\ hand = NoUser

-----------------------------------------------------------------------------
(* What may be read. *)

HasProfile(u) == \E p \in Profiles : profile[p].user = u

Owner(s) == IF session[s].driver = NoProfile THEN NoUser ELSE profile[session[s].driver].user

\* Confirmed, and under a claimed profile.
Settled(s) ==
    /\ session[s].stored /\ session[s].status = "confirmed"
    /\ session[s].driver # NoProfile
    /\ profile[session[s].driver].status = "claimed"
    /\ Owner(s) # NoUser

\* The public predicate (PUBLIC_VISIBILITY_SQL)
Public(s) == session[s].visibility = "shared" /\ Settled(s)

\* shares_active_team_with
SharesActiveTeamWith(u, p) ==
    \E q \in Profiles : profile[q].user = u /\ member[q].team = member[p].team /\ member[p].team # NoTeam

\* user_manages_team_of
ManagesTeamOf(u, v) ==
    \E p, q \in Profiles :
        /\ profile[p].user = v /\ member[p].team # NoTeam
        /\ profile[q].user = u /\ member[q].team = member[p].team /\ member[q].lead

\* A placeholder whose creator a user is, or manages.
Keeps(u, p) ==
    /\ profile[p].status \in {"unclaimed", "invited"} /\ profile[p].creator # NoUser
    /\ profile[p].creator = u \/ ManagesTeamOf(u, profile[p].creator)

\* driver_profiles_select
ProfilesSelect(u) == {p \in Profiles : profile[p].status = "claimed" \/ Keeps(u, p)}

\* sessions_select
SessionsSelect(u) ==
    {s \in Sessions : session[s].stored /\
        \/ Public(s)
        \/ session[s].by = u
        \/ Owner(s) = u
        \/ /\ session[s].visibility \in {"team", "shared"} /\ Settled(s)
           /\ SharesActiveTeamWith(u, session[s].driver)
        \/ /\ session[s].driver # NoProfile
           /\ profile[session[s].driver].status \in {"unclaimed", "invited"}
           /\ profile[session[s].driver].creator # NoUser
           /\ ManagesTeamOf(u, profile[session[s].driver].creator)}

\* track_driver_podium: the sessions that count, of those the viewer may read.
DriverPodium(u) ==
    {s \in SessionsSelect(u) : Public(s) /\ session[s].driver \in ProfilesSelect(u)}

\* Mutant: the predicate of telemetry/accounts.py's team_leaderboard.
TeamPodiumTeamsOwn ==
    {s \in Sessions : /\ session[s].visibility \in {"team", "shared"} /\ Settled(s)
                      /\ member[session[s].driver].team # NoTeam}

\* track_team_podium: of all sessions, whoever asks.
TeamPodium == {s \in Sessions : Public(s) /\ member[session[s].driver].team # NoTeam}

\* track_map_source: where the circuit is drawn from; the viewer's own
\* sessions only while no session is public.
MapSource(u) ==
    IF DriverPodium(u) # {} THEN DriverPodium(u)
    ELSE {s \in SessionsSelect(u) : Owner(s) = u}

-----------------------------------------------------------------------------
(* Driver profiles *)

\* create_profile_for_user: claimed from the outset.
CreateProfileForUser(p, u) ==
    /\ ~Exists(p)
    /\ ~HasProfile(u)
    /\ profile' = [profile EXCEPT ![p] = [NoRow EXCEPT !.status = "claimed", !.user = u]]
    /\ hand' = NoUser
    /\ UNCHANGED <<session, request, claim, member, upload, listed>>

\* create_unclaimed_profile, create_driver and addDriver: with an address an
\* invitation, else a placeholder.
CreateUnclaimedProfile(p, u, invite) ==
    /\ ~Exists(p)
    /\ profile' = [profile EXCEPT ![p] =
          [NoRow EXCEPT !.status = IF invite THEN "invited" ELSE "unclaimed",
                        !.link = invite, !.creator = u]]
    /\ hand' = NoUser
    /\ UNCHANGED <<session, request, claim, member, upload, listed>>

\* Time passes claim_token_expires_at.
Expire(p) ==
    /\ profile[p].link
    /\ profile' = [profile EXCEPT ![p].link = FALSE]
    /\ hand' = NoUser
    /\ UNCHANGED <<session, request, claim, member, upload, listed>>

\* get_profile_by_claim_token
ByClaimToken(p) == profile[p].link /\ profile[p].status # "claimed"

\* Mutant: only a link's status is checked.
CheckClaimOfLink(c, p, u, byLink) ==
    /\ claim[c] = NoClaim
    /\ byLink => ByClaimToken(p)
    /\ Exists(p)
    /\ ~HasProfile(u)
    /\ claim' = [claim EXCEPT ![c] = [profile |-> p, user |-> u]]
    /\ hand' = NoUser
    /\ UNCHANGED <<profile, session, request, member, upload, listed>>

\* claim_profile: its checks, of a profile named by its id or by a link,
CheckClaim(c, p, u, byLink) ==
    /\ claim[c] = NoClaim
    /\ byLink => ByClaimToken(p)
    /\ profile[p].status \notin {"none", "claimed"}
    /\ ~HasProfile(u)
    /\ claim' = [claim EXCEPT ![c] = [profile |-> p, user |-> u]]
    /\ hand' = NoUser
    /\ UNCHANGED <<profile, session, request, member, upload, listed>>

\* Mutant: the link can be used again.
ClaimProfileKeepingToken(c) ==
    LET p == claim[c].profile  u == claim[c].user
    IN  /\ claim[c] # NoClaim
        /\ claim' = [claim EXCEPT ![c] = NoClaim]
        /\ profile' =
              IF \E q \in Profiles \ {p} : profile[q].user = u THEN profile
              ELSE [profile EXCEPT ![p] = [@ EXCEPT !.status = "claimed", !.user = u]]
        /\ hand' = NoUser
        /\ UNCHANGED <<session, request, member, upload, listed>>

\* and its update, of the row whatever it is by now; UNIQUE (user_id) may
\* refuse it.
ClaimProfile(c) ==
    LET p == claim[c].profile  u == claim[c].user
    IN  /\ claim[c] # NoClaim
        /\ claim' = [claim EXCEPT ![c] = NoClaim]
        /\ profile' =
              IF \E q \in Profiles \ {p} : profile[q].user = u THEN profile
              ELSE [profile EXCEPT ![p] = [@ EXCEPT !.status = "claimed", !.user = u, !.link = FALSE]]
        /\ hand' = NoUser
        /\ UNCHANGED <<session, request, member, upload, listed>>

\* An active membership begins, ends or changes its role (see Teams).
ChangeTeam(p, t, lead) ==
    /\ profile[p].status = "claimed"
    /\ t = NoTeam => ~lead
    /\ member[p] # [team |-> t, lead |-> lead]
    /\ member' = [member EXCEPT ![p] = [team |-> t, lead |-> lead]]
    /\ hand' = NoUser
    /\ UNCHANGED <<profile, session, request, claim, upload, listed>>

\* admin_delete_user: an account's sessions, uploaded or driven, with the
\* requests about them; what hangs on its profiles, and these; the profiles
\* made for others stay.  A claim or an attribution under way then finds no row.
AdminDeleteUser(u) ==
    LET mine == {p \in Profiles : profile[p].user = u}
        gone == {s \in Sessions : session[s].stored /\
                    (session[s].by = u \/ session[s].driver \in mine)}
    IN  /\ profile' = [p \in Profiles |->
              IF p \in mine THEN NoRow
              ELSE IF profile[p].creator = u THEN [profile[p] EXCEPT !.creator = NoUser]
              ELSE profile[p]]
        /\ session' = [s \in Sessions |-> IF s \in gone THEN NotStored ELSE session[s]]
        /\ request' = [r \in Requests |->
              IF request[r].session \in gone \/ request[r].target \in mine \/ request[r].by = u
              THEN NoRequest ELSE request[r]]
        /\ member' = [p \in Profiles |-> IF p \in mine THEN Nowhere ELSE member[p]]
        /\ claim' = [c \in Callers |->
              IF claim[c].user = u \/ claim[c].profile \in mine THEN NoClaim ELSE claim[c]]
        /\ upload' = [s \in Sessions |->
              IF s \in gone \/ upload[s] \in mine THEN NoProfile ELSE upload[s]]
        /\ listed' = listed \ gone
        /\ hand' = NoUser

-----------------------------------------------------------------------------
(* Sessions *)

\* save_session, for a batch of user u: under the profile the batch names,
\* whoever's it is, or none ("Decide after parsing").
SaveSession(s, p, u, v) ==
    /\ ~session[s].stored
    /\ p # NoProfile => Exists(p)
    /\ session' = [session EXCEPT ![s] =
          [stored |-> TRUE, driver |-> p, by |-> u, status |-> "confirmed", visibility |-> v]]
    /\ upload' = [upload EXCEPT ![s] = p]
    /\ hand' = NoUser
    /\ UNCHANGED <<profile, request, claim, member, listed>>

Attributed(x, p, u, ask) ==
    [x EXCEPT !.driver = p, !.by = u, !.status = IF ask THEN "pending_confirmation" ELSE "confirmed"]

\* The worker's attribute_session, which asks nobody.
FinishUpload(s) ==
    /\ upload[s] # NoProfile
    /\ session' = [session EXCEPT ![s] = Attributed(@, upload[s], session[s].by, FALSE)]
    /\ upload' = [upload EXCEPT ![s] = NoProfile]
    /\ hand' = NoUser
    /\ UNCHANGED <<profile, request, claim, member, listed>>

\* The worker fails or is killed before: a later run skips a stored session.
LoseWorker(s) ==
    /\ upload[s] # NoProfile
    /\ upload' = [upload EXCEPT ![s] = NoProfile]
    /\ hand' = NoUser
    /\ UNCHANGED <<profile, session, request, claim, member, listed>>

\* attribute_session, by the uploader: asking is the caller's choice.
AttributeSession(s, p, u, ask) ==
    /\ session[s].stored /\ session[s].by = u /\ Exists(p)
    /\ session' = [session EXCEPT ![s] = Attributed(@, p, u, ask)]
    /\ IF ask
       THEN \E r \in Requests :
               /\ request[r].status = "none"
               /\ request' = [request EXCEPT ![r] =
                     [status |-> "pending", session |-> s, target |-> p, by |-> u]]
       ELSE UNCHANGED request
    /\ hand' = u
    /\ UNCHANGED <<profile, claim, member, upload, listed>>

\* resolve_attribution_request, by the driver it is for: the session is the
\* request's, its driver whoever it is by now; that the request is pending is
\* not checked.
ResolveAttributionRequest(r, accept) ==
    LET s == request[r].session
    IN  /\ request[r].status # "none"
        /\ profile[request[r].target].user # NoUser
        /\ session' = [session EXCEPT ![s] =
              IF accept THEN [@ EXCEPT !.status = "confirmed"]
              ELSE [@ EXCEPT !.driver = NoProfile, !.status = "rejected"]]
        /\ request' = [request EXCEPT ![r].status = IF accept THEN "accepted" ELSE "rejected"]
        /\ hand' = profile[request[r].target].user
        /\ UNCHANGED <<profile, claim, member, upload, listed>>

\* sessions_update_own, sessions_delete_own
MayWrite(u, s) == session[s].stored /\ (session[s].by = u \/ Owner(s) = u)

\* HomeClient's patch of the sharing tier
SetSessionVisibility(s, v, u) ==
    /\ MayWrite(u, s) /\ session[s].visibility # v
    /\ session' = [session EXCEPT ![s].visibility = v]
    /\ hand' = NoUser
    /\ UNCHANGED <<profile, request, claim, member, upload, listed>>

\* HomeClient's remove; a request that names the session refuses it.
DeleteSession(s, u) ==
    /\ MayWrite(u, s)
    /\ \A r \in Requests : request[r].status = "none" \/ request[r].session # s
    /\ session' = [session EXCEPT ![s] = NotStored]
    /\ upload' = [upload EXCEPT ![s] = NoProfile]
    /\ listed' = listed \ {s}
    /\ hand' = u
    /\ UNCHANGED <<profile, request, claim, member>>

\* The Upload page lists its user's sessions without a driver,
ListUnassigned(s) ==
    /\ session[s].stored /\ session[s].driver = NoProfile
    /\ listed' = listed \cup {s}
    /\ hand' = NoUser
    /\ UNCHANGED <<profile, session, request, claim, member, upload>>

\* Mutant: whoever has the page open, as if sessions_update_own were not there.
AssignByAnyone(s, p, u) ==
    /\ s \in listed /\ p \in ProfilesSelect(u)
    /\ session' = [session EXCEPT ![s].driver = p]
    /\ hand' = u
    /\ UNCHANGED <<profile, request, claim, member, upload, listed>>

\* and assign files one of them, whatever driver it has by now.
Assign(s, p, u) ==
    /\ s \in listed /\ session[s].by = u /\ p \in ProfilesSelect(u)
    /\ session' = [session EXCEPT ![s].driver = p]
    /\ hand' = u
    /\ UNCHANGED <<profile, request, claim, member, upload, listed>>

\* Mutant: that the source is a placeholder still is left to the page.
ReassignAnyDriverSessions(from, to, u) ==
    /\ Exists(from) /\ profile[from].creator # NoUser
    /\ profile[from].creator = u \/ ManagesTeamOf(u, profile[from].creator)
    /\ profile[to].status = "claimed"
    /\ session' = [s \in Sessions |->
          IF session[s].driver = from THEN [session[s] EXCEPT !.driver = to] ELSE session[s]]
    /\ hand' = u
    /\ UNCHANGED <<profile, request, claim, member, upload, listed>>

\* reassign_temp_driver_sessions: a placeholder's sessions to a real driver, by
\* its creator or a manager of the creator's team.
ReassignTempDriverSessions(from, to, u) ==
    /\ Keeps(u, from)
    /\ profile[to].status = "claimed"
    /\ session' = [s \in Sessions |->
          IF session[s].driver = from THEN [session[s] EXCEPT !.driver = to] ELSE session[s]]
    /\ hand' = u
    /\ UNCHANGED <<profile, request, claim, member, upload, listed>>

-----------------------------------------------------------------------------

Claiming == \E c \in Callers, p \in Profiles, u \in Users :
                \/ \E byLink \in BOOLEAN : CheckClaim(c, p, u, byLink)
                \/ ClaimProfile(c)

Uploading == \E s \in Sessions :
                \/ \E p \in Profiles \cup {NoProfile}, u \in Users, v \in Tiers :
                      SaveSession(s, p, u, v)
                \/ FinishUpload(s) \/ LoseWorker(s)

Next ==
    \/ \E p \in Profiles : Expire(p)
    \/ \E p \in Profiles, u \in Users :
          CreateProfileForUser(p, u) \/ \E invite \in BOOLEAN : CreateUnclaimedProfile(p, u, invite)
    \/ Claiming \/ Uploading
    \/ \E p \in Profiles, t \in Teams \cup {NoTeam}, lead \in BOOLEAN : ChangeTeam(p, t, lead)
    \/ \E u \in Users : AdminDeleteUser(u)
    \/ \E s \in Sessions, p \in Profiles, u \in Users :
          Assign(s, p, u) \/ \E ask \in BOOLEAN : AttributeSession(s, p, u, ask)
    \/ \E from, to \in Profiles, u \in Users : ReassignTempDriverSessions(from, to, u)
    \/ \E r \in Requests, accept \in BOOLEAN : ResolveAttributionRequest(r, accept)
    \/ \E s \in Sessions : ListUnassigned(s)
    \/ \E s \in Sessions, u \in Users :
          DeleteSession(s, u) \/ \E v \in Tiers : SetSessionVisibility(s, v, u)

Spec == Init /\ [][Next]_vars

-----------------------------------------------------------------------------
(* Properties *)

\* Types; an account has one profile (UNIQUE (user_id)) and a claimed profile an
\* account; only an invitation has a link; and foreign keys, which a deletion
\* must clear.
TypeOK ==
    /\ profile \in [Profiles -> Profile]
    /\ session \in [Sessions -> Session]
    /\ request \in [Requests -> Request]
    /\ claim \in [Callers -> [profile : Profiles \cup {NoProfile}, user : Users \cup {NoUser}]]
    /\ member \in [Profiles -> [team : Teams \cup {NoTeam}, lead : BOOLEAN]]
    /\ upload \in [Sessions -> Profiles \cup {NoProfile}]
    /\ listed \subseteq {s \in Sessions : session[s].stored}
    /\ hand \in Users \cup {NoUser}
    /\ \A p, q \in Profiles : (profile[p].user # NoUser /\ profile[p].user = profile[q].user) => p = q
    /\ \A p \in Profiles : profile[p].status = "claimed" <=> profile[p].user # NoUser
    /\ \A p \in Profiles : profile[p].link => profile[p].status = "invited"
    /\ \A p \in Profiles : member[p].team # NoTeam => profile[p].status = "claimed"
    /\ \A s \in Sessions : session[s].driver # NoProfile => session[s].stored /\ Exists(session[s].driver)
    /\ \A s \in Sessions : upload[s] # NoProfile => session[s].stored /\ Exists(upload[s])
    /\ \A r \in Requests : request[r].status # "none" =>
          session[request[r].session].stored /\ request[r].target \in Profiles /\ Exists(request[r].target)

\* A session that counts as a driver's leaves that driver's record only by the
\* driver's own hand, the uploader's or that of a driver who was asked about it,
\* with an account that is deleted, or while its upload is not finished: by no
\* teammate, manager or creator of placeholders, also when a placeholder is
\* claimed while they file or move its sessions ("That profile is already a
\* real, claimed driver -- nothing to reassign", 0018:125).
DriversKeepTheirs ==
    [][\A s \in Sessions :
          (Settled(s) /\ session'[s].driver # session[s].driver) =>
              \/ hand' \in {session[s].by, Owner(s)}
              \/ \E r \in Requests : /\ request[r].status # "none" /\ request[r].session = s
                                     /\ hand' = profile[request[r].target].user
              \/ hand' = NoUser /\ (upload[s] # NoProfile \/ ~session'[s].stored)]_vars

\* Who claimed a profile keeps it until the account is deleted: a claim is
\* refused or lost to an earlier one, and never takes over a profile or gives up
\* one (of one claim at a time; two at once are decided by the later).
ClaimsStand ==
    [][\A p \in Profiles : (profile[p].user # NoUser /\ profile'[p].status # "none") =>
          profile'[p].user = profile[p].user]_vars

\* The podiums are "identical for every viewer" (0011:22-27) although one reads
\* through the viewer's policies and the other around them: what counts on one
\* can be opened by everybody who looks, and the circuit is drawn from the same
\* lap for all as soon as there is one.
PodiumsForEveryone ==
    /\ \A u, v \in Users : DriverPodium(u) = DriverPodium(v)
    /\ \A u \in Users : TeamPodium \subseteq DriverPodium(u) /\ MapSource(u) \subseteq SessionsSelect(u)
    /\ \A u, v \in Users : DriverPodium(u) # {} => MapSource(u) = MapSource(v)

-----------------------------------------------------------------------------
(* What the repository says and the code does not keep: no run or theorem    *)
(* has it, TLC refutes it (README, section 4).                               *)

\* "Filing someone else's session straight into their history without asking
\* would make one account able to write into another's record, so an upload
\* attributed to an already-registered driver lands" in a request first
\* (accounts.py:153-156).
FiledByConsent ==
    [][\A s \in Sessions :
          LET p == session'[s].driver
          IN  (/\ Settled(s)' /\ ~(Settled(s) /\ session[s].driver = p)
               /\ profile[p].status = "claimed" /\ profile[p].user # session'[s].by)
              => \E r \in Requests : /\ request'[r].status = "accepted"
                                     /\ request'[r].session = s /\ request'[r].target = p]_vars

=============================================================================
