-------------------------- MODULE AttributionProofs --------------------------
(***************************************************************************)
(* Proofs about Attribution, for any number of users, profiles, sessions   *)
(* and requests: types, uniqueness and foreign keys; that claims stand,    *)
(* when they are made one at a time; and that a driver's sessions stay the *)
(* driver's, whoever files and moves sessions of placeholders meanwhile.   *)
(***************************************************************************)
EXTENDS Attribution, TLAPS

USE AttributionConstantsOK DEF AttributionConstantsOK

-----------------------------------------------------------------------------
(* Types *)

\* The rows of profiles and memberships,
PType ==
    /\ profile \in [Profiles -> Profile]
    /\ member \in [Profiles -> [team : Teams \cup {NoTeam}, lead : BOOLEAN]]
    /\ \A p, q \in Profiles : (profile[p].user # NoUser /\ profile[p].user = profile[q].user) => p = q
    /\ \A p \in Profiles : profile[p].status = "claimed" <=> profile[p].user # NoUser
    /\ \A p \in Profiles : profile[p].link => profile[p].status = "invited"
    /\ \A p \in Profiles : member[p].team # NoTeam => profile[p].status = "claimed"

\* of sessions and what is known of them elsewhere,
SType ==
    /\ session \in [Sessions -> Session]
    /\ upload \in [Sessions -> Profiles \cup {NoProfile}]
    /\ listed \subseteq {s \in Sessions : session[s].stored}
    /\ \A s \in Sessions : session[s].driver # NoProfile => session[s].stored /\ Exists(session[s].driver)
    /\ \A s \in Sessions : upload[s] # NoProfile => session[s].stored /\ Exists(upload[s])

\* of requests,
RType ==
    /\ request \in [Requests -> Request]
    /\ \A r \in Requests : request[r].status # "none" =>
          session[request[r].session].stored /\ request[r].target \in Profiles /\ Exists(request[r].target)

\* and the claims under way, which name a profile and a user.
CType ==
    /\ claim \in [Callers -> [profile : Profiles \cup {NoProfile}, user : Users \cup {NoUser}]]
    /\ \A c \in Callers : claim[c] # NoClaim => claim[c].profile \in Profiles /\ claim[c].user \in Users

HType == hand \in Users \cup {NoUser}

IType == PType /\ SType /\ RType /\ CType /\ HType

LEMMA ITypeImpliesTypeOK == IType => TypeOK
BY DEF IType, PType, SType, RType, CType, HType, TypeOK

LEMMA Rows ==
    /\ NoRow \in Profile
    /\ NotStored \in Session
    /\ NoRequest \in Request
    /\ Nowhere \in [team : Teams \cup {NoTeam}, lead : BOOLEAN]
    /\ NoClaim \in [profile : Profiles \cup {NoProfile}, user : Users \cup {NoUser}]
<1>1. (CHOOSE s \in Sessions : TRUE) \in Sessions
      OBVIOUS
<1>2. NoRequest \in Request
      BY <1>1 DEF NoRequest, Request
<1> QED BY <1>2 DEF NoRow, NotStored, Nowhere, NoClaim, Profile, Session

LEMMA InitIType == Init => IType
<1> SUFFICES ASSUME Init PROVE IType
    OBVIOUS
<1>1. PType
      BY Rows DEF Init, PType, NoRow, Nowhere
<1>2. SType
      BY Rows DEF Init, SType, NotStored
<1>3. RType
      BY Rows DEF Init, RType, NoRequest
<1>4. CType
      BY Rows DEF Init, CType
<1> QED BY <1>1, <1>2, <1>3, <1>4 DEF Init, IType, HType

\* Steps that change profiles, memberships and claims, and end no profile.
LEMMA SessionsUntouched ==
    ASSUME IType, UNCHANGED <<session, request, upload, listed>>, PType', CType', HType',
           \A p \in Profiles : Exists(p) => Exists(p)'
    PROVE  IType'
<1>1. SType'
      BY DEF IType, SType, Session
<1>2. RType'
      BY DEF IType, RType
<1> QED BY <1>1, <1>2 DEF IType

\* Steps that leave the profiles alone.
LEMMA ProfilesUntouched ==
    ASSUME IType, UNCHANGED <<profile, member, claim>>, SType', RType', HType'
    PROVE  IType'
<1>1. PType'
      BY DEF IType, PType
<1>2. CType'
      BY DEF IType, CType
<1> QED BY <1>1, <1>2 DEF IType

\* A row of sessions is replaced, of a driver who exists.
LEMMA SessionReplaced ==
    ASSUME IType, UNCHANGED <<profile, member, claim, request, listed>>, HType',
           NEW s \in Sessions, NEW n \in Session, n.stored, n.driver # NoProfile => Exists(n.driver),
           session' = [session EXCEPT ![s] = n],
           upload' \in [Sessions -> Profiles \cup {NoProfile}],
           \A y \in Sessions : upload'[y] # NoProfile =>
               Exists(upload'[y]) /\ (y = s \/ upload'[y] = upload[y])
    PROVE  IType'
<1>1. \A y \in Sessions : session'[y] = IF y = s THEN n ELSE session[y]
      BY DEF IType, SType
<1>2. session' \in [Sessions -> Session] /\ \A y \in Sessions : session[y].stored => session'[y].stored
      BY <1>1 DEF IType, SType
<1>3. \A p : Exists(p)' <=> Exists(p)
      BY DEF Exists
<1>4. \A y \in Sessions : session'[y].driver # NoProfile => session'[y].stored /\ Exists(session'[y].driver)
      BY <1>1 DEF IType, SType
<1>5. \A y \in Sessions : upload'[y] # NoProfile => session'[y].stored
      BY <1>1 DEF IType, SType
<1>6. SType'
      BY <1>2, <1>3, <1>4, <1>5 DEF IType, SType
<1>7. RType'
      BY <1>2, <1>3 DEF IType, RType, Request
<1> QED BY <1>6, <1>7, ProfilesUntouched

\* Profiles, memberships and claims
LEMMA CreateProfileTyped ==
    ASSUME IType, NEW p \in Profiles, NEW u \in Users, CreateProfileForUser(p, u)
    PROVE  IType'
<1> DEFINE n == [NoRow EXCEPT !.status = "claimed", !.user = u]
<1>1. n \in Profile /\ n.status = "claimed" /\ n.user = u /\ ~n.link
      BY DEF NoRow, Profile
<1>2. \A q \in Profiles : profile'[q] = IF q = p THEN n ELSE profile[q]
      BY DEF IType, PType, CreateProfileForUser
<1>3. profile' \in [Profiles -> Profile]
      BY <1>1 DEF IType, PType, CreateProfileForUser
<1>4. \A q \in Profiles : profile[q].user # u
      BY DEF CreateProfileForUser, HasProfile
<1>5. PType'
      BY <1>1, <1>2, <1>3, <1>4 DEF IType, PType, CreateProfileForUser
<1>6. \A q \in Profiles : Exists(q) => Exists(q)'
      BY <1>1, <1>2 DEF Exists
<1>7. CType' /\ HType'
      BY DEF IType, CType, HType, CreateProfileForUser
<1> QED BY <1>5, <1>6, <1>7, SessionsUntouched DEF CreateProfileForUser

LEMMA CreateUnclaimedTyped ==
    ASSUME IType, NEW p \in Profiles, NEW u \in Users, NEW invite \in BOOLEAN,
           CreateUnclaimedProfile(p, u, invite)
    PROVE  IType'
<1> DEFINE n == [NoRow EXCEPT !.status = IF invite THEN "invited" ELSE "unclaimed",
                              !.link = invite, !.creator = u]
<1>1. n \in Profile /\ n.status \in {"unclaimed", "invited"} /\ n.user = NoUser
      /\ (n.link => n.status = "invited")
      BY DEF NoRow, Profile
<1>2. \A q \in Profiles : profile'[q] = IF q = p THEN n ELSE profile[q]
      BY DEF IType, PType, CreateUnclaimedProfile
<1>3. profile' \in [Profiles -> Profile]
      BY <1>1 DEF IType, PType, CreateUnclaimedProfile
<1>4. member[p].team = NoTeam
      BY DEF IType, PType, CreateUnclaimedProfile, Exists
<1>5. PType'
      BY <1>1, <1>2, <1>3, <1>4 DEF IType, PType, CreateUnclaimedProfile
<1>6. \A q \in Profiles : Exists(q) => Exists(q)'
      BY <1>1, <1>2 DEF Exists
<1>7. CType' /\ HType'
      BY DEF IType, CType, HType, CreateUnclaimedProfile
<1> QED BY <1>5, <1>6, <1>7, SessionsUntouched DEF CreateUnclaimedProfile

LEMMA ExpireTyped ==
    ASSUME IType, NEW p \in Profiles, Expire(p)
    PROVE  IType'
<1> DEFINE n == [profile[p] EXCEPT !.link = FALSE]
<1>1. n \in Profile /\ n.status = profile[p].status /\ n.user = profile[p].user /\ ~n.link
  <2>1. profile[p] \in Profile
        BY DEF IType, PType
  <2> QED BY <2>1 DEF Profile
<1>2. profile' = [profile EXCEPT ![p] = n]
      BY DEF IType, PType, Expire
<1> HIDE DEF n
<1>3. profile' \in [Profiles -> Profile]
      /\ \A q \in Profiles : profile'[q] = IF q = p THEN n ELSE profile[q]
      BY <1>1, <1>2 DEF IType, PType
<1>4. PType'
      BY <1>1, <1>3 DEF IType, PType, Expire
<1>5. \A q \in Profiles : Exists(q) => Exists(q)'
      BY <1>1, <1>3 DEF Exists
<1>6. CType' /\ HType'
      BY DEF IType, CType, HType, Expire
<1> QED BY <1>4, <1>5, <1>6, SessionsUntouched DEF Expire

LEMMA CheckClaimTyped ==
    ASSUME IType, NEW c \in Callers, NEW p \in Profiles, NEW u \in Users, NEW byLink \in BOOLEAN,
           CheckClaim(c, p, u, byLink)
    PROVE  IType'
<1>1. CType'
      BY DEF IType, CType, CheckClaim
<1>2. PType' /\ HType' /\ \A q \in Profiles : Exists(q)' <=> Exists(q)
      BY DEF IType, PType, HType, CheckClaim, Exists
<1> QED BY <1>1, <1>2, SessionsUntouched DEF CheckClaim

LEMMA ClaimProfileTyped ==
    ASSUME IType, NEW c \in Callers, ClaimProfile(c)
    PROVE  IType'
<1> DEFINE p == claim[c].profile
           u == claim[c].user
<1>1. p \in Profiles /\ u \in Users /\ u # NoUser
      BY DEF IType, CType, ClaimProfile
<1>2. CType'
      BY Rows DEF IType, CType, ClaimProfile
<1>3. HType' /\ UNCHANGED member
      BY DEF HType, ClaimProfile
<1>4. CASE UNCHANGED profile
  <2>1. PType' /\ \A q \in Profiles : Exists(q)' <=> Exists(q)
        BY <1>3, <1>4 DEF IType, PType, Exists
  <2> QED BY <1>2, <1>3, <2>1, SessionsUntouched DEF ClaimProfile
<1>5. CASE ~UNCHANGED profile
  <2> DEFINE n == [profile[p] EXCEPT !.status = "claimed", !.user = u, !.link = FALSE]
  <2>1. profile' = [profile EXCEPT ![p] = n] /\ \A q \in Profiles \ {p} : profile[q].user # u
        BY <1>5 DEF ClaimProfile
  <2>2. n \in Profile /\ n.status = "claimed" /\ n.user = u /\ ~n.link
    <3>1. profile[p] \in Profile
          BY <1>1 DEF IType, PType
    <3> HIDE DEF p, u
    <3> QED BY <1>1, <3>1 DEF Profile
  <2> HIDE DEF n, p, u
  <2>3. \A q \in Profiles : profile'[q] = IF q = p THEN n ELSE profile[q]
        BY <1>1, <2>1 DEF IType, PType
  <2>4. profile' \in [Profiles -> Profile]
        BY <2>1, <2>2 DEF IType, PType
  <2>5. PType'
        BY <1>1, <1>3, <2>1, <2>2, <2>3, <2>4 DEF IType, PType
  <2>6. \A q \in Profiles : Exists(q) => Exists(q)'
        BY <2>2, <2>3 DEF Exists
  <2> QED BY <1>2, <1>3, <2>5, <2>6, SessionsUntouched DEF ClaimProfile
<1> QED BY <1>4, <1>5

LEMMA ChangeTeamTyped ==
    ASSUME IType, NEW p \in Profiles, NEW t \in Teams \cup {NoTeam}, NEW lead \in BOOLEAN,
           ChangeTeam(p, t, lead)
    PROVE  IType'
<1>1. PType' /\ CType' /\ HType' /\ \A q \in Profiles : Exists(q)' <=> Exists(q)
      BY DEF IType, PType, CType, HType, ChangeTeam, Exists
<1> QED BY <1>1, SessionsUntouched DEF ChangeTeam

\* A deletion leaves no row behind that names a row it deleted.
LEMMA AdminDeleteUserTyped ==
    ASSUME IType, NEW u \in Users, AdminDeleteUser(u)
    PROVE  IType'
<1> DEFINE mine == {p \in Profiles : profile[p].user = u}
           gone == {s \in Sessions : session[s].stored /\ (session[s].by = u \/ session[s].driver \in mine)}
<1>1. \A p \in Profiles :
          /\ profile'[p] \in Profile
          /\ p \in mine => profile'[p] = NoRow
          /\ p \notin mine => /\ profile'[p].status = profile[p].status
                              /\ profile'[p].user = profile[p].user
                              /\ profile'[p].link = profile[p].link
      BY Rows DEF IType, PType, AdminDeleteUser, Profile
<1>2. profile' \in [Profiles -> Profile]
      BY <1>1 DEF AdminDeleteUser
<1>3. \A p \in Profiles \ mine : Exists(p)' <=> Exists(p)
      BY <1>1 DEF Exists
<1>4. PType'
  <2>1. \A p \in Profiles : member'[p] = IF p \in mine THEN Nowhere ELSE member[p]
        BY DEF AdminDeleteUser
  <2>2. member' \in [Profiles -> [team : Teams \cup {NoTeam}, lead : BOOLEAN]]
        BY Rows DEF AdminDeleteUser, IType, PType
  <2>3. NoRow.user = NoUser /\ NoRow.status = "none" /\ ~NoRow.link /\ Nowhere.team = NoTeam
        BY DEF NoRow, Nowhere
  <2>4. \A p \in Profiles : \/ /\ profile'[p].user = NoUser /\ profile'[p].status = "none"
                                /\ ~profile'[p].link /\ member'[p].team = NoTeam
                             \/ /\ profile'[p].status = profile[p].status
                                /\ profile'[p].user = profile[p].user
                                /\ profile'[p].link = profile[p].link
                                /\ member'[p] = member[p]
    <3> HIDE DEF mine
    <3> QED BY <1>1, <2>1, <2>3
  <2>5. \A p, q \in Profiles : (profile'[p].user # NoUser /\ profile'[p].user = profile'[q].user) => p = q
        BY <2>4 DEF IType, PType
  <2>6. \A p \in Profiles : profile'[p].status = "claimed" <=> profile'[p].user # NoUser
        BY <2>4 DEF IType, PType
  <2>7. \A p \in Profiles : profile'[p].link => profile'[p].status = "invited"
        BY <2>4 DEF IType, PType
  <2>8. \A p \in Profiles : member'[p].team # NoTeam => profile'[p].status = "claimed"
        BY <2>4 DEF IType, PType
  <2> QED BY <1>2, <2>2, <2>5, <2>6, <2>7, <2>8 DEF PType
<1>5. \A s \in Sessions : session'[s] = IF s \in gone THEN NotStored ELSE session[s]
      BY DEF AdminDeleteUser
<1>6. \A s \in Sessions : upload'[s] = IF s \in gone \/ upload[s] \in mine THEN NoProfile ELSE upload[s]
      BY DEF AdminDeleteUser
<1>7. \A s \in Sessions \ gone : session[s].driver \notin mine
      BY DEF IType, SType
<1>8. SType'
  <2>1. session' \in [Sessions -> Session] /\ upload' \in [Sessions -> Profiles \cup {NoProfile}]
        BY Rows DEF AdminDeleteUser, IType, SType
  <2>2. listed' = listed \ gone
        BY DEF AdminDeleteUser
  <2>3. NotStored.driver = NoProfile /\ ~NotStored.stored
        BY DEF NotStored
  <2>4. \A s \in Sessions : session[s].driver \in Profiles \cup {NoProfile}
        BY DEF IType, SType, Session
  <2> HIDE DEF mine, gone
  <2> QED BY <1>3, <1>5, <1>6, <1>7, <2>1, <2>2, <2>3, <2>4 DEF IType, SType
<1>9. RType'
  <2>1. \A r \in Requests : request'[r] =
            IF request[r].session \in gone \/ request[r].target \in mine \/ request[r].by = u
            THEN NoRequest ELSE request[r]
        BY DEF AdminDeleteUser
  <2>2. request' \in [Requests -> Request]
        BY Rows DEF AdminDeleteUser, IType, RType
  <2>3. NoRequest.status = "none"
        BY DEF NoRequest
  <2>4. \A r \in Requests : request[r].session \in Sessions
        BY DEF IType, RType, Request
  <2> HIDE DEF mine, gone
  <2> QED BY <1>3, <1>5, <2>1, <2>2, <2>3, <2>4 DEF IType, RType
<1>10. CType' /\ HType'
  <2>1. \A c \in Callers : claim'[c] = NoClaim \/ claim'[c] = claim[c]
        BY DEF AdminDeleteUser
  <2>2. claim' \in [Callers -> [profile : Profiles \cup {NoProfile}, user : Users \cup {NoUser}]]
        BY Rows DEF AdminDeleteUser, IType, CType
  <2> QED BY <2>1, <2>2 DEF AdminDeleteUser, IType, CType, HType
<1> QED BY <1>4, <1>8, <1>9, <1>10 DEF IType

\* Sessions
LEMMA SaveSessionTyped ==
    ASSUME IType, NEW s \in Sessions, NEW p \in Profiles \cup {NoProfile}, NEW u \in Users, NEW v \in Tiers,
           SaveSession(s, p, u, v)
    PROVE  IType'
<1> DEFINE n == [stored |-> TRUE, driver |-> p, by |-> u, status |-> "confirmed", visibility |-> v]
<1>1. n \in Session /\ n.stored /\ n.driver = p
      BY DEF Session
<1>2. session' = [session EXCEPT ![s] = n] /\ (p # NoProfile => Exists(p))
      BY DEF SaveSession
<1>3. \A y \in Sessions : upload'[y] = IF y = s THEN p ELSE upload[y]
      BY DEF SaveSession, IType, SType
<1>4. upload' \in [Sessions -> Profiles \cup {NoProfile}]
      BY DEF SaveSession, IType, SType
<1>5. \A y \in Sessions : upload'[y] # NoProfile => Exists(upload'[y]) /\ (y = s \/ upload'[y] = upload[y])
      BY <1>2, <1>3 DEF IType, SType
<1>6. HType' /\ UNCHANGED <<profile, member, claim, request, listed>>
      BY DEF SaveSession, HType
<1> HIDE DEF n
<1> QED BY <1>1, <1>2, <1>4, <1>5, <1>6, SessionReplaced

\* Filing a stored session: by the worker, by the uploader.
LEMMA AttributedTyped ==
    ASSUME IType, NEW s \in Sessions, session[s].stored, NEW p \in Profiles, NEW u \in Users \cup {NoUser},
           NEW ask \in BOOLEAN
    PROVE  /\ Attributed(session[s], p, u, ask) \in Session
           /\ Attributed(session[s], p, u, ask).stored
           /\ Attributed(session[s], p, u, ask).driver = p
BY DEF IType, SType, Session, Attributed

LEMMA FinishUploadTyped ==
    ASSUME IType, NEW s \in Sessions, FinishUpload(s)
    PROVE  IType'
<1> DEFINE n == Attributed(session[s], upload[s], session[s].by, FALSE)
<1>1. upload[s] \in Profiles /\ Exists(upload[s]) /\ session[s].stored
      /\ session[s].by \in Users \cup {NoUser}
      BY DEF FinishUpload, IType, SType, Session
<1>2. n \in Session /\ n.stored /\ n.driver = upload[s]
      BY <1>1, AttributedTyped
<1>3. session' = [session EXCEPT ![s] = n]
      BY DEF FinishUpload, IType, SType
<1>4. \A y \in Sessions : upload'[y] = IF y = s THEN NoProfile ELSE upload[y]
      BY DEF FinishUpload, IType, SType
<1>5. upload' \in [Sessions -> Profiles \cup {NoProfile}]
      BY DEF FinishUpload, IType, SType
<1>6. \A y \in Sessions : upload'[y] # NoProfile => Exists(upload'[y]) /\ (y = s \/ upload'[y] = upload[y])
      BY <1>4 DEF IType, SType
<1>7. HType' /\ UNCHANGED <<profile, member, claim, request, listed>>
      BY DEF FinishUpload, HType
<1> HIDE DEF n
<1> QED BY <1>1, <1>2, <1>3, <1>5, <1>6, <1>7, SessionReplaced

LEMMA LoseWorkerTyped ==
    ASSUME IType, NEW s \in Sessions, LoseWorker(s)
    PROVE  IType'
<1>1. SType' /\ RType' /\ HType'
      BY DEF LoseWorker, IType, SType, RType, HType, Exists
<1> QED BY <1>1, ProfilesUntouched DEF LoseWorker

\* A session changes in place, and nothing else of the sessions' state does.
LEMMA SessionEdited ==
    ASSUME IType, UNCHANGED <<profile, member, claim, request, upload, listed>>, HType',
           NEW s \in Sessions, NEW n \in Session, n.stored, n.driver # NoProfile => Exists(n.driver),
           session' = [session EXCEPT ![s] = n]
    PROVE  IType'
<1>1. \A y \in Sessions : upload'[y] # NoProfile => Exists(upload'[y]) /\ upload'[y] = upload[y]
      BY DEF IType, SType
<1>2. upload' \in [Sessions -> Profiles \cup {NoProfile}]
      BY DEF IType, SType
<1> QED BY <1>1, <1>2, SessionReplaced

\* Stored sessions stay stored, under drivers who exist.
LEMMA SessionsMoved ==
    ASSUME IType, UNCHANGED <<profile, member, claim, upload, listed>>, HType',
           session' \in [Sessions -> Session],
           \A y \in Sessions : session[y].stored => session'[y].stored,
           \A y \in Sessions : session'[y].driver # NoProfile =>
               session'[y].stored /\ Exists(session'[y].driver)
    PROVE  SType' /\ \A r \in Requests : session[request[r].session].stored => session'[request[r].session].stored
<1>1. SType'
      BY DEF IType, SType, Exists
<1> QED BY <1>1 DEF IType, RType, Request

LEMMA AttributeSessionTyped ==
    ASSUME IType, NEW s \in Sessions, NEW p \in Profiles, NEW u \in Users, NEW ask \in BOOLEAN,
           AttributeSession(s, p, u, ask)
    PROVE  IType'
<1> DEFINE n == Attributed(session[s], p, u, ask)
<1>1. n \in Session /\ n.stored /\ n.driver = p /\ Exists(p)
      BY AttributedTyped DEF AttributeSession
<1>2. session' = [session EXCEPT ![s] = n]
      BY DEF AttributeSession, IType, SType
<1>3. HType' /\ UNCHANGED <<profile, member, claim, upload, listed>>
      BY DEF AttributeSession, HType
<1> HIDE DEF n
<1>4. \A y \in Sessions : session'[y] = IF y = s THEN n ELSE session[y]
      BY <1>2 DEF IType, SType
<1>5. SType' /\ \A r \in Requests : session[request[r].session].stored => session'[request[r].session].stored
  <2>1. session' \in [Sessions -> Session]
        BY <1>1, <1>2 DEF IType, SType
  <2>2. \A y \in Sessions : session[y].stored => session'[y].stored
        BY <1>1, <1>4
  <2>3. \A y \in Sessions : session'[y].driver # NoProfile => session'[y].stored /\ Exists(session'[y].driver)
        BY <1>1, <1>4 DEF IType, SType
  <2> QED BY <1>3, <2>1, <2>2, <2>3, SessionsMoved
<1>6. RType'
  <2>1. CASE UNCHANGED request
        BY <1>3, <1>5, <2>1 DEF IType, RType, Exists
  <2>2. CASE ~UNCHANGED request
    <3> DEFINE m == [status |-> "pending", session |-> s, target |-> p, by |-> u]
    <3>1. PICK r \in Requests : request' = [request EXCEPT ![r] = m]
          BY <2>2 DEF AttributeSession
    <3>2. m \in Request /\ m.session = s /\ m.target = p
          BY DEF Request
    <3>3. session'[s].stored
          BY <1>1, <1>4
    <3> HIDE DEF m
    <3>4. \A q \in Requests : request'[q] = IF q = r THEN m ELSE request[q]
          BY <3>1 DEF IType, RType
    <3>5. request' \in [Requests -> Request]
          BY <3>1, <3>2 DEF IType, RType
    <3> QED BY <1>1, <1>3, <1>5, <3>2, <3>3, <3>4, <3>5 DEF IType, RType, Exists
  <2> QED BY <2>1, <2>2
<1> QED BY <1>3, <1>5, <1>6, ProfilesUntouched

LEMMA ResolveTyped ==
    ASSUME IType, NEW r \in Requests, NEW accept \in BOOLEAN, ResolveAttributionRequest(r, accept)
    PROVE  IType'
<1> DEFINE s == request[r].session
           n == IF accept THEN [session[s] EXCEPT !.status = "confirmed"]
                ELSE [session[s] EXCEPT !.driver = NoProfile, !.status = "rejected"]
<1>1. s \in Sessions /\ session[s].stored /\ request[r].target \in Profiles
      BY DEF ResolveAttributionRequest, IType, RType, Request
<1>2. n \in Session /\ n.stored /\ (n.driver = NoProfile \/ n.driver = session[s].driver)
  <2>1. session[s] \in Session
        BY <1>1 DEF IType, SType
  <2> HIDE DEF s
  <2> QED BY <1>1, <2>1 DEF Session
<1>3. session' = [session EXCEPT ![s] = n]
      BY <1>1 DEF ResolveAttributionRequest, IType, SType
<1>4. HType' /\ UNCHANGED <<profile, member, claim, upload, listed>>
      BY <1>1 DEF ResolveAttributionRequest, HType, IType, PType, Profile
<1> HIDE DEF n
<1>5. \A y \in Sessions : session'[y] = IF y = s THEN n ELSE session[y]
      BY <1>3 DEF IType, SType
<1>6. SType' /\ \A q \in Requests : session[request[q].session].stored => session'[request[q].session].stored
  <2>1. session' \in [Sessions -> Session]
        BY <1>2, <1>3 DEF IType, SType
  <2>2. \A y \in Sessions : session[y].stored => session'[y].stored
        BY <1>2, <1>5
  <2>3. \A y \in Sessions : session'[y].driver # NoProfile => session'[y].stored /\ Exists(session'[y].driver)
        BY <1>1, <1>2, <1>5 DEF IType, SType
  <2> QED BY <1>4, <2>1, <2>2, <2>3, SessionsMoved
<1>7. RType'
  <2>1. \A q \in Requests : /\ request'[q] \in Request
                            /\ request'[q].session = request[q].session
                            /\ request'[q].target = request[q].target
                            /\ request'[q].status # "none" => request[q].status # "none"
        BY DEF ResolveAttributionRequest, IType, RType, Request
  <2>2. request' \in [Requests -> Request]
        BY <2>1 DEF ResolveAttributionRequest, IType, RType
  <2> QED BY <1>4, <1>6, <2>1, <2>2 DEF IType, RType, Exists
<1> QED BY <1>4, <1>6, <1>7, ProfilesUntouched

LEMMA SetVisibilityTyped ==
    ASSUME IType, NEW s \in Sessions, NEW v \in Tiers, NEW u \in Users, SetSessionVisibility(s, v, u)
    PROVE  IType'
<1> DEFINE n == [session[s] EXCEPT !.visibility = v]
<1>1. n \in Session /\ n.stored /\ n.driver = session[s].driver
      BY DEF SetSessionVisibility, MayWrite, IType, SType, Session
<1>2. n.driver # NoProfile => Exists(n.driver)
      BY <1>1 DEF IType, SType
<1>3. session' = [session EXCEPT ![s] = n] /\ HType'
      /\ UNCHANGED <<profile, member, claim, request, upload, listed>>
      BY DEF SetSessionVisibility, IType, SType, HType
<1> HIDE DEF n
<1> QED BY <1>1, <1>2, <1>3, SessionEdited

LEMMA DeleteSessionTyped ==
    ASSUME IType, NEW s \in Sessions, NEW u \in Users, DeleteSession(s, u)
    PROVE  IType'
<1>1. \A y \in Sessions : /\ session'[y] = IF y = s THEN NotStored ELSE session[y]
                          /\ upload'[y] = IF y = s THEN NoProfile ELSE upload[y]
      BY DEF DeleteSession, IType, SType
<1>2. session' \in [Sessions -> Session] /\ upload' \in [Sessions -> Profiles \cup {NoProfile}]
      BY Rows DEF DeleteSession, IType, SType
<1>3. NotStored.driver = NoProfile
      BY DEF NotStored
<1>4. UNCHANGED <<profile, member, claim, request>> /\ listed' = listed \ {s} /\ HType'
      BY DEF DeleteSession, HType
<1>5. SType'
      BY <1>1, <1>2, <1>3, <1>4 DEF IType, SType, Exists
<1>6. \A r \in Requests : request[r].status # "none" => request[r].session # s
      BY DEF DeleteSession
<1>7. \A r \in Requests : request[r].session \in Sessions
      BY DEF IType, RType, Request
<1>8. RType'
      BY <1>1, <1>4, <1>6, <1>7 DEF IType, RType, Exists
<1> QED BY <1>4, <1>5, <1>8, ProfilesUntouched

LEMMA ListUnassignedTyped ==
    ASSUME IType, NEW s \in Sessions, ListUnassigned(s)
    PROVE  IType'
<1>1. SType' /\ RType' /\ HType'
      BY DEF ListUnassigned, IType, SType, RType, HType, Exists
<1> QED BY <1>1, ProfilesUntouched DEF ListUnassigned

LEMMA AssignTyped ==
    ASSUME IType, NEW s \in Sessions, NEW p \in Profiles, NEW u \in Users, Assign(s, p, u)
    PROVE  IType'
<1> DEFINE n == [session[s] EXCEPT !.driver = p]
<1>1. n \in Session /\ n.stored /\ n.driver = p
      BY DEF Assign, IType, SType, Session
<1>2. Exists(p)
      BY DEF Assign, ProfilesSelect, Keeps, Exists
<1>3. session' = [session EXCEPT ![s] = n] /\ HType'
      /\ UNCHANGED <<profile, member, claim, request, upload, listed>>
      BY DEF Assign, IType, SType, HType
<1> HIDE DEF n
<1> QED BY <1>1, <1>2, <1>3, SessionEdited

LEMMA ReassignTyped ==
    ASSUME IType, NEW from \in Profiles, NEW to \in Profiles, NEW u \in Users,
           ReassignTempDriverSessions(from, to, u)
    PROVE  IType'
<1>1. \A y \in Sessions : /\ session'[y] \in Session
                          /\ session'[y].stored = session[y].stored
                          /\ session'[y].driver = IF session[y].driver = from THEN to ELSE session[y].driver
      BY DEF ReassignTempDriverSessions, IType, SType, Session
<1>2. session' \in [Sessions -> Session]
      BY <1>1 DEF ReassignTempDriverSessions
<1>3. UNCHANGED <<profile, member, claim, request, upload, listed>> /\ HType' /\ Exists(to)
      BY DEF ReassignTempDriverSessions, HType, Exists
<1>4. from # NoProfile
      OBVIOUS
<1>5. SType' /\ \A r \in Requests : session[request[r].session].stored => session'[request[r].session].stored
  <2>1. \A y \in Sessions : session'[y].driver # NoProfile => session'[y].stored /\ Exists(session'[y].driver)
        BY <1>1, <1>3, <1>4 DEF IType, SType
  <2> QED BY <1>1, <1>2, <1>3, <2>1, SessionsMoved
<1>6. RType'
      BY <1>3, <1>5 DEF IType, RType, Exists
<1> QED BY <1>3, <1>5, <1>6, ProfilesUntouched

LEMMA NextIType == IType /\ [Next]_vars => IType'
<1> SUFFICES ASSUME IType, [Next]_vars PROVE IType'
    OBVIOUS
<1>1. CASE UNCHANGED vars
      BY <1>1 DEF vars, IType, PType, SType, RType, CType, HType, Exists
<1>2. CASE Next
      BY <1>2, CreateProfileTyped, CreateUnclaimedTyped, ExpireTyped, CheckClaimTyped, ClaimProfileTyped,
         ChangeTeamTyped, AdminDeleteUserTyped, SaveSessionTyped, FinishUploadTyped, LoseWorkerTyped,
         AttributeSessionTyped, ResolveTyped, SetVisibilityTyped, DeleteSessionTyped, ListUnassignedTyped,
         AssignTyped, ReassignTyped
      DEF Next, Claiming, Uploading
<1> QED BY <1>1, <1>2

\* Types and foreign keys; a user has one profile, a claimed profile a user,
\* and only an invitation a link: whatever is claimed, filed, moved and deleted
\* at once (the constraints of driver_profiles and sessions, 0001, and what
\* admin_delete_user, 0008, clears by hand).
THEOREM AttributionTypes == Spec => []TypeOK
BY InitIType, NextIType, ITypeImpliesTypeOK, PTL DEF Spec

LEMMA AlwaysIType == Spec => []IType
BY InitIType, NextIType, PTL DEF Spec

-----------------------------------------------------------------------------
(* Claims *)

OneClaimAtATime == \A c, d \in Callers : c = d

\* What was checked of a claim under way still holds.
ClaimGood ==
    \A c \in Callers : claim[c] # NoClaim => profile[claim[c].profile].status \notin {"none", "claimed"}

Stand == \A p \in Profiles : (profile[p].user # NoUser /\ profile'[p].status # "none") =>
             profile'[p].user = profile[p].user

LEMMA InitClaimGood == Init => ClaimGood
BY DEF Init, ClaimGood

LEMMA NextClaimGood ==
    ASSUME OneClaimAtATime, IType, ClaimGood, [Next]_vars
    PROVE  ClaimGood' /\ Stand
<1>1. profile \in [Profiles -> Profile]
      /\ claim \in [Callers -> [profile : Profiles \cup {NoProfile}, user : Users \cup {NoUser}]]
      /\ (\A p \in Profiles : profile[p].status = "claimed" <=> profile[p].user # NoUser)
      /\ (\A c \in Callers : claim[c] # NoClaim => claim[c].profile \in Profiles /\ claim[c].user \in Users)
      BY DEF IType, PType, CType
<1>2. ASSUME UNCHANGED <<profile, claim>> PROVE ClaimGood' /\ Stand
      BY <1>2 DEF ClaimGood, Stand
<1>3. ASSUME NEW p \in Profiles, UNCHANGED claim, profile[p].status = "none",
             \A q \in Profiles : q # p => profile'[q] = profile[q]
      PROVE  ClaimGood' /\ Stand
      BY <1>1, <1>3 DEF ClaimGood, Stand
<1>4. ASSUME NEW p \in Profiles, NEW u \in Users, CreateProfileForUser(p, u) PROVE ClaimGood' /\ Stand
  <2>1. UNCHANGED claim /\ profile[p].status = "none" /\ \A q \in Profiles : q # p => profile'[q] = profile[q]
        BY <1>1, <1>4 DEF CreateProfileForUser, Exists
  <2> QED BY <1>3, <2>1
<1>5. ASSUME NEW p \in Profiles, NEW u \in Users, NEW invite \in BOOLEAN, CreateUnclaimedProfile(p, u, invite)
      PROVE  ClaimGood' /\ Stand
  <2>1. UNCHANGED claim /\ profile[p].status = "none" /\ \A q \in Profiles : q # p => profile'[q] = profile[q]
        BY <1>1, <1>5 DEF CreateUnclaimedProfile, Exists
  <2> QED BY <1>3, <2>1
<1>6. ASSUME NEW p \in Profiles, Expire(p) PROVE ClaimGood' /\ Stand
  <2>1. \A q \in Profiles : profile'[q].user = profile[q].user /\ profile'[q].status = profile[q].status
        BY <1>1, <1>6 DEF Expire, Profile
  <2> QED BY <1>1, <1>6, <2>1 DEF Expire, ClaimGood, Stand
<1>7. ASSUME NEW c \in Callers, NEW p \in Profiles, NEW u \in Users, NEW byLink \in BOOLEAN,
             CheckClaim(c, p, u, byLink)
      PROVE  ClaimGood' /\ Stand
  <2>1. claim'[c].profile = p /\ UNCHANGED profile /\ profile[p].status \notin {"none", "claimed"}
        BY <1>1, <1>7 DEF CheckClaim
  <2> QED BY <2>1 DEF ClaimGood, Stand, OneClaimAtATime
<1>8. ASSUME NEW c \in Callers, ClaimProfile(c) PROVE ClaimGood' /\ Stand
  <2>1. claim'[c] = NoClaim /\ claim[c].profile \in Profiles
        /\ profile[claim[c].profile].user = NoUser
        BY <1>1, <1>8 DEF ClaimProfile, ClaimGood
  <2>2. \A q \in Profiles : q # claim[c].profile => profile'[q] = profile[q]
        BY <1>1, <1>8 DEF ClaimProfile
  <2> QED BY <2>1, <2>2 DEF ClaimGood, Stand, OneClaimAtATime
<1>9. ASSUME NEW u \in Users, AdminDeleteUser(u) PROVE ClaimGood' /\ Stand
  <2> DEFINE mine == {p \in Profiles : profile[p].user = u}
  <2>1. \A p \in Profiles : \/ p \in mine /\ profile'[p].status = "none"
                            \/ /\ p \notin mine
                               /\ profile'[p].user = profile[p].user
                               /\ profile'[p].status = profile[p].status
        BY <1>1, <1>9 DEF AdminDeleteUser, Profile, NoRow
  <2>2. \A c \in Callers : \/ claim'[c] = NoClaim
                           \/ claim'[c] = claim[c] /\ claim[c].profile \notin mine
        BY <1>9 DEF AdminDeleteUser
  <2> HIDE DEF mine
  <2>3. Stand
        BY <2>1 DEF Stand
  <2>4. ClaimGood'
        BY <1>1, <2>1, <2>2 DEF ClaimGood
  <2> QED BY <2>3, <2>4
<1>10. ASSUME NEW s \in Sessions, NEW p \in Profiles \cup {NoProfile}, NEW u \in Users, NEW v \in Tiers,
              SaveSession(s, p, u, v)
       PROVE  UNCHANGED <<profile, claim>>
       BY <1>10 DEF SaveSession
<1>11. ASSUME NEW s \in Sessions, FinishUpload(s) \/ LoseWorker(s) \/ ListUnassigned(s)
       PROVE  UNCHANGED <<profile, claim>>
       BY <1>11 DEF FinishUpload, LoseWorker, ListUnassigned
<1>12. ASSUME NEW s \in Sessions, NEW p \in Profiles, NEW u \in Users,
              Assign(s, p, u) \/ \E ask \in BOOLEAN : AttributeSession(s, p, u, ask)
       PROVE  UNCHANGED <<profile, claim>>
       BY <1>12 DEF Assign, AttributeSession
<1>13. ASSUME NEW from \in Profiles, NEW to \in Profiles, NEW u \in Users,
              ReassignTempDriverSessions(from, to, u)
       PROVE  UNCHANGED <<profile, claim>>
       BY <1>13 DEF ReassignTempDriverSessions
<1>14. ASSUME NEW r \in Requests, NEW accept \in BOOLEAN, ResolveAttributionRequest(r, accept)
       PROVE  UNCHANGED <<profile, claim>>
       BY <1>14 DEF ResolveAttributionRequest
<1>15. ASSUME NEW s \in Sessions, NEW u \in Users,
              DeleteSession(s, u) \/ \E v \in Tiers : SetSessionVisibility(s, v, u)
       PROVE  UNCHANGED <<profile, claim>>
       BY <1>15 DEF DeleteSession, SetSessionVisibility
<1>16. ASSUME NEW p \in Profiles, NEW t \in Teams \cup {NoTeam}, NEW lead \in BOOLEAN, ChangeTeam(p, t, lead)
       PROVE  UNCHANGED <<profile, claim>>
       BY <1>16 DEF ChangeTeam
<1>17. CASE UNCHANGED vars
       BY <1>2, <1>17 DEF vars
<1>18. CASE Next
       BY <1>2, <1>4, <1>5, <1>6, <1>7, <1>8, <1>9, <1>10, <1>11, <1>12, <1>13, <1>14, <1>15, <1>16, <1>18
       DEF Next, Claiming, Uploading
<1> QED BY <1>17, <1>18

\* Who claimed a profile keeps it until the account is deleted, when claims are
\* made one at a time: no check of claim_profile is stale then when its update
\* comes (accounts.py:1423-1490), whatever else happens in between.
THEOREM ClaimsAreKept == OneClaimAtATime /\ Spec => ClaimsStand
<1> SUFFICES ASSUME OneClaimAtATime PROVE Spec => ClaimsStand
    OBVIOUS
<1>1. IType /\ ClaimGood /\ [Next]_vars => ClaimGood'
      BY NextClaimGood
<1>2. IType /\ ClaimGood /\ [Next]_vars => [Stand]_vars
      BY NextClaimGood
<1>3. Spec => [][Stand]_vars
      BY InitClaimGood, AlwaysIType, <1>1, <1>2, PTL DEF Spec
<1> QED BY <1>3 DEF ClaimsStand, Stand

-----------------------------------------------------------------------------
(* The driver's own sessions *)

\* What a step may do to a session that counts as a driver's.
Theirs(s) ==
    \/ hand' \in {session[s].by, Owner(s)}
    \/ \E r \in Requests : /\ request[r].status # "none" /\ request[r].session = s
                           /\ hand' = profile[request[r].target].user
    \/ hand' = NoUser /\ (upload[s] # NoProfile \/ ~session'[s].stored)

Keep == \A s \in Sessions : (Settled(s) /\ session'[s].driver # session[s].driver) => Theirs(s)

LEMMA NextKeeps == IType /\ [Next]_vars => Keep
<1> SUFFICES ASSUME IType, [Next]_vars, NEW y \in Sessions, Settled(y), session'[y].driver # session[y].driver
             PROVE  Theirs(y)
    BY DEF Keep
<1>1. session \in [Sessions -> Session] /\ upload \in [Sessions -> Profiles \cup {NoProfile}]
      /\ (\A s \in Sessions : upload[s] # NoProfile => session[s].stored)
      /\ (\A s \in listed : session[s].stored)
      BY DEF IType, SType
<1>2. session[y].stored /\ session[y].driver \in Profiles /\ profile[session[y].driver].status = "claimed"
      BY <1>1 DEF Settled, Session
<1>3. ASSUME UNCHANGED session PROVE FALSE
      BY <1>3
<1>4. ASSUME NEW u \in Users, AdminDeleteUser(u) PROVE Theirs(y)
  <2>1. session'[y] = NotStored /\ hand' = NoUser
        BY <1>4 DEF AdminDeleteUser
  <2> QED BY <2>1 DEF Theirs, NotStored
<1>5. ASSUME NEW s \in Sessions, NEW p \in Profiles \cup {NoProfile}, NEW u \in Users, NEW v \in Tiers,
             SaveSession(s, p, u, v)
      PROVE  FALSE
  <2>1. y # s
        BY <1>2, <1>5 DEF SaveSession
  <2> QED BY <1>1, <1>5, <2>1 DEF SaveSession
<1>6. ASSUME NEW s \in Sessions, FinishUpload(s) PROVE Theirs(y)
  <2>1. y = s
        BY <1>1, <1>6 DEF FinishUpload
  <2> QED BY <1>6, <2>1 DEF FinishUpload, Theirs
<1>7. ASSUME NEW s \in Sessions, NEW p \in Profiles, NEW u \in Users, Assign(s, p, u) PROVE Theirs(y)
  <2>1. y = s
        BY <1>1, <1>7 DEF Assign
  <2> QED BY <1>7, <2>1 DEF Assign, Theirs
<1>8. ASSUME NEW s \in Sessions, NEW p \in Profiles, NEW u \in Users, NEW ask \in BOOLEAN,
             AttributeSession(s, p, u, ask)
      PROVE  Theirs(y)
  <2>1. y = s
        BY <1>1, <1>8 DEF AttributeSession
  <2> QED BY <1>8, <2>1 DEF AttributeSession, Theirs
<1>9. ASSUME NEW from \in Profiles, NEW to \in Profiles, NEW u \in Users, ReassignTempDriverSessions(from, to, u)
      PROVE  FALSE
  <2>1. session[y].driver # from
        BY <1>2, <1>9 DEF ReassignTempDriverSessions, Keeps
  <2> QED BY <1>9, <2>1 DEF ReassignTempDriverSessions
<1>10. ASSUME NEW r \in Requests, NEW accept \in BOOLEAN, ResolveAttributionRequest(r, accept) PROVE Theirs(y)
  <2>1. y = request[r].session
        BY <1>1, <1>10 DEF ResolveAttributionRequest
  <2> QED BY <1>10, <2>1 DEF ResolveAttributionRequest, Theirs
<1>11. ASSUME NEW s \in Sessions, NEW u \in Users, DeleteSession(s, u) PROVE Theirs(y)
  <2>1. y = s
        BY <1>1, <1>11 DEF DeleteSession
  <2> QED BY <1>11, <2>1 DEF DeleteSession, MayWrite, Theirs
<1>12. ASSUME NEW s \in Sessions, NEW u \in Users, NEW v \in Tiers, SetSessionVisibility(s, v, u) PROVE FALSE
  <2>1. session'[y] = IF y = s THEN [session[s] EXCEPT !.visibility = v] ELSE session[y]
        BY <1>1, <1>12 DEF SetSessionVisibility
  <2>2. session[s] \in Session
        BY <1>1
  <2> QED BY <2>1, <2>2 DEF Session
<1>13. CASE Next
  <2>1. CASE \/ \E p \in Profiles : Expire(p)
             \/ \E p \in Profiles, u \in Users :
                   CreateProfileForUser(p, u) \/ \E invite \in BOOLEAN : CreateUnclaimedProfile(p, u, invite)
             \/ Claiming
             \/ \E p \in Profiles, t \in Teams \cup {NoTeam}, lead \in BOOLEAN : ChangeTeam(p, t, lead)
             \/ \E s \in Sessions : ListUnassigned(s) \/ LoseWorker(s)
        BY <1>3, <2>1 DEF Expire, CreateProfileForUser, CreateUnclaimedProfile, Claiming, CheckClaim,
           ClaimProfile, ChangeTeam, ListUnassigned, LoseWorker
  <2> QED BY <1>4, <1>5, <1>6, <1>7, <1>8, <1>9, <1>10, <1>11, <1>12, <1>13, <2>1 DEF Next, Uploading
<1> QED BY <1>3, <1>13 DEF vars

\* A session that counts as a driver's is taken from that driver by no teammate,
\* manager or creator of placeholders: not when a placeholder is claimed while
\* somebody moves its sessions (reassign_temp_driver_sessions, 0018), nor by a
\* page that lists sessions somebody else has filed since (the policies of 0002
\* and the Upload page's assign).
THEOREM DriversAlwaysKeepTheirs == Spec => DriversKeepTheirs
<1>1. IType /\ [Next]_vars => [Keep]_vars
      BY NextKeeps
<1>2. Spec => [][Keep]_vars
      BY AlwaysIType, <1>1, PTL DEF Spec
<1> QED BY <1>2 DEF DriversKeepTheirs, Keep, Theirs
=============================================================================
