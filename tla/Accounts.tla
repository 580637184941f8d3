------------------------------ MODULE Accounts ------------------------------
(***************************************************************************)
(* Registration, sign-in, verification and password reset                  *)
(* (telemetry/auth.py, the users of telemetry/accounts.py) with the trigger *)
(* of migration 0004 that mirrors an identity of the managed service.      *)
(* A deployment starts on the local provider and may move to the managed   *)
(* one, where the accounts there are cross over.                           *)
(*                                                                         *)
(* A call of a provider is a process: every transaction is a step, and the *)
(* process may die before any of them.  An account is named by its email;  *)
(* a password, here or at the service, by how often it has been reset.  A   *)
(* date of birth, where one is given, says under 16 or not.                *)
(***************************************************************************)
EXTENDS Integers, FiniteSets

CONSTANTS
    Emails,
    Ids,         \* identities of the managed service
    NoId,
    Tokens,      \* rows of auth_tokens there will ever be
    Logins,      \* rows of auth_sessions there will ever be
    Calls,
    NoToken, NoEmail,
    Ages,        \* bound: what registrations say of an age: under 16, or not
    MaxResets,   \* bound: resets of one password
    MaxCrashes   \* bound: calls cut short

ASSUME AccountsConstantsOK ==
    /\ NoId \notin Ids /\ NoToken \notin Tokens /\ NoEmail \notin Emails
    /\ Ages \subseteq BOOLEAN /\ MaxResets \in Nat /\ MaxCrashes \in Nat

VARIABLES
    provider,    \* AUTH provider of the deployment
    user,        \* [Emails -> row of users]
    profiled,    \* addresses whose account has a driver profile
    identity,    \* [Emails -> the service's identity of that address]
    confirmed,   \* addresses whose identity is confirmed there,
    minor,       \* whose metadata there has a date of birth under 16,
    secret,      \* and [Emails -> the identity's password there]
    token,       \* [Tokens -> row of auth_tokens]
    login,       \* [Logins -> row of auth_sessions]
    call,        \* [Calls -> what the call is at]
    cut          \* calls cut short by a crash: of whose account, and before what

service == <<identity, confirmed, minor, secret>>
vars == <<provider, user, profiled, service, token, login, call, cut>>

NoUser == [exists |-> FALSE, password |-> -1, verified |-> FALSE, external |-> NoId,
           minor |-> FALSE, consent |-> "not_required"]
Idle   == [at |-> "idle", email |-> NoEmail, token |-> NoToken, id |-> NoId,
           password |-> -1, minor |-> FALSE, confirmed |-> FALSE]

Users == [exists : BOOLEAN, password : -1..MaxResets, verified : BOOLEAN,
          external : Ids \cup {NoId}, minor : BOOLEAN,
          consent : {"not_required", "pending", "granted", "denied"}]

Init ==
    /\ provider = "local"
    /\ user = [e \in Emails |-> NoUser]
    /\ profiled = {}
    /\ identity = [e \in Emails |-> NoId] /\ confirmed = {}
    /\ minor = {} /\ secret = [e \in Emails |-> 0]
    /\ token = [t \in Tokens |-> [status |-> "none", email |-> NoEmail, kind |-> "verify_email"]]
    /\ login = [l \in Logins |-> [status |-> "none", via |-> "local", email |-> NoEmail,
                                   password |-> -1, late |-> FALSE]]
    /\ call = [c \in Calls |-> Idle]
    /\ cut = {}

-----------------------------------------------------------------------------
(* Rows *)

Goto(c, at) == call' = [call EXCEPT ![c].at = at]
Return(c) == call' = [call EXCEPT ![c] = Idle]
Begin(c, x) == call[c] = Idle /\ call' = [call EXCEPT ![c] = x]

\* get_user_by_email, get_user_by_external_auth_id
ByEmail(e) == user[e].exists
ByExternalAuthId(x) == {e \in Emails : user[e].external = x}

\* create_user: a minor's account (is_minor, of the date of birth if there is
\* one) awaits a guardian's consent.
NewUser(password, external, young) ==
    [exists |-> TRUE, password |-> password, verified |-> FALSE, external |-> external,
     minor |-> young, consent |-> IF young THEN "pending" ELSE "not_required"]

\* issue_token
IssueToken(e, kind) ==
    \E t \in Tokens :
        /\ token[t].status = "none"
        /\ token' = [token EXCEPT ![t] = [status |-> "live", email |-> e, kind |-> kind]]

Expire(t) ==
    /\ token[t].status = "live"
    /\ token' = [token EXCEPT ![t].status = "expired"]
    /\ UNCHANGED <<provider, user, profiled, service, login, call, cut>>

\* account_is_usable
Usable(e) ==
    /\ user[e].exists /\ user[e].verified
    /\ user[e].minor => user[e].consent = "granted"

\* set_guardian_consent
SetGuardianConsent(e, status) ==
    /\ user[e].exists /\ user[e].minor /\ user[e].consent # status
    /\ user' = [user EXCEPT ![e].consent = status]
    /\ UNCHANGED <<provider, profiled, service, token, login, call, cut>>

-----------------------------------------------------------------------------
(* LocalAuthProvider *)

\* register: no account yet by its check; the column is UNIQUE as well.
Register(c, e, young) ==
    /\ provider = "local"
    /\ ~ByEmail(e)
    /\ Begin(c, [Idle EXCEPT !.at = "create_user", !.email = e, !.minor = young])
    /\ UNCHANGED <<provider, user, profiled, service, token, login, cut>>

\* Mutant: the login of the service makes an account only.
CreateUserBare(c) ==
    LET e == call[c].email  x == call[c].id
    IN  /\ call[c].at = "create_user"
        /\ IF user[e].exists
           THEN Return(c) /\ UNCHANGED user
           ELSE /\ user' = [user EXCEPT ![e] = NewUser(IF x = NoId THEN 0 ELSE -1, x, call[c].minor)]
                /\ IF x = NoId THEN Goto(c, "create_profile") ELSE Return(c)
        /\ UNCHANGED <<provider, profiled, service, token, login, cut>>

\* register_user_with_profile: the account in one transaction (a login of the
\* service tells no date of birth),
CreateUser(c) ==
    LET e == call[c].email  x == call[c].id
    IN  /\ call[c].at = "create_user"
        /\ IF user[e].exists
           THEN Return(c) /\ UNCHANGED user
           ELSE /\ user' = [user EXCEPT ![e] = NewUser(IF x = NoId THEN 0 ELSE -1, x, call[c].minor)]
                /\ Goto(c, "create_profile")
        /\ UNCHANGED <<provider, profiled, service, token, login, cut>>

\* A login of the service takes over that the address is confirmed, and starts a
\* session here; a registration is done.
LoggedIn(c, e) ==
    IF call[c].password = -1 THEN Return(c)
    ELSE call' = [call EXCEPT ![c].at = IF call[c].confirmed THEN "set_verified" ELSE "start_session",
                              ![c].email = e]

\* its driver profile in the next (driver_profiles.user_id is UNIQUE),
CreateProfile(c) ==
    LET e == call[c].email
    IN  /\ call[c].at = "create_profile"
        /\ profiled' = profiled \cup {e}
        /\ IF e \in profiled THEN Return(c)
           ELSE IF call[c].id # NoId THEN LoggedIn(c, e)
           ELSE Goto(c, "issue_token")
        /\ UNCHANGED <<provider, user, service, token, login, cut>>

\* and a token to verify the address.
IssueVerification(c) ==
    /\ call[c].at = "issue_token"
    /\ IssueToken(call[c].email, "verify_email")
    /\ Return(c)
    /\ UNCHANGED <<provider, user, profiled, service, login, cut>>

\* request_email_verification and request_password_reset, of an account.
RequestToken(e, kind) ==
    /\ provider = "local" /\ user[e].exists
    /\ IssueToken(e, kind)
    /\ UNCHANGED <<provider, user, profiled, service, login, call, cut>>

\* verify_password: an account of the service has none here.
HasPassword(e) == user[e].password # -1

\* login: the password is right,
VerifyPassword(c, e) ==
    /\ provider = "local" /\ ByEmail(e) /\ HasPassword(e)
    /\ Begin(c, [Idle EXCEPT !.at = "start_session", !.email = e, !.password = user[e].password])
    /\ UNCHANGED <<provider, user, profiled, service, token, login, cut>>

\* and the caller, whichever provider it asked, starts a session
\* (auth_session.login).
StartSession(c) ==
    LET e == call[c].email
        via == IF call[c].id = NoId THEN "local" ELSE "supabase"
    IN  /\ call[c].at = "start_session"
        /\ \E l \in Logins :
              /\ login[l].status = "none"
              /\ login' = [login EXCEPT ![l] =
                    [status |-> "live", via |-> via, email |-> e, password |-> call[c].password,
                     late |-> call[c].password # IF via = "local" THEN user[e].password ELSE secret[e]]]
        /\ Return(c)
        /\ UNCHANGED <<provider, user, profiled, service, token, cut>>

\* user_for_session
SignedIn(l) == login[l].status = "live"

\* revoke_session: sign out; or the session expires, which is the same.
RevokeSession(l) ==
    /\ SignedIn(l)
    /\ login' = [login EXCEPT ![l].status = "revoked"]
    /\ UNCHANGED <<provider, user, profiled, service, token, call, cut>>

\* consume_token: a link is followed whose token is live,
FindToken(c, t) ==
    /\ provider = "local"
    /\ token[t].status = "live"
    /\ Begin(c, [Idle EXCEPT !.at = "use_token", !.email = token[t].email, !.token = t])
    /\ UNCHANGED <<provider, user, profiled, service, token, login, cut>>

\* and it is marked as used.
UseToken(c) ==
    LET t == call[c].token
    IN  /\ call[c].at = "use_token"
        /\ token' = [token EXCEPT ![t].status = "used"]
        /\ Goto(c, IF token[t].kind = "verify_email" THEN "set_verified" ELSE "set_password")
        /\ UNCHANGED <<provider, user, profiled, service, login, cut>>

\* set_email_verified: verify_email ends so, and a login of the service goes on,
SetVerified(c) ==
    /\ call[c].at = "set_verified"
    /\ user' = [user EXCEPT ![call[c].email].verified = TRUE]
    /\ IF call[c].password = -1 THEN Return(c) ELSE Goto(c, "start_session")
    /\ UNCHANGED <<provider, profiled, service, token, login, cut>>

\* reset_password so: the new password in one transaction,
SetPassword(c) ==
    LET e == call[c].email
    IN  /\ call[c].at = "set_password"
        /\ user[e].password < MaxResets
        /\ user' = [user EXCEPT ![e].password = @ + 1]
        /\ Goto(c, "revoke_all")
        /\ UNCHANGED <<provider, profiled, service, token, login, cut>>

\* Mutant: the session the reset was asked from goes on.
RevokeAllButOne(c) ==
    /\ call[c].at = "revoke_all"
    /\ \E keep \in Logins :
          login' = [l \in Logins |->
              IF login[l].email = call[c].email /\ SignedIn(l) /\ l # keep
              THEN [login[l] EXCEPT !.status = "revoked"] ELSE login[l]]
    /\ Return(c)
    /\ UNCHANGED <<provider, user, profiled, service, token, cut>>

\* the sessions there are end in the next.
RevokeAll(c) ==
    /\ call[c].at = "revoke_all"
    /\ login' = [l \in Logins |->
          IF login[l].email = call[c].email /\ SignedIn(l)
          THEN [login[l] EXCEPT !.status = "revoked"] ELSE login[l]]
    /\ Return(c)
    /\ UNCHANGED <<provider, user, profiled, service, token, cut>>

-----------------------------------------------------------------------------
(* The managed service, and SupabaseAuthProvider *)

\* provider_from_env, after the deployment is given the service's address.
MoveToService ==
    /\ provider = "local"
    /\ \A c \in Calls : call[c] = Idle
    /\ provider' = "supabase"
    /\ UNCHANGED <<user, profiled, service, token, login, call, cut>>

\* handle_new_auth_user: the trigger in the service's own transaction, which
\* fails when the address is linked to another identity.  Of an account that it
\* adopts it changes the link only.
HandleNewAuthUser(e, x, young) ==
    /\ user[e].external \in {NoId, x}
    /\ user' = [user EXCEPT ![e] = IF user[e].exists THEN [@ EXCEPT !.external = x]
                                   ELSE NewUser(-1, x, young)]
    /\ profiled' = profiled \cup {e}

\* _post: the answer comes and the call goes on, or it is lost.
Answered(c, x) == Begin(c, x) \/ UNCHANGED call

\* register: /signup, from the web (whatever the provider here) or from here.
\* The service takes a new identity.
SignUp(c, e, x, young) ==
    /\ identity[e] = NoId
    /\ \A f \in Emails : identity[f] # x /\ user[f].external # x
    /\ \A d \in Calls : call[d].id # x
    /\ identity' = [identity EXCEPT ![e] = x]
    /\ minor' = IF young THEN minor \cup {e} ELSE minor
    /\ HandleNewAuthUser(e, x, young)
    /\ IF provider = "supabase"
       THEN Answered(c, [Idle EXCEPT !.at = "mirror", !.email = e, !.id = x, !.minor = young])
       ELSE UNCHANGED call
    /\ UNCHANGED <<provider, confirmed, secret, token, login, cut>>

\* The link in the service's mail is followed: handle_auth_user_confirmed.
Confirm(e) ==
    /\ identity[e] # NoId /\ e \notin confirmed
    /\ confirmed' = confirmed \cup {e}
    /\ user' = [f \in Emails |-> IF f \in ByExternalAuthId(identity[e])
                                 THEN [user[f] EXCEPT !.verified = TRUE] ELSE user[f]]
    /\ UNCHANGED <<provider, profiled, identity, minor, secret, token, login, call, cut>>

\* The link in the mail of request_password_reset is followed: the service takes
\* the new password, and nothing here is told.
ServiceReset(e) ==
    /\ identity[e] # NoId /\ secret[e] < MaxResets
    /\ secret' = [secret EXCEPT ![e] = @ + 1]
    /\ UNCHANGED <<provider, user, profiled, identity, confirmed, minor, token, login, call, cut>>

DeleteIdentity(e) ==
    /\ identity' = [identity EXCEPT ![e] = NoId] /\ confirmed' = confirmed \ {e}
    /\ minor' = minor \ {e} /\ secret' = [secret EXCEPT ![e] = 0]

\* An identity is deleted at the service; the mirror keeps its row.  (Bound:
\* not between a login's check of the row and its link to the identity.)
Forget(e) ==
    /\ identity[e] # NoId
    /\ \A c \in Calls : call[c].id # identity[e]
    /\ DeleteIdentity(e)
    /\ UNCHANGED <<provider, user, profiled, token, login, call, cut>>

\* Mutant: the tokens of the account are forgotten.
AdminDeleteKeepingTokens(e) ==
    /\ user[e].exists
    /\ \A c \in Calls : call[c].email = e => call[c].at = "mirror"
    /\ user' = [user EXCEPT ![e] = NoUser]
    /\ profiled' = profiled \ {e}
    /\ login' = [l \in Logins |-> IF login[l].email = e THEN [login[l] EXCEPT !.status = "deleted"]
                                                      ELSE login[l]]
    /\ UNCHANGED <<provider, service, token, call, cut>>

\* admin_delete_user: all that hangs on the account goes, and the identity if
\* the service's tables are in reach.  (Bound: no call holds the row.)
AdminDeleteUser(e) ==
    /\ user[e].exists
    /\ \A c \in Calls : call[c].email = e => call[c].at = "mirror"
    /\ user' = [user EXCEPT ![e] = NoUser]
    /\ profiled' = profiled \ {e}
    /\ token' = [t \in Tokens |-> IF token[t].email = e THEN [token[t] EXCEPT !.status = "deleted"]
                                                      ELSE token[t]]
    /\ login' = [l \in Logins |-> IF login[l].email = e THEN [login[l] EXCEPT !.status = "deleted"]
                                                      ELSE login[l]]
    /\ \/ UNCHANGED service
       \/ \E f \in Emails :
             /\ identity[f] # NoId /\ identity[f] = user[e].external
             /\ DeleteIdentity(f)
    /\ cut' = {k \in cut : k[1] # e}
    /\ UNCHANGED <<provider, call>>

\* login: the service accepts the password,
ServiceLogin(c, e) ==
    /\ provider = "supabase" /\ identity[e] # NoId
    /\ Begin(c, [Idle EXCEPT !.at = "mirror", !.email = e, !.id = identity[e],
                              !.password = secret[e], !.confirmed = e \in confirmed])
    /\ UNCHANGED <<provider, user, profiled, service, token, login, cut>>

\* Mutant: an account with the address is adopted whoever's it is.
MirrorUserAdopting(c) ==
    LET e == call[c].email  x == call[c].id
    IN  /\ call[c].at = "mirror"
        /\ IF ByExternalAuthId(x) # {} THEN Return(c)
           ELSE IF ByEmail(e) THEN Goto(c, "link")
           ELSE Goto(c, "create_user")
        /\ UNCHANGED <<provider, user, profiled, service, token, login, cut>>

\* and _mirror_user finds, links or makes the row, or refuses
\* (AuthMirrorConflict).
MirrorUser(c) ==
    LET e == call[c].email  x == call[c].id
    IN  /\ call[c].at = "mirror"
        /\ IF ByExternalAuthId(x) # {} THEN \E f \in ByExternalAuthId(x) : LoggedIn(c, f)
           ELSE IF ~ByEmail(e) THEN Goto(c, "create_user")
           ELSE IF user[e].external = NoId THEN Goto(c, "link")
           ELSE Return(c)
        /\ UNCHANGED <<provider, user, profiled, service, token, login, cut>>

\* set_external_auth_id
SetExternalAuthId(c) ==
    /\ call[c].at = "link"
    /\ user' = [user EXCEPT ![call[c].email].external = call[c].id]
    /\ LoggedIn(c, call[c].email)
    /\ UNCHANGED <<provider, profiled, service, token, login, cut>>

-----------------------------------------------------------------------------

\* The process dies in a call.
Crash(c) ==
    /\ call[c] # Idle /\ Cardinality(cut) < MaxCrashes
    /\ cut' = cut \cup {<<call[c].email, call[c].at>>}
    /\ Return(c)
    /\ UNCHANGED <<provider, user, profiled, service, token, login>>

Step(c) ==
    \/ CreateUser(c) \/ CreateProfile(c) \/ IssueVerification(c) \/ StartSession(c)
    \/ UseToken(c) \/ SetVerified(c) \/ SetPassword(c) \/ RevokeAll(c)
    \/ MirrorUser(c) \/ SetExternalAuthId(c)

Next ==
    \/ \E c \in Calls : Step(c) \/ Crash(c)
    \/ \E c \in Calls, e \in Emails :
          \/ VerifyPassword(c, e) \/ ServiceLogin(c, e)
          \/ \E young \in Ages : Register(c, e, young) \/ \E x \in Ids : SignUp(c, e, x, young)
    \/ \E c \in Calls, t \in Tokens : FindToken(c, t)
    \/ \E t \in Tokens : Expire(t)
    \/ \E l \in Logins : RevokeSession(l)
    \/ \E e \in Emails :
          \/ \E kind \in {"verify_email", "password_reset"} : RequestToken(e, kind)
          \/ \E status \in {"granted", "denied"} : SetGuardianConsent(e, status)
          \/ Confirm(e) \/ ServiceReset(e) \/ Forget(e) \/ AdminDeleteUser(e)
    \/ MoveToService

Spec == Init /\ [][Next]_vars

-----------------------------------------------------------------------------
(* Properties *)

\* Types; an identity belongs to one address, an account to one identity.
TypeOK ==
    /\ provider \in {"local", "supabase"}
    /\ user \in [Emails -> Users]
    /\ profiled \subseteq Emails /\ minor \subseteq Emails
    /\ secret \in [Emails -> 0..MaxResets]
    /\ \A e \in confirmed : identity[e] # NoId
    /\ \A e, f \in Emails :
          /\ (identity[e] # NoId /\ identity[e] = identity[f]) => e = f
          /\ (user[e].external # NoId /\ user[e].external = user[f].external) => e = f
    /\ \A t \in Tokens : token[t].status \notin {"none", "deleted"} => user[token[t].email].exists
    /\ \A l \in Logins : login[l].status \notin {"none", "deleted"} => user[login[l].email].exists

\* "Every registered account does" have a driver profile (accounts.py:975-976):
\* unless it is being made, or a crash cut its registration just there.
\* Through races of two registrations, lost answers and the move between
\* providers.
EveryAccountHasProfile ==
    \A e \in Emails : user[e].exists =>
        \/ e \in profiled
        \/ \E c \in Calls : call[c].email = e /\ call[c].at = "create_profile"
        \/ <<e, "create_profile">> \in cut

\* A password reset here ends the sessions of the old password: one that is alive
\* belongs to a reset about to end it or cut short before it did, or to a login
\* that verified the password before the reset and started the session after.
ResetEndsLogins ==
    \A l \in Logins :
        LET e == login[l].email
        IN (SignedIn(l) /\ login[l].via = "local" /\ login[l].password # user[e].password) =>
              \/ login[l].late
              \/ \E c \in Calls : call[c].at = "revoke_all" /\ call[c].email = e
              \/ <<e, "revoke_all">> \in cut

\* An account that is linked stays with its identity (AuthMirrorConflict):
\* "adopting it would hand one person's telemetry to another" (0004:87-88).
LinkStands ==
    [][\A e \in Emails : (user[e].external # NoId /\ user'[e].exists) =>
          user'[e].external = user[e].external]_vars

-----------------------------------------------------------------------------
(* What the repository says and the code does not keep: no run or theorem    *)
(* has these, TLC refutes each (README, section 4).                          *)

\* "A reset should not leave an attacker's existing session alive" (auth.py:222-224),
\* of a reset at the service.
ServiceResetEndsLogins ==
    \A l \in Logins :
        (SignedIn(l) /\ login[l].via = "supabase" /\ login[l].password # secret[login[l].email])
            => login[l].late

\* "Mirrors ... create_user()'s 'minor => consent pending'" (0004:62-65): who told
\* the service, when registering, to be under 16, has an account that awaits a
\* guardian.
MinorsWait ==
    \A e \in minor : (identity[e] # NoId /\ user[e].external = identity[e]) =>
        user[e].consent # "not_required"

\* "A minor whose guardian has not granted consent is blocked here rather than at
\* each individual feature, so no path can accidentally skip it" (accounts.py:482-484).
MinorsBlocked ==
    \A l \in Logins : (SignedIn(l) /\ user[login[l].email].minor) => Usable(login[l].email)

=============================================================================
