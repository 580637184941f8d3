--------------------------- MODULE AccountsProofs ---------------------------
(***************************************************************************)
(* Proofs about Accounts, for any number of addresses, identities, tokens, *)
(* sessions and concurrent calls, each cut short anywhere: no account is    *)
(* without its profile, none is linked to a second identity, and a reset    *)
(* here ends the sessions of the old password.                             *)
(***************************************************************************)
EXTENDS Accounts, TLAPS

Places == {"idle", "create_user", "create_profile", "issue_token", "start_session", "use_token",
           "set_verified", "set_password", "revoke_all", "mirror", "link"}
CallT  == [at : Places, email : Emails \cup {NoEmail}, token : Tokens \cup {NoToken},
           id : Ids \cup {NoId}, password : -1..MaxResets, minor : BOOLEAN,
           confirmed : BOOLEAN]
TokenT == [status : {"none", "live", "expired", "used", "deleted"}, email : Emails \cup {NoEmail},
           kind : {"verify_email", "password_reset"}]
LoginT == [status : {"none", "live", "revoked", "deleted"}, via : {"local", "supabase"}, email : Emails \cup {NoEmail},
           password : -1..MaxResets, late : BOOLEAN]
Gone   == {"none", "deleted"}

\* A linked account exists.
GoodUser(u) == u \in Users /\ (u.external # NoId => u.exists)

\* An identity is of one address, and an account of that address alone is linked
\* to it.
Distinct(us, idn) ==
    \A e, f \in Emails :
        /\ (idn[e] # NoId /\ idn[e] = idn[f]) => e = f
        /\ (us[e].external # NoId /\ us[e].external = us[f].external) => e = f
        /\ (idn[e] # NoId /\ idn[e] = us[f].external) => e = f

\* What a call that is at a place knows.
GoodCall(x, us, idn, tk, pr) ==
    /\ x \in CallT
    /\ x.at = "idle" <=> x = Idle
    /\ x.at # "idle" => x.email \in Emails
    /\ x.at \notin {"idle", "create_user", "mirror"} => us[x.email].exists
    /\ x.at = "use_token" => /\ x.token \in Tokens /\ tk[x.token].email = x.email
                             /\ tk[x.token].status \notin Gone
    /\ x.at \in {"mirror", "link"} => x.id # NoId
    /\ x.at \in {"issue_token", "use_token"} => x.id = NoId
    /\ x.id # NoId => pr = "supabase"
    /\ (pr = "supabase" /\ x.at = "create_user") => x.id # NoId
    /\ x.at = "mirror" => \/ idn[x.email] = x.id
                          \/ us[x.email].exists => us[x.email].external # NoId
    /\ x.at = "link" => idn[x.email] = x.id /\ us[x.email].external \in {NoId, x.id}
    /\ x.id # NoId => \A e \in Emails : idn[e] = x.id \/ us[e].external = x.id => e = x.email

SameIdentity == \A c, d \in Calls : (call[c].id # NoId /\ call[c].id = call[d].id)
                                        => call[c].email = call[d].email

Shape ==
    /\ provider \in {"local", "supabase"} /\ profiled \subseteq Emails /\ confirmed \subseteq Emails
    /\ identity \in [Emails -> Ids \cup {NoId}]
    /\ minor \subseteq Emails /\ secret \in [Emails -> 0..MaxResets]
    /\ token \in [Tokens -> TokenT] /\ login \in [Logins -> LoginT]
    /\ user = [e \in Emails |-> user[e]] /\ call = [c \in Calls |-> call[c]]

UsersOK  == (\A e \in Emails : GoodUser(user[e])) /\ Distinct(user, identity)
               /\ \A e \in confirmed : identity[e] # NoId
CallsOK  == (\A c \in Calls : GoodCall(call[c], user, identity, token, provider)) /\ SameIdentity
TokensOK == \A t \in Tokens : token[t].status \notin Gone =>
                token[t].email \in Emails /\ user[token[t].email].exists
LoginsOK == \A l \in Logins : login[l].status \notin Gone =>
                login[l].email \in Emails /\ user[login[l].email].exists

IInv == Shape /\ UsersOK /\ CallsOK /\ TokensOK /\ LoginsOK /\ EveryAccountHasProfile /\ ResetEndsLogins

-----------------------------------------------------------------------------
(* Types *)

LEMMA IdleType == Idle \in CallT
BY AccountsConstantsOK DEF AccountsConstantsOK, Idle, CallT, Places

LEMMA NoUserType == NoUser \in Users
BY AccountsConstantsOK DEF AccountsConstantsOK, NoUser, Users

\* A new account.
LEMMA NewUserType ==
    ASSUME NEW p \in {-1, 0}, NEW x \in Ids \cup {NoId}, NEW young \in BOOLEAN
    PROVE  /\ NewUser(p, x, young) \in Users
           /\ NewUser(p, x, young).exists /\ NewUser(p, x, young).external = x
           /\ NewUser(p, x, young).password = p
BY AccountsConstantsOK DEF AccountsConstantsOK, NewUser, Users

\* The initial states.
LEMMA InitIInv == Init => IInv
<1> SUFFICES ASSUME Init PROVE IInv
    OBVIOUS
<1>1. \A e \in Emails : GoodUser(user[e])
      BY NoUserType DEF Init, GoodUser, NoUser
<1>2. \A c \in Calls : GoodCall(call[c], user, identity, token, provider)
      BY IdleType DEF Init, GoodCall, Idle
<1>3. Shape
      BY AccountsConstantsOK DEF AccountsConstantsOK, Init, Shape, TokenT, LoginT
<1>4. Distinct(user, identity)
      BY DEF Init, Distinct, NoUser
<1>5. SameIdentity
      BY DEF Init, SameIdentity, Idle
<1>6. EveryAccountHasProfile
      BY DEF Init, EveryAccountHasProfile, NoUser
<1>7. ResetEndsLogins
      BY DEF Init, ResetEndsLogins, SignedIn
<1> QED BY <1>1, <1>2, <1>3, <1>4, <1>5, <1>6, <1>7
        DEF Init, IInv, UsersOK, CallsOK, TokensOK, LoginsOK, Gone

-----------------------------------------------------------------------------
(* How a step may change a call, and an account *)

\* A call that is changed, and what it is then.
LEMMA CallAt ==
    ASSUME IInv, NEW c \in Calls, NEW y, call' = [call EXCEPT ![c] = y]
    PROVE  /\ \A d \in Calls : call'[d] = IF d = c THEN y ELSE call[d]
           /\ call' = [d \in Calls |-> call'[d]]
BY DEF IInv, Shape

LEMMA UserAt ==
    ASSUME IInv, NEW e \in Emails, NEW u, user' = [user EXCEPT ![e] = u]
    PROVE  /\ \A f \in Emails : user'[f] = IF f = e THEN u ELSE user[f]
           /\ user' = [f \in Emails |-> user'[f]]
BY DEF IInv, Shape

\* Goto keeps all of a call but its place.
LEMMA GotoAt ==
    ASSUME IInv, NEW c \in Calls, NEW at \in Places, Goto(c, at)
    PROVE  \E y \in CallT :
              /\ call' = [call EXCEPT ![c] = y] /\ y.at = at
              /\ y.email = call[c].email /\ y.token = call[c].token /\ y.id = call[c].id
              /\ y.password = call[c].password /\ y.confirmed = call[c].confirmed
<1> DEFINE y == [call[c] EXCEPT !.at = at]
<1>1. call[c] \in CallT
      BY DEF IInv, CallsOK, GoodCall
<1>2. call' = [call EXCEPT ![c] = y]
      BY DEF Goto
<1>3. /\ y \in CallT /\ y.at = at
      /\ y.email = call[c].email /\ y.token = call[c].token /\ y.id = call[c].id
      /\ y.password = call[c].password /\ y.confirmed = call[c].confirmed
      BY <1>1 DEF CallT
<1> QED BY <1>2, <1>3

\* Where LoggedIn leaves a call.
LEMMA LoggedInAt ==
    ASSUME IInv, NEW c \in Calls, NEW e \in Emails, LoggedIn(c, e)
    PROVE  \/ Return(c)
           \/ \E y \in CallT : /\ call' = [call EXCEPT ![c] = y]
                               /\ y.at \in {"set_verified", "start_session"}
                               /\ y.email = e /\ y.id = call[c].id
<1> DEFINE at == IF call[c].confirmed THEN "set_verified" ELSE "start_session"
           y == [call[c] EXCEPT !.at = at, !.email = e]
<1>1. call[c] \in CallT
      BY DEF IInv, CallsOK, GoodCall
<1>2. at \in {"set_verified", "start_session"} /\ (Return(c) \/ call' = [call EXCEPT ![c] = y])
      BY DEF LoggedIn
<1> HIDE DEF at
<1>3. y \in CallT /\ y.at = at /\ y.email = e /\ y.id = call[c].id
      BY <1>1, <1>2 DEF CallT, Places
<1> QED BY <1>2, <1>3

\* A call that is over.
LEMMA GoodIdle == ASSUME NEW us, NEW idn, NEW tk, NEW pr PROVE GoodCall(Idle, us, idn, tk, pr)
<1>1. Idle.at = "idle" /\ Idle.id = NoId
      BY DEF Idle
<1> QED BY <1>1, IdleType DEF GoodCall

\* A call knows what it knew while accounts keep their links and tokens stay.
LEMMA CallStays ==
    ASSUME NEW x, NEW us, NEW idn, NEW tk, NEW pr, NEW us2, NEW tk2,
           GoodCall(x, us, idn, tk, pr),
           \A e \in Emails : us2[e].exists = us[e].exists /\ us2[e].external = us[e].external,
           \A t \in Tokens : tk[t].status \notin Gone =>
               tk2[t].status \notin Gone /\ tk2[t].email = tk[t].email
    PROVE  GoodCall(x, us2, idn, tk2, pr)
BY DEF GoodCall

\* All calls are good when the one that changed is and the others stay so.
LEMMA CallsStep ==
    ASSUME IInv, NEW c \in Calls, NEW y, call' = [call EXCEPT ![c] = y],
           GoodCall(y, user', identity', token', provider'),
           \A d \in Calls \ {c} : GoodCall(call[d], user', identity', token', provider'),
           \/ y.id = NoId
           \/ y.id = call[c].id /\ y.email = call[c].email
           \/ y.email \in Emails /\ identity[y.email] = y.id
           \/ \A d \in Calls : call[d].id # y.id
    PROVE  CallsOK'
<1>1. \A d \in Calls : call'[d] = IF d = c THEN y ELSE call[d]
      BY CallAt
<1>2. ASSUME NEW d \in Calls, d # c, y.id # NoId, call[d].id = y.id PROVE call[d].email = y.email
      BY <1>2 DEF IInv, CallsOK, SameIdentity, GoodCall
<1>3. SameIdentity'
      BY <1>1, <1>2 DEF IInv, CallsOK, SameIdentity
<1> QED BY <1>1, <1>3 DEF CallsOK

LEMMA CallsReturn ==
    ASSUME IInv, NEW c \in Calls, Return(c),
           \A d \in Calls \ {c} : GoodCall(call[d], user', identity', token', provider')
    PROVE  CallsOK'
<1>1. Idle.id = NoId
      BY DEF Idle
<1>2. GoodCall(Idle, user', identity', token', provider')
      BY GoodIdle
<1> QED BY <1>1, <1>2, CallsStep DEF Return

LEMMA CallsUnchanged ==
    ASSUME IInv, UNCHANGED call,
           \A d \in Calls : GoodCall(call[d], user', identity', token', provider')
    PROVE  CallsOK'
BY DEF IInv, CallsOK, SameIdentity

\* The steps that leave links and tokens as they are.
LEMMA OthersStay ==
    ASSUME IInv, UNCHANGED <<identity, provider>>,
           \A e \in Emails : user'[e].exists = user[e].exists /\ user'[e].external = user[e].external,
           \A t \in Tokens : token[t].status \notin Gone =>
               token'[t].status \notin Gone /\ token'[t].email = token[t].email
    PROVE  \A d \in Calls : GoodCall(call[d], user', identity', token', provider')
BY CallStays DEF IInv, CallsOK

-----------------------------------------------------------------------------
(* Calls, action by action *)

LEMMA CallsBeginLocal ==
    ASSUME IInv, NEW c \in Calls, NEW e \in Emails, NEW young \in BOOLEAN,
           Register(c, e, young) \/ VerifyPassword(c, e)
    PROVE  CallsOK'
<1>1. /\ \A d \in Calls : GoodCall(call[d], user', identity', token', provider')
      /\ provider = "local" /\ UNCHANGED <<provider, user>>
      BY OthersStay DEF Register, VerifyPassword, service
<1>2. Idle \in CallT /\ Idle.id = NoId
      BY IdleType DEF Idle
<1>3. CASE Register(c, e, young)
  <2> DEFINE y == [Idle EXCEPT !.at = "create_user", !.email = e, !.minor = young]
  <2>1. y \in CallT /\ y.at = "create_user" /\ y.email = e /\ y.id = NoId
        BY <1>2 DEF CallT, Places
  <2>2. call' = [call EXCEPT ![c] = y]
        BY <1>3 DEF Register, Begin
  <2> HIDE DEF y
  <2>3. GoodCall(y, user', identity', token', provider')
        BY <1>1, <2>1 DEF GoodCall, Idle
  <2> QED BY <1>1, <2>1, <2>2, <2>3, CallsStep
<1>4. CASE VerifyPassword(c, e)
  <2> DEFINE y == [Idle EXCEPT !.at = "start_session", !.email = e, !.password = user[e].password]
  <2>1. user[e].exists /\ user[e].password \in -1..MaxResets
        BY <1>4 DEF VerifyPassword, ByEmail, IInv, UsersOK, GoodUser, Users
  <2>2. y \in CallT /\ y.at = "start_session" /\ y.email = e /\ y.id = NoId
        BY <1>2, <2>1 DEF CallT, Places
  <2>3. call' = [call EXCEPT ![c] = y]
        BY <1>4 DEF VerifyPassword, Begin
  <2> HIDE DEF y
  <2>4. GoodCall(y, user', identity', token', provider')
        BY <1>1, <2>1, <2>2 DEF GoodCall, Idle
  <2> QED BY <1>1, <2>2, <2>3, <2>4, CallsStep
<1> QED BY <1>3, <1>4

LEMMA CallsFindToken ==
    ASSUME IInv, NEW c \in Calls, NEW t \in Tokens, FindToken(c, t) PROVE CallsOK'
<1> DEFINE y == [Idle EXCEPT !.at = "use_token", !.email = token[t].email, !.token = t]
<1>1. \A d \in Calls : GoodCall(call[d], user', identity', token', provider')
      BY OthersStay DEF FindToken, service
<1>2. token[t].status \notin Gone /\ token[t].email \in Emails /\ user[token[t].email].exists
      BY DEF FindToken, Gone, IInv, TokensOK
<1>3. Idle \in CallT /\ Idle.id = NoId
      BY IdleType DEF Idle
<1>4. y \in CallT /\ y.at = "use_token" /\ y.email = token[t].email /\ y.token = t /\ y.id = NoId
      BY <1>2, <1>3 DEF CallT, Places
<1>5. call' = [call EXCEPT ![c] = y] /\ UNCHANGED <<user, token>>
      BY DEF FindToken, Begin
<1> HIDE DEF y
<1>6. GoodCall(y, user', identity', token', provider')
      BY <1>2, <1>4, <1>5 DEF GoodCall, Idle
<1> QED BY <1>1, <1>4, <1>5, <1>6, CallsStep

LEMMA CallsServiceLogin ==
    ASSUME IInv, NEW c \in Calls, NEW e \in Emails, ServiceLogin(c, e) PROVE CallsOK'
<1>1. \A d \in Calls : GoodCall(call[d], user', identity', token', provider')
      BY OthersStay DEF ServiceLogin, service
<1>2. identity[e] \in Ids /\ identity[e] # NoId /\ provider = "supabase"
      BY DEF ServiceLogin, IInv, Shape
<1> DEFINE sure == e \in confirmed
           y == [Idle EXCEPT !.at = "mirror", !.email = e, !.id = identity[e],
                             !.password = secret[e], !.confirmed = sure]
<1>3. call' = [call EXCEPT ![c] = y]
      BY DEF ServiceLogin, Begin
<1>0. y \in CallT /\ y.at = "mirror" /\ y.email = e /\ y.id = identity[e]
  <2>1. secret[e] \in -1..MaxResets
        BY AccountsConstantsOK DEF AccountsConstantsOK, IInv, Shape
  <2>2. sure \in BOOLEAN /\ Idle \in CallT
        BY IdleType
  <2> HIDE DEF sure
  <2> QED BY <1>2, <2>1, <2>2 DEF CallT, Places
<1> HIDE DEF y
<1>4. \A f \in Emails : identity[f] = y.id \/ user[f].external = y.id => f = e
      BY <1>0, <1>2 DEF IInv, UsersOK, Distinct
<1>5. GoodCall(y, user', identity', token', provider')
      BY <1>0, <1>2, <1>4 DEF GoodCall, Idle, ServiceLogin, service
<1> QED BY <1>0, <1>1, <1>3, <1>5, CallsStep

\* A call that goes on to another place with what it has.
LEMMA CallsGoto ==
    ASSUME IInv, NEW c \in Calls, NEW at \in Places \ {"idle", "create_user", "use_token", "mirror"},
           Goto(c, at), call[c].at # "idle", user'[call[c].email].exists,
           at = "issue_token" => call[c].id = NoId,
           at = "link" => /\ call[c].id # NoId /\ identity'[call[c].email] = call[c].id
                          /\ user'[call[c].email].external \in {NoId, call[c].id},
           \A d \in Calls : GoodCall(call[d], user', identity', token', provider')
    PROVE  CallsOK'
<1>1. PICK y \in CallT : /\ call' = [call EXCEPT ![c] = y] /\ y.at = at
                         /\ y.email = call[c].email /\ y.token = call[c].token /\ y.id = call[c].id
      BY GotoAt
<1>2. GoodCall(call[c], user', identity', token', provider')
      OBVIOUS
<1>3. GoodCall(y, user', identity', token', provider')
      BY <1>1, <1>2 DEF GoodCall, Idle
<1> QED BY <1>1, <1>3, CallsStep

\* A call of a login of the service that is at its end.
LEMMA CallsLoggedIn ==
    ASSUME IInv, NEW c \in Calls, LoggedIn(c, call[c].email), call[c].email \in Emails,
           user'[call[c].email].exists,
           \A d \in Calls : GoodCall(call[d], user', identity', token', provider')
    PROVE  CallsOK'
<1>1. CASE Return(c)
      BY <1>1, CallsReturn
<1>2. CASE \E y \in CallT : /\ call' = [call EXCEPT ![c] = y]
                            /\ y.at \in {"set_verified", "start_session"}
                            /\ y.email = call[c].email /\ y.id = call[c].id
  <2>1. PICK y \in CallT : /\ call' = [call EXCEPT ![c] = y]
                           /\ y.at \in {"set_verified", "start_session"}
                           /\ y.email = call[c].email /\ y.id = call[c].id
        BY <1>2
  <2>2. GoodCall(call[c], user', identity', token', provider')
        OBVIOUS
  <2>3. GoodCall(y, user', identity', token', provider')
        BY <2>1, <2>2 DEF GoodCall, Idle
  <2> QED BY <2>1, <2>3, CallsStep
<1> QED BY <1>1, <1>2, LoggedInAt

\* The account of a call is made by it, or it finds that there is one.
LEMMA CallsCreateUser == ASSUME IInv, NEW c \in Calls, CreateUser(c) PROVE CallsOK'
<1> DEFINE e == call[c].email
<1>1. /\ call[c].at = "create_user" /\ e \in Emails /\ GoodCall(call[c], user, identity, token, provider)
      /\ call[c].id \in Ids \cup {NoId} /\ call[c].minor \in BOOLEAN /\ UNCHANGED <<identity, token, provider>>
      BY DEF CreateUser, IInv, CallsOK, GoodCall, CallT, service
<1>2. CASE user[e].exists
  <2>1. UNCHANGED user /\ Return(c)
        BY <1>2 DEF CreateUser
  <2> QED BY <1>1, <2>1, CallsReturn, OthersStay
<1>3. CASE ~user[e].exists
  <2> DEFINE u == NewUser(IF call[c].id = NoId THEN 0 ELSE -1, call[c].id, call[c].minor)
  <2>1. Goto(c, "create_profile") /\ user' = [user EXCEPT ![e] = u]
        BY <1>3 DEF CreateUser
  <2>2. u.exists /\ u.external = call[c].id
        BY <1>1, NewUserType
  <2> HIDE DEF u
  <2>3. \A f \in Emails : user'[f] = IF f = e THEN u ELSE user[f]
        BY <1>1, <2>1, UserAt
  <2>4. ASSUME NEW d \in Calls PROVE GoodCall(call[d], user', identity', token', provider')
    <3>1. GoodCall(call[d], user, identity, token, provider)
          BY DEF IInv, CallsOK
    <3>2. call[d].id # NoId /\ call[d].id = call[c].id => call[d].email = e
          BY DEF IInv, CallsOK, SameIdentity
    <3>3. \A f \in Emails : user[f].exists => user'[f] = user[f]
          BY <1>3, <2>3
    <3>4. call[d].id # NoId => call[c].id # NoId
          BY <1>1, <3>1 DEF GoodCall
    <3> QED BY <1>1, <1>3, <2>2, <2>3, <3>1, <3>2, <3>3, <3>4 DEF GoodCall
  <2>5. user'[e].exists
        BY <1>1, <2>2, <2>3
  <2> QED BY <1>1, <2>1, <2>4, <2>5, CallsGoto DEF Places
<1> QED BY <1>2, <1>3

\* A call that links the account to its identity.
LEMMA CallsSetExternalAuthId == ASSUME IInv, NEW c \in Calls, SetExternalAuthId(c) PROVE CallsOK'
<1> DEFINE e == call[c].email
<1> DEFINE u == [user[e] EXCEPT !.external = call[c].id]
<1>1. /\ call[c].at = "link" /\ e \in Emails /\ GoodCall(call[c], user, identity, token, provider)
      /\ identity[e] = call[c].id /\ call[c].id # NoId
      /\ UNCHANGED <<identity, token, provider>> /\ user[e] \in Users /\ user[e].exists
      BY DEF SetExternalAuthId, IInv, CallsOK, GoodCall, UsersOK, GoodUser, service
<1>2. user' = [user EXCEPT ![e] = u] /\ LoggedIn(c, e)
      BY DEF SetExternalAuthId
<1>3. u.exists /\ u.external = call[c].id
      BY <1>1 DEF Users
<1> HIDE DEF u
<1>4. \A f \in Emails : user'[f] = IF f = e THEN u ELSE user[f]
      BY <1>1, <1>2, UserAt
<1>5. ASSUME NEW d \in Calls PROVE GoodCall(call[d], user', identity', token', provider')
  <2>1. GoodCall(call[d], user, identity, token, provider)
        BY DEF IInv, CallsOK
  <2>2. call[d].id # NoId /\ call[d].id = call[c].id => call[d].email = e
        BY DEF IInv, CallsOK, SameIdentity
  <2>3. \A f \in Emails : user'[f].exists <=> user[f].exists
        BY <1>1, <1>3, <1>4
  <2> QED BY <1>1, <1>3, <1>4, <2>1, <2>2, <2>3 DEF GoodCall
<1> QED BY <1>1, <1>2, <1>3, <1>4, <1>5, CallsLoggedIn

LEMMA CallsMirrorUser == ASSUME IInv, NEW c \in Calls, MirrorUser(c) PROVE CallsOK'
<1> DEFINE e == call[c].email
<1>1. /\ call[c].at = "mirror" /\ e \in Emails /\ GoodCall(call[c], user, identity, token, provider)
      /\ call[c].id # NoId /\ UNCHANGED <<identity, token, provider, user>>
      BY DEF MirrorUser, IInv, CallsOK, GoodCall, service
<1>2. \A d \in Calls : GoodCall(call[d], user', identity', token', provider')
      BY <1>1, OthersStay
<1>3. CASE \E f \in ByExternalAuthId(call[c].id) : LoggedIn(c, f)
  <2>1. PICK f \in Emails : user[f].external = call[c].id /\ LoggedIn(c, f)
        BY <1>3 DEF ByExternalAuthId
  <2>2. f = e /\ user[e].exists
        BY <1>1, <2>1 DEF GoodCall, IInv, UsersOK, GoodUser
  <2> QED BY <1>1, <1>2, <2>1, <2>2, CallsLoggedIn
<1>4. CASE Goto(c, "create_user")
  <2>1. "create_user" \in Places
        BY DEF Places
  <2>2. PICK y \in CallT : /\ call' = [call EXCEPT ![c] = y] /\ y.at = "create_user"
                           /\ y.email = e /\ y.id = call[c].id
        BY <1>4, <2>1, GotoAt
  <2>3. GoodCall(y, user', identity', token', provider')
        BY <1>1, <2>2 DEF GoodCall, Idle
  <2> QED BY <1>2, <2>2, <2>3, CallsStep
<1>5. CASE Goto(c, "link") /\ user[e].exists /\ user[e].external = NoId
  <2>1. identity[e] = call[c].id
        BY <1>1, <1>5 DEF GoodCall
  <2> QED BY <1>1, <1>2, <1>5, <2>1, CallsGoto DEF Places
<1>6. CASE Return(c)
      BY <1>2, <1>6, CallsReturn
<1> QED BY <1>3, <1>4, <1>5, <1>6 DEF MirrorUser, ByEmail

\* The steps of a call after which links and tokens are as they were.
LEMMA CallsQuiet ==
    ASSUME IInv, NEW c \in Calls,
           \/ CreateProfile(c) \/ IssueVerification(c) \/ StartSession(c) \/ UseToken(c)
           \/ SetVerified(c) \/ SetPassword(c) \/ RevokeAll(c) \/ Crash(c)
    PROVE  CallsOK'
<1> DEFINE e == call[c].email
<1>1. call[c].at # "idle" /\ UNCHANGED <<identity, provider>>
      BY GoodIdle DEF CreateProfile, IssueVerification, StartSession, UseToken, SetVerified, SetPassword,
         RevokeAll, Crash, service, IInv, CallsOK, GoodCall
<1>2. GoodCall(call[c], user, identity, token, provider) /\ e \in Emails /\ user[e] \in Users
      BY <1>1 DEF IInv, CallsOK, GoodCall, UsersOK, GoodUser
<1>3. \A f \in Emails : user'[f].exists = user[f].exists /\ user'[f].external = user[f].external
  <2>1. CASE SetVerified(c)
    <3> DEFINE u == [user[e] EXCEPT !.verified = TRUE]
    <3>1. u.exists = user[e].exists /\ u.external = user[e].external
          BY <1>2 DEF Users
    <3>2. user' = [user EXCEPT ![e] = u]
          BY <2>1 DEF SetVerified
    <3> HIDE DEF u
    <3> QED BY <1>2, <3>1, <3>2, UserAt
  <2>2. CASE SetPassword(c)
    <3> DEFINE u == [user[e] EXCEPT !.password = user[e].password + 1]
    <3>1. u.exists = user[e].exists /\ u.external = user[e].external
          BY <1>2 DEF Users
    <3>2. user' = [user EXCEPT ![e] = u]
          BY <2>2 DEF SetPassword
    <3> HIDE DEF u
    <3> QED BY <1>2, <3>1, <3>2, UserAt
  <2>3. CASE UNCHANGED user
        BY <2>3
  <2> QED BY <2>1, <2>2, <2>3 DEF CreateProfile, IssueVerification, StartSession, UseToken, RevokeAll, Crash
<1>4. \A t \in Tokens : token[t].status \notin Gone =>
          token'[t].status \notin Gone /\ token'[t].email = token[t].email
  <2>1. token \in [Tokens -> TokenT]
        BY DEF IInv, Shape
  <2>2. CASE IssueVerification(c)
        BY <2>1, <2>2 DEF IssueVerification, IssueToken, TokenT, Gone
  <2>3. CASE UseToken(c)
        BY <2>1, <2>3 DEF UseToken, TokenT, Gone
  <2>4. CASE UNCHANGED token
        BY <2>4
  <2> QED BY <2>2, <2>3, <2>4 DEF CreateProfile, StartSession, SetVerified, SetPassword, RevokeAll, Crash
<1>5. \A d \in Calls : GoodCall(call[d], user', identity', token', provider')
      BY <1>1, <1>3, <1>4, OthersStay
<1>6. CASE Return(c)
      BY <1>5, <1>6, CallsReturn
<1>7. CASE CreateProfile(c) /\ ~Return(c)
  <2>1. call[c].at = "create_profile" /\ user'[e].exists
        BY <1>2, <1>3, <1>7 DEF CreateProfile, GoodCall
  <2>2. LoggedIn(c, e) \/ (Goto(c, "issue_token") /\ call[c].id = NoId)
        BY <1>7 DEF CreateProfile
  <2> QED BY <1>1, <1>2, <1>5, <2>1, <2>2, CallsLoggedIn, CallsGoto DEF Places
<1>8. CASE UseToken(c)
  <2>1. PICK at \in {"set_verified", "set_password"} : Goto(c, at)
        BY <1>8 DEF UseToken
  <2>2. user'[e].exists
        BY <1>2, <1>3, <1>8 DEF UseToken, GoodCall
  <2> QED BY <1>1, <1>5, <2>1, <2>2, CallsGoto DEF Places
<1>9. CASE SetPassword(c)
  <2>1. user'[e].exists
        BY <1>2, <1>3, <1>9 DEF SetPassword, GoodCall
  <2> QED BY <1>1, <1>5, <1>9, <2>1, CallsGoto DEF Places, SetPassword
<1>10. CASE SetVerified(c) /\ Goto(c, "start_session")
  <2>1. user'[e].exists
        BY <1>2, <1>3, <1>10 DEF SetVerified, GoodCall
  <2> QED BY <1>1, <1>5, <1>10, <2>1, CallsGoto DEF Places
<1> QED BY <1>6, <1>7, <1>8, <1>9, <1>10 DEF IssueVerification, StartSession, SetVerified, RevokeAll, Crash

-----------------------------------------------------------------------------
(* Calls, while others act *)

\* Steps of people and of the database that leave links, tokens and calls alone.
LEMMA CallsMeanwhile ==
    ASSUME IInv,
           \/ \E e \in Emails, status \in {"granted", "denied"} : SetGuardianConsent(e, status)
           \/ \E e \in Emails : Confirm(e) \/ ServiceReset(e)
           \/ \E e \in Emails, kind \in {"verify_email", "password_reset"} : RequestToken(e, kind)
           \/ \E t \in Tokens : Expire(t)
           \/ \E l \in Logins : RevokeSession(l)
    PROVE  CallsOK'
<1>1. UNCHANGED <<identity, provider, call>>
      BY DEF SetGuardianConsent, Confirm, ServiceReset, RequestToken, Expire, RevokeSession, service
<1>2. \A e \in Emails : user[e] \in Users
      BY DEF IInv, UsersOK, GoodUser
<1>3. \A f \in Emails : user'[f].exists = user[f].exists /\ user'[f].external = user[f].external
  <2>1. ASSUME NEW e \in Emails, NEW status \in {"granted", "denied"}, SetGuardianConsent(e, status)
        PROVE  \A f \in Emails : user'[f].exists = user[f].exists /\ user'[f].external = user[f].external
    <3> DEFINE u == [user[e] EXCEPT !.consent = status]
    <3>1. u.exists = user[e].exists /\ u.external = user[e].external
          BY <1>2 DEF Users
    <3>2. user' = [user EXCEPT ![e] = u]
          BY <2>1 DEF SetGuardianConsent
    <3> HIDE DEF u
    <3> QED BY <3>1, <3>2, UserAt
  <2>2. ASSUME NEW e \in Emails, Confirm(e)
        PROVE  \A f \in Emails : user'[f].exists = user[f].exists /\ user'[f].external = user[f].external
    <3> TAKE f \in Emails
    <3> DEFINE u == [user[f] EXCEPT !.verified = TRUE]
    <3>1. u.exists = user[f].exists /\ u.external = user[f].external
          BY <1>2 DEF Users
    <3>2. user'[f] = u \/ user'[f] = user[f]
          BY <2>2 DEF Confirm
    <3> HIDE DEF u
    <3> QED BY <3>1, <3>2
  <2>3. CASE UNCHANGED user
        BY <2>3
  <2> QED BY <2>1, <2>2, <2>3 DEF RequestToken, ServiceReset, Expire, RevokeSession
<1>4. \A t \in Tokens : token[t].status \notin Gone =>
          token'[t].status \notin Gone /\ token'[t].email = token[t].email
  <2>1. token \in [Tokens -> TokenT]
        BY DEF IInv, Shape
  <2>2. CASE \E e \in Emails, kind \in {"verify_email", "password_reset"} : RequestToken(e, kind)
        BY <2>1, <2>2 DEF RequestToken, IssueToken, TokenT, Gone
  <2>3. CASE \E t \in Tokens : Expire(t)
        BY <2>1, <2>3 DEF Expire, TokenT, Gone
  <2>4. CASE UNCHANGED token
        BY <2>4
  <2> QED BY <2>2, <2>3, <2>4 DEF SetGuardianConsent, Confirm, ServiceReset, RevokeSession
<1> QED BY <1>1, <1>3, <1>4, OthersStay, CallsUnchanged

\* An identity goes that no call holds.
LEMMA CallsForget == ASSUME IInv, NEW e \in Emails, Forget(e) PROVE CallsOK'
<1>1. ASSUME NEW d \in Calls PROVE GoodCall(call[d], user', identity', token', provider')
  <2>1. GoodCall(call[d], user, identity, token, provider) /\ call[d].id # identity[e]
        BY DEF IInv, CallsOK, Forget
  <2>2. \A f \in Emails : identity'[f] = IF f = e THEN NoId ELSE identity[f]
        BY DEF Forget, DeleteIdentity, IInv, Shape
  <2>3. UNCHANGED <<user, token, provider>>
        BY DEF Forget
  <2> QED BY <2>1, <2>2, <2>3 DEF GoodCall
<1> QED BY <1>1, CallsUnchanged DEF Forget

LEMMA CallsMoveToService == ASSUME IInv, MoveToService PROVE CallsOK'
<1>1. \A d \in Calls : call[d] = Idle
      BY DEF MoveToService
<1>2. \A d \in Calls : GoodCall(call[d], user', identity', token', provider')
      BY <1>1, GoodIdle
<1> QED BY <1>2, CallsUnchanged DEF MoveToService

\* A deleted account is held by no call but one that is about to look for it; and
\* the identity that goes with it is that address's.
LEMMA CallsAdminDeleteUser == ASSUME IInv, NEW e \in Emails, AdminDeleteUser(e) PROVE CallsOK'
<1>1. \A f \in Emails : user'[f] = IF f = e THEN NoUser ELSE user[f]
      BY UserAt DEF AdminDeleteUser
<1>2. ~NoUser.exists /\ NoUser.external = NoId
      BY DEF NoUser
<1>3. \A f \in Emails : f # e => identity'[f] = identity[f]
  <2>1. ASSUME NEW g \in Emails, identity[g] # NoId, identity[g] = user[e].external PROVE g = e
        BY <2>1 DEF IInv, UsersOK, Distinct
  <2> QED BY <2>1 DEF AdminDeleteUser, DeleteIdentity, service, IInv, Shape
<1>4. identity'[e] \in {identity[e], NoId}
      BY <1>3 DEF AdminDeleteUser, DeleteIdentity, service, IInv, Shape
<1>5. ASSUME NEW d \in Calls PROVE GoodCall(call[d], user', identity', token', provider')
  <2>1. GoodCall(call[d], user, identity, token, provider)
        BY DEF IInv, CallsOK
  <2>2. call[d].email = e => call[d].at = "mirror"
        BY DEF AdminDeleteUser
  <2>3. \A t \in Tokens : token[t].email # e => token'[t] = token[t]
        BY DEF AdminDeleteUser
  <2> QED BY <1>1, <1>2, <1>3, <1>4, <2>1, <2>2, <2>3 DEF GoodCall, AdminDeleteUser
<1> QED BY <1>5, CallsUnchanged DEF AdminDeleteUser

\* A new identity is linked to the account of its address by the trigger.
LEMMA CallsSignUp ==
    ASSUME IInv, NEW c \in Calls, NEW e \in Emails, NEW x \in Ids, NEW young \in BOOLEAN, SignUp(c, e, x, young) PROVE CallsOK'
<1> DEFINE u == IF user[e].exists THEN [user[e] EXCEPT !.external = x] ELSE NewUser(-1, x, young)
<1>1. user[e] \in Users /\ x # NoId
      BY AccountsConstantsOK DEF AccountsConstantsOK, IInv, UsersOK, GoodUser
<1>2. u.exists /\ u.external = x
      BY <1>1, NewUserType DEF Users
<1>3. user' = [user EXCEPT ![e] = u]
      BY DEF SignUp, HandleNewAuthUser
<1> HIDE DEF u
<1>4. \A f \in Emails : user'[f] = IF f = e THEN u ELSE user[f]
      BY <1>3, UserAt
<1>5. \A f \in Emails : identity'[f] = IF f = e THEN x ELSE identity[f]
      BY DEF SignUp, IInv, Shape
<1>6. /\ identity[e] = NoId /\ user[e].external \in {NoId, x} /\ UNCHANGED <<token, provider>>
      /\ \A f \in Emails : identity[f] # x /\ user[f].external # x
      /\ \A d \in Calls : call[d].id # x
      BY DEF SignUp, HandleNewAuthUser
<1>7. ASSUME NEW d \in Calls PROVE GoodCall(call[d], user', identity', token', provider')
  <2>1. GoodCall(call[d], user, identity, token, provider) /\ call[d].id # x
        BY <1>6 DEF IInv, CallsOK
  <2> QED BY <1>1, <1>2, <1>4, <1>5, <1>6, <2>1 DEF GoodCall
<1>8. CASE UNCHANGED call
      BY <1>7, <1>8, CallsUnchanged
<1>9. CASE Answered(c, [Idle EXCEPT !.at = "mirror", !.email = e, !.id = x, !.minor = young])
           /\ provider = "supabase" /\ ~UNCHANGED call
  <2> DEFINE y == [Idle EXCEPT !.at = "mirror", !.email = e, !.id = x, !.minor = young]
  <2>1. call' = [call EXCEPT ![c] = y]
        BY <1>9 DEF Answered, Begin
  <2>2. y \in CallT /\ y.at = "mirror" /\ y.email = e /\ y.id = x
        BY IdleType DEF CallT, Places
  <2> HIDE DEF y
  <2>3. \A f \in Emails : identity'[f] = x \/ user'[f].external = x => f = e
        BY <1>4, <1>5, <1>6
  <2>4. GoodCall(y, user', identity', token', provider')
        BY <1>1, <1>5, <1>6, <1>9, <2>2, <2>3 DEF GoodCall, Idle
  <2> QED BY <1>6, <1>7, <2>1, <2>2, <2>4, CallsStep
<1> QED BY <1>8, <1>9 DEF SignUp

LEMMA CallsNext == IInv /\ [Next]_vars => CallsOK'
<1> SUFFICES ASSUME IInv, [Next]_vars PROVE CallsOK'
    OBVIOUS
<1>1. CASE \E c \in Calls : Step(c) \/ Crash(c)
      BY <1>1, CallsCreateUser, CallsSetExternalAuthId, CallsMirrorUser, CallsQuiet DEF Step
<1>2. CASE \E c \in Calls, e \in Emails :
              \/ VerifyPassword(c, e) \/ ServiceLogin(c, e)
              \/ \E young \in Ages : Register(c, e, young) \/ \E x \in Ids : SignUp(c, e, x, young)
      BY <1>2, AccountsConstantsOK, CallsBeginLocal, CallsServiceLogin, CallsSignUp DEF AccountsConstantsOK
<1>3. CASE \E c \in Calls, t \in Tokens : FindToken(c, t)
      BY <1>3, CallsFindToken
<1>4. CASE (\E t \in Tokens : Expire(t)) \/ (\E l \in Logins : RevokeSession(l))
      BY <1>4, CallsMeanwhile
<1>5. CASE \E e \in Emails :
              \/ \E kind \in {"verify_email", "password_reset"} : RequestToken(e, kind)
              \/ \E status \in {"granted", "denied"} : SetGuardianConsent(e, status)
              \/ Confirm(e) \/ ServiceReset(e) \/ Forget(e) \/ AdminDeleteUser(e)
      BY <1>5, CallsMeanwhile, CallsForget, CallsAdminDeleteUser
<1>6. CASE MoveToService
      BY <1>6, CallsMoveToService
<1>7. CASE UNCHANGED vars
      BY <1>7 DEF vars, service, IInv, CallsOK, SameIdentity
<1> QED BY <1>1, <1>2, <1>3, <1>4, <1>5, <1>6, <1>7 DEF Next

-----------------------------------------------------------------------------
(* Accounts *)

\* A change of an account that keeps what it is and its link.
Same(u, v) == v \in Users /\ v.exists = u.exists /\ v.external = u.external

LEMMA UsersStay ==
    ASSUME IInv, UNCHANGED <<identity, confirmed>>, \A e \in Emails : Same(user[e], user'[e])
    PROVE  UsersOK'
<1>1. \A e \in Emails : GoodUser(user'[e])
      BY DEF IInv, UsersOK, GoodUser, Same
<1>2. Distinct(user, identity)'
      BY DEF IInv, UsersOK, Distinct, Same
<1> QED BY <1>1, <1>2 DEF IInv, UsersOK

\* What a step does to the accounts there are: nothing, a change, a link, a new
\* one, or the end of one.
LEMMA UsersUnchanged == ASSUME IInv, UNCHANGED <<user, identity, confirmed>> PROVE UsersOK'
BY DEF IInv, UsersOK, GoodUser, Distinct

LEMMA AccountsChange ==
    ASSUME IInv,
           \/ \E c \in Calls : SetVerified(c) \/ SetPassword(c)
           \/ \E e \in Emails, status \in {"granted", "denied"} : SetGuardianConsent(e, status)
           \/ \E e \in Emails : Confirm(e)
    PROVE  \A e \in Emails : Same(user[e], user'[e])
<1>1. \A e \in Emails : user[e] \in Users /\ Same(user[e], user[e])
      BY DEF IInv, UsersOK, GoodUser, Same
<1>2. ASSUME NEW e \in Emails, NEW u, user' = [user EXCEPT ![e] = u], Same(user[e], u)
      PROVE  \A f \in Emails : Same(user[f], user'[f])
      BY <1>1, <1>2, UserAt
<1>3. ASSUME NEW c \in Calls, SetVerified(c) PROVE \A f \in Emails : Same(user[f], user'[f])
  <2> DEFINE e == call[c].email
  <2> DEFINE u == [user[e] EXCEPT !.verified = TRUE]
  <2>1. e \in Emails
        BY <1>3 DEF SetVerified, IInv, CallsOK, GoodCall
  <2>2. Same(user[e], u)
        BY <1>1, <2>1 DEF Same, Users
  <2>3. user' = [user EXCEPT ![e] = u]
        BY <1>3 DEF SetVerified
  <2> HIDE DEF u
  <2> QED BY <1>2, <2>1, <2>2, <2>3
<1>4. ASSUME NEW c \in Calls, SetPassword(c) PROVE \A f \in Emails : Same(user[f], user'[f])
  <2> DEFINE e == call[c].email
  <2> DEFINE p == user[e].password + 1
  <2> DEFINE u == [user[e] EXCEPT !.password = p]
  <2>1. e \in Emails
        BY <1>4 DEF SetPassword, IInv, CallsOK, GoodCall
  <2>2. p \in -1..MaxResets
        BY <1>1, <1>4, <2>1, AccountsConstantsOK DEF AccountsConstantsOK, SetPassword, Users
  <2>3. user' = [user EXCEPT ![e] = u]
        BY <1>4 DEF SetPassword
  <2> HIDE DEF p
  <2>4. Same(user[e], u)
        BY <1>1, <2>1, <2>2 DEF Same, Users
  <2> HIDE DEF u
  <2> QED BY <1>2, <2>1, <2>3, <2>4
<1>5. ASSUME NEW e \in Emails, NEW status \in {"granted", "denied"}, SetGuardianConsent(e, status)
      PROVE  \A f \in Emails : Same(user[f], user'[f])
  <2> DEFINE u == [user[e] EXCEPT !.consent = status]
  <2>1. Same(user[e], u)
        BY <1>1 DEF Same, Users
  <2>2. user' = [user EXCEPT ![e] = u]
        BY <1>5 DEF SetGuardianConsent
  <2> HIDE DEF u
  <2> QED BY <1>2, <2>1, <2>2
<1>6. ASSUME NEW e \in Emails, Confirm(e) PROVE \A f \in Emails : Same(user[f], user'[f])
  <2> TAKE f \in Emails
  <2>1. Same(user[f], [user[f] EXCEPT !.verified = TRUE])
        BY <1>1 DEF Same, Users
  <2>2. user'[f] \in {[user[f] EXCEPT !.verified = TRUE], user[f]}
        BY <1>6 DEF Confirm
  <2> QED BY <1>1, <2>1, <2>2
<1> QED BY <1>3, <1>4, <1>5, <1>6

\* An account that is new: with the trigger, or by a call that found none.
LEMMA UsersCreateUser == ASSUME IInv, NEW c \in Calls, CreateUser(c) PROVE UsersOK'
<1> DEFINE e == call[c].email
<1> DEFINE u == NewUser(IF call[c].id = NoId THEN 0 ELSE -1, call[c].id, call[c].minor)
<1>1. /\ e \in Emails /\ call[c].id \in Ids \cup {NoId} /\ call[c].minor \in BOOLEAN /\ UNCHANGED <<identity, confirmed>>
      /\ call[c].id # NoId => \A f \in Emails : identity[f] = call[c].id \/ user[f].external = call[c].id
                                                     => f = e
      BY DEF CreateUser, IInv, CallsOK, GoodCall, CallT, service
<1>2. CASE UNCHANGED user
      BY <1>1, <1>2, UsersUnchanged
<1>3. CASE user' = [user EXCEPT ![e] = u]
  <2>1. u.external = call[c].id /\ GoodUser(u)
        BY <1>1, NewUserType DEF GoodUser
  <2> HIDE DEF u
  <2>2. \A f \in Emails : user'[f] = IF f = e THEN u ELSE user[f]
        BY <1>1, <1>3, UserAt
  <2>3. \A f \in Emails : GoodUser(user'[f])
        BY <2>1, <2>2 DEF IInv, UsersOK
  <2>4. Distinct(user, identity)'
        BY <1>1, <2>1, <2>2 DEF IInv, UsersOK, Distinct
  <2> QED BY <1>1, <2>3, <2>4 DEF IInv, UsersOK
<1> QED BY <1>2, <1>3 DEF CreateUser

LEMMA UsersSetExternalAuthId == ASSUME IInv, NEW c \in Calls, SetExternalAuthId(c) PROVE UsersOK'
<1> DEFINE e == call[c].email
<1> DEFINE u == [user[e] EXCEPT !.external = call[c].id]
<1>1. /\ e \in Emails /\ call[c].id \in Ids \cup {NoId} /\ call[c].minor \in BOOLEAN /\ UNCHANGED <<identity, confirmed>>
      /\ \A f \in Emails : identity[f] = call[c].id \/ user[f].external = call[c].id => f = e
      /\ GoodUser(user[e]) /\ user[e].exists
      BY DEF SetExternalAuthId, IInv, CallsOK, GoodCall, CallT, service, UsersOK
<1>2. u.external = call[c].id /\ GoodUser(u)
      BY <1>1 DEF GoodUser, Users
<1>3. user' = [user EXCEPT ![e] = u]
      BY DEF SetExternalAuthId
<1> HIDE DEF u
<1>4. \A f \in Emails : user'[f] = IF f = e THEN u ELSE user[f]
      BY <1>1, <1>3, UserAt
<1>5. \A f \in Emails : GoodUser(user'[f])
      BY <1>2, <1>4 DEF IInv, UsersOK
<1>6. Distinct(user, identity)'
      BY <1>1, <1>2, <1>4 DEF IInv, UsersOK, Distinct
<1> QED BY <1>1, <1>5, <1>6 DEF IInv, UsersOK

LEMMA UsersSignUp ==
    ASSUME IInv, NEW c \in Calls, NEW e \in Emails, NEW x \in Ids, NEW young \in BOOLEAN, SignUp(c, e, x, young) PROVE UsersOK'
<1> DEFINE u == IF user[e].exists THEN [user[e] EXCEPT !.external = x] ELSE NewUser(-1, x, young)
<1>1. GoodUser(user[e]) /\ x # NoId
      BY AccountsConstantsOK DEF AccountsConstantsOK, IInv, UsersOK
<1>2. u.external = x /\ GoodUser(u)
      BY <1>1, NewUserType DEF GoodUser, Users
<1>3. user' = [user EXCEPT ![e] = u]
      BY DEF SignUp, HandleNewAuthUser
<1> HIDE DEF u
<1>4. \A f \in Emails : user'[f] = IF f = e THEN u ELSE user[f]
      BY <1>3, UserAt
<1>5. \A f \in Emails : identity'[f] = IF f = e THEN x ELSE identity[f]
      BY DEF SignUp, IInv, Shape
<1>6. \A f \in Emails : identity[f] # x /\ user[f].external # x
      BY DEF SignUp
<1>7. \A f \in Emails : GoodUser(user'[f])
      BY <1>2, <1>4 DEF IInv, UsersOK
<1>8. identity[e] = NoId /\ user[e].external \in {NoId, x}
      BY DEF SignUp, HandleNewAuthUser
<1>9. Distinct(user, identity)'
      BY <1>1, <1>2, <1>4, <1>5, <1>6, <1>8 DEF IInv, UsersOK, Distinct
<1>10. \A f \in confirmed' : identity'[f] # NoId
      BY <1>1, <1>5 DEF SignUp, IInv, UsersOK, Shape
<1> QED BY <1>7, <1>9, <1>10 DEF UsersOK

\* Identities and accounts that go leave the others distinct.
LEMMA UsersGo ==
    ASSUME IInv, NEW e \in Emails, AdminDeleteUser(e) \/ Forget(e) PROVE UsersOK'
<1>1. \A f \in Emails : user'[f] \in {user[f], NoUser}
      BY UserAt DEF AdminDeleteUser, Forget
<1>2. \A f \in Emails : identity'[f] \in {identity[f], NoId}
      BY DEF AdminDeleteUser, Forget, DeleteIdentity, service, IInv, Shape
<1>3. \A f \in Emails : GoodUser(user'[f])
  <2>1. \A f \in Emails : GoodUser(NoUser)
        BY NoUserType DEF GoodUser, NoUser
  <2> QED BY <1>1, <2>1 DEF IInv, UsersOK
<1>4. NoUser.external = NoId
      BY DEF NoUser
<1>5. Distinct(user, identity)'
      BY <1>1, <1>2, <1>4 DEF IInv, UsersOK, Distinct
<1>6. ASSUME NEW f \in confirmed' PROVE identity'[f] # NoId
  <2>1. f \in Emails /\ f \in confirmed /\ identity[f] # NoId
        BY DEF AdminDeleteUser, Forget, DeleteIdentity, service, IInv, UsersOK, Shape
  <2>2. identity'[f] = identity[f]
        BY <2>1 DEF AdminDeleteUser, Forget, DeleteIdentity, service, IInv, Shape
  <2> QED BY <2>1, <2>2
<1> QED BY <1>3, <1>5, <1>6 DEF UsersOK

LEMMA UsersNext == IInv /\ [Next]_vars => UsersOK'
<1> SUFFICES ASSUME IInv, [Next]_vars PROVE UsersOK'
    OBVIOUS
<1>1. CASE UNCHANGED <<user, identity, confirmed>>
      BY <1>1, UsersUnchanged
<1>2. ASSUME NEW c \in Calls, SetVerified(c) \/ SetPassword(c) PROVE UsersOK'
      BY <1>2, AccountsChange, UsersStay DEF SetVerified, SetPassword, service
<1>3. ASSUME NEW e \in Emails, NEW status \in {"granted", "denied"}, SetGuardianConsent(e, status)
      PROVE  UsersOK'
      BY <1>3, AccountsChange, UsersStay DEF SetGuardianConsent, service
<1>4. ASSUME NEW e \in Emails, Confirm(e) PROVE UsersOK'
  <2>1. \A f \in Emails : Same(user[f], user'[f])
        BY <1>4, AccountsChange
  <2>2. \A f \in Emails : GoodUser(user'[f])
        BY <2>1 DEF IInv, UsersOK, GoodUser, Same
  <2>3. Distinct(user, identity)'
        BY <1>4, <2>1 DEF IInv, UsersOK, Distinct, Same, Confirm
  <2> QED BY <1>4, <2>2, <2>3 DEF Confirm, IInv, UsersOK
<1>5. CASE \E c \in Calls : Step(c) \/ Crash(c)
      BY <1>1, <1>2, <1>5, UsersCreateUser, UsersSetExternalAuthId DEF Step, CreateProfile,
         IssueVerification, StartSession, UseToken, RevokeAll, MirrorUser, Crash, service
<1>6. CASE \E c \in Calls, e \in Emails :
              \/ VerifyPassword(c, e) \/ ServiceLogin(c, e)
              \/ \E young \in Ages : Register(c, e, young) \/ \E x \in Ids : SignUp(c, e, x, young)
      BY <1>1, <1>6, AccountsConstantsOK, UsersSignUp DEF Register, VerifyPassword, ServiceLogin, service,
         AccountsConstantsOK
<1>7. CASE \E c \in Calls, t \in Tokens : FindToken(c, t)
      BY <1>1, <1>7 DEF FindToken, service
<1>8. CASE (\E t \in Tokens : Expire(t)) \/ (\E l \in Logins : RevokeSession(l))
      BY <1>1, <1>8 DEF Expire, RevokeSession, service
<1>9. CASE \E e \in Emails :
              \/ \E kind \in {"verify_email", "password_reset"} : RequestToken(e, kind)
              \/ \E status \in {"granted", "denied"} : SetGuardianConsent(e, status)
              \/ Confirm(e) \/ ServiceReset(e) \/ Forget(e) \/ AdminDeleteUser(e)
      BY <1>1, <1>3, <1>4, <1>9, UsersGo DEF RequestToken, ServiceReset, service
<1>10. CASE MoveToService \/ UNCHANGED vars
      BY <1>1, <1>10 DEF MoveToService, vars, service
<1> QED BY <1>5, <1>6, <1>7, <1>8, <1>9, <1>10 DEF Next

\* What a step does to one account: nothing that matters to its sessions, or one
\* of four things.
Quiet(e) == user'[e].exists = user[e].exists /\ user'[e].password = user[e].password
Made(e) == \/ \E c \in Calls : /\ CreateUser(c) /\ call[c].email = e /\ Goto(c, "create_profile")
                               /\ UNCHANGED <<profiled, token, login, cut>>
           \/ \E c \in Calls, x \in Ids, young \in BOOLEAN : SignUp(c, e, x, young)
Reset(e) == \E c \in Calls : SetPassword(c) /\ call[c].email = e /\ user'[e].exists

LEMMA AccountEffect ==
    ASSUME IInv, [Next]_vars, NEW e \in Emails
    PROVE  \/ Quiet(e) \/ Reset(e) \/ AdminDeleteUser(e)
           \/ ~user[e].exists /\ user'[e].exists /\ Made(e)
<1>1. \A f \in Emails : user[f] \in Users
      BY DEF IInv, UsersOK, GoodUser
<1>2. CASE UNCHANGED user
      BY <1>2 DEF Quiet
<1>3. ASSUME NEW f \in Emails, NEW u, user' = [user EXCEPT ![f] = u],
             u.exists = user[f].exists, u.password = user[f].password
      PROVE  Quiet(e)
      BY <1>3, UserAt DEF Quiet
<1>4. ASSUME NEW c \in Calls, CreateUser(c), ~UNCHANGED user
      PROVE  Quiet(e) \/ (~user[e].exists /\ user'[e].exists /\ Made(e))
  <2> DEFINE f == call[c].email
  <2> DEFINE u == NewUser(IF call[c].id = NoId THEN 0 ELSE -1, call[c].id, call[c].minor)
  <2>1. f \in Emails /\ call[c].id \in Ids \cup {NoId} /\ call[c].minor \in BOOLEAN
        BY <1>4 DEF CreateUser, IInv, CallsOK, GoodCall, CallT
  <2>2. u.exists
        BY <2>1, NewUserType
  <2>3. /\ ~user[f].exists /\ user' = [user EXCEPT ![f] = u] /\ Goto(c, "create_profile")
        /\ UNCHANGED <<profiled, token, login, cut>>
        BY <1>4 DEF CreateUser
  <2> HIDE DEF u
  <2>4. \A g \in Emails : user'[g] = IF g = f THEN u ELSE user[g]
        BY <2>1, <2>3, UserAt
  <2>5. CASE e = f
    <3>1. Made(e)
          BY <1>4, <2>3, <2>5 DEF Made
    <3> QED BY <2>2, <2>3, <2>4, <2>5, <3>1
  <2>6. CASE e # f
        BY <2>4, <2>6 DEF Quiet
  <2> QED BY <2>5, <2>6
<1>5. ASSUME NEW c \in Calls, NEW f \in Emails, NEW x \in Ids, NEW young \in BOOLEAN, SignUp(c, f, x, young)
      PROVE  Quiet(e) \/ (~user[e].exists /\ user'[e].exists /\ Made(e))
  <2> DEFINE u == IF user[f].exists THEN [user[f] EXCEPT !.external = x] ELSE NewUser(-1, x, young)
  <2>1. user' = [user EXCEPT ![f] = u]
        BY <1>5 DEF SignUp, HandleNewAuthUser
  <2>2. u.exists /\ (user[f].exists => u.exists = user[f].exists /\ u.password = user[f].password)
        BY <1>1, NewUserType DEF Users
  <2> HIDE DEF u
  <2>3. CASE user[f].exists
        BY <1>3, <2>1, <2>2, <2>3
  <2>4. CASE ~user[f].exists /\ e = f
    <3>1. Made(e)
          BY <1>5, <2>4 DEF Made
    <3> QED BY <2>1, <2>2, <2>4, <3>1, UserAt
  <2>5. CASE e # f
        BY <2>1, <2>5, UserAt DEF Quiet
  <2> QED BY <2>3, <2>4, <2>5
<1>6. ASSUME NEW c \in Calls, SetVerified(c) PROVE Quiet(e)
  <2> DEFINE u == [user[call[c].email] EXCEPT !.verified = TRUE]
  <2>1. call[c].email \in Emails
        BY <1>6 DEF SetVerified, IInv, CallsOK, GoodCall
  <2>2. user' = [user EXCEPT ![call[c].email] = u]
        BY <1>6 DEF SetVerified
  <2>3. u.exists = user[call[c].email].exists /\ u.password = user[call[c].email].password
        BY <1>1, <2>1 DEF Users
  <2> HIDE DEF u
  <2> QED BY <1>3, <2>1, <2>2, <2>3
<1>7. ASSUME NEW c \in Calls, SetExternalAuthId(c) PROVE Quiet(e)
  <2> DEFINE u == [user[call[c].email] EXCEPT !.external = call[c].id]
  <2>1. call[c].email \in Emails
        BY <1>7 DEF SetExternalAuthId, IInv, CallsOK, GoodCall
  <2>2. user' = [user EXCEPT ![call[c].email] = u]
        BY <1>7 DEF SetExternalAuthId
  <2>3. u.exists = user[call[c].email].exists /\ u.password = user[call[c].email].password
        BY <1>1, <2>1 DEF Users
  <2> HIDE DEF u
  <2> QED BY <1>3, <2>1, <2>2, <2>3
<1>8. ASSUME NEW c \in Calls, SetPassword(c) PROVE Quiet(e) \/ Reset(e)
  <2> DEFINE f == call[c].email
  <2> DEFINE p == user[f].password + 1
  <2> DEFINE u == [user[f] EXCEPT !.password = p]
  <2>1. f \in Emails /\ user[f].exists
        BY <1>8 DEF SetPassword, IInv, CallsOK, GoodCall
  <2>2. user' = [user EXCEPT ![f] = u]
        BY <1>8 DEF SetPassword
  <2> HIDE DEF p
  <2>3. u.exists
        BY <1>1, <2>1 DEF Users
  <2> HIDE DEF u
  <2>4. CASE e = f
        BY <1>8, <2>1, <2>2, <2>3, <2>4, UserAt DEF Reset
  <2>5. CASE e # f
        BY <2>1, <2>2, <2>5, UserAt DEF Quiet
  <2> QED BY <2>4, <2>5
<1>9. ASSUME NEW f \in Emails, NEW status \in {"granted", "denied"}, SetGuardianConsent(f, status)
      PROVE  Quiet(e)
  <2> DEFINE u == [user[f] EXCEPT !.consent = status]
  <2>1. user' = [user EXCEPT ![f] = u]
        BY <1>9 DEF SetGuardianConsent
  <2>2. u.exists = user[f].exists /\ u.password = user[f].password
        BY <1>1 DEF Users
  <2> HIDE DEF u
  <2> QED BY <1>3, <2>1, <2>2
<1>10. ASSUME NEW f \in Emails, Confirm(f) PROVE Quiet(e)
  <2>1. user'[e] \in {[user[e] EXCEPT !.verified = TRUE], user[e]}
        BY <1>10 DEF Confirm
  <2>2. /\ [user[e] EXCEPT !.verified = TRUE].exists = user[e].exists
        /\ [user[e] EXCEPT !.verified = TRUE].password = user[e].password
        BY <1>1 DEF Users
  <2> QED BY <2>1, <2>2 DEF Quiet
<1>11. ASSUME NEW f \in Emails, AdminDeleteUser(f) PROVE Quiet(e) \/ AdminDeleteUser(e)
      BY <1>11, UserAt DEF AdminDeleteUser, Quiet
<1>12. CASE \E c \in Calls : Step(c) \/ Crash(c)
      BY <1>2, <1>4, <1>6, <1>7, <1>8, <1>12 DEF Step, CreateProfile, IssueVerification, StartSession,
         UseToken, RevokeAll, MirrorUser, Crash
<1>13. CASE \E c \in Calls, f \in Emails :
              \/ VerifyPassword(c, f) \/ ServiceLogin(c, f)
              \/ \E young \in Ages : Register(c, f, young) \/ \E x \in Ids : SignUp(c, f, x, young)
      BY <1>2, <1>5, <1>13, AccountsConstantsOK DEF Register, VerifyPassword, ServiceLogin, AccountsConstantsOK
<1>14. CASE \/ \E c \in Calls, t \in Tokens : FindToken(c, t)
            \/ \E t \in Tokens : Expire(t)
            \/ \E l \in Logins : RevokeSession(l)
            \/ MoveToService \/ UNCHANGED vars
      BY <1>2, <1>14 DEF FindToken, Expire, RevokeSession, MoveToService, vars
<1>15. CASE \E f \in Emails :
              \/ \E kind \in {"verify_email", "password_reset"} : RequestToken(f, kind)
              \/ \E status \in {"granted", "denied"} : SetGuardianConsent(f, status)
              \/ Confirm(f) \/ ServiceReset(f) \/ Forget(f) \/ AdminDeleteUser(f)
      BY <1>2, <1>9, <1>10, <1>11, <1>15 DEF RequestToken, ServiceReset, Forget
<1> QED BY <1>12, <1>13, <1>14, <1>15 DEF Next

-----------------------------------------------------------------------------
(* Tokens and sessions *)

\* An account there is stays, unless an administrator deletes it.
LEMMA AccountStays ==
    ASSUME IInv, [Next]_vars, NEW e \in Emails, user[e].exists, ~AdminDeleteUser(e)
    PROVE  user'[e].exists
BY AccountEffect DEF Quiet, Reset

\* A new row of a table, and one with another status.
LEMMA TokenEffect ==
    ASSUME IInv, [Next]_vars
    PROVE  /\ token' \in [Tokens -> TokenT]
           /\ \A t \in Tokens : token'[t].status \notin Gone =>
                 \/ token[t].status \notin Gone /\ token'[t].email = token[t].email
                 \/ /\ UNCHANGED user /\ token'[t].email \in Emails
                    /\ user[token'[t].email].exists
<1> DEFINE Goal ==
              /\ token' \in [Tokens -> TokenT]
              /\ \A t \in Tokens : token'[t].status \notin Gone =>
                    \/ token[t].status \notin Gone /\ token'[t].email = token[t].email
                    \/ /\ UNCHANGED user /\ token'[t].email \in Emails
                       /\ user[token'[t].email].exists
<1>1. token \in [Tokens -> TokenT]
      BY DEF IInv, Shape
<1>2. CASE UNCHANGED token
      BY <1>1, <1>2
<1>3. ASSUME NEW e \in Emails, user[e].exists, UNCHANGED user,
             NEW kind \in {"verify_email", "password_reset"}, IssueToken(e, kind)
      PROVE  Goal
  <2> DEFINE k == [status |-> "live", email |-> e, kind |-> kind]
  <2>1. k \in TokenT /\ k.email = e
        BY DEF TokenT
  <2>2. PICK t \in Tokens : token' = [token EXCEPT ![t] = k]
        BY <1>3 DEF IssueToken
  <2> HIDE DEF k
  <2> QED BY <1>1, <1>3, <2>1, <2>2
<1>4. ASSUME NEW t \in Tokens, NEW status \in {"used", "expired"}, token[t].status \notin Gone,
             token' = [token EXCEPT ![t].status = status]
      PROVE  Goal
  <2> DEFINE k == [token[t] EXCEPT !.status = status]
  <2>1. k \in TokenT /\ k.email = token[t].email
        BY <1>1 DEF TokenT
  <2>2. token' = [token EXCEPT ![t] = k]
        BY <1>4
  <2> HIDE DEF k
  <2> QED BY <1>1, <1>4, <2>1, <2>2
<1>5. ASSUME NEW c \in Calls, IssueVerification(c) PROVE Goal
  <2>1. call[c].email \in Emails /\ user[call[c].email].exists
        BY <1>5 DEF IssueVerification, IInv, CallsOK, GoodCall
  <2> QED BY <1>3, <1>5, <2>1 DEF IssueVerification
<1>6. ASSUME NEW c \in Calls, UseToken(c) PROVE Goal
  <2>1. call[c].token \in Tokens /\ token[call[c].token].status \notin Gone
        BY <1>6 DEF UseToken, IInv, CallsOK, GoodCall
  <2> QED BY <1>4, <1>6, <2>1 DEF UseToken
<1>7. ASSUME NEW e \in Emails, AdminDeleteUser(e) PROVE Goal
  <2>1. ASSUME NEW t \in Tokens
        PROVE  token'[t] = token[t] \/ (token'[t] \in TokenT /\ token'[t].status \in Gone)
    <3> DEFINE k == [token[t] EXCEPT !.status = "deleted"]
    <3>1. k \in TokenT /\ k.status \in Gone
          BY <1>1 DEF TokenT, Gone
    <3>2. token'[t] = k \/ token'[t] = token[t]
          BY <1>7 DEF AdminDeleteUser
    <3> HIDE DEF k
    <3> QED BY <3>1, <3>2
  <2>2. token' = [t \in Tokens |-> token'[t]]
        BY <1>7 DEF AdminDeleteUser
  <2> QED BY <1>1, <2>1, <2>2
<1>8. CASE \E c \in Calls : Step(c) \/ Crash(c)
      BY <1>2, <1>5, <1>6, <1>8 DEF Step, CreateUser, CreateProfile, StartSession, SetVerified,
         SetPassword, RevokeAll, MirrorUser, SetExternalAuthId, Crash
<1>9. CASE \E c \in Calls, f \in Emails :
              \/ VerifyPassword(c, f) \/ ServiceLogin(c, f)
              \/ \E young \in Ages : Register(c, f, young) \/ \E x \in Ids : SignUp(c, f, x, young)
      BY <1>2, <1>9 DEF Register, VerifyPassword, ServiceLogin, SignUp
<1>10. CASE \/ \E c \in Calls, t \in Tokens : FindToken(c, t)
            \/ \E l \in Logins : RevokeSession(l)
            \/ MoveToService \/ UNCHANGED vars
      BY <1>2, <1>10 DEF FindToken, RevokeSession, MoveToService, vars
<1>11. CASE \E t \in Tokens : Expire(t)
      BY <1>4, <1>11 DEF Expire, Gone
<1>12. CASE \E f \in Emails :
              \/ \E kind \in {"verify_email", "password_reset"} : RequestToken(f, kind)
              \/ \E status \in {"granted", "denied"} : SetGuardianConsent(f, status)
              \/ Confirm(f) \/ ServiceReset(f) \/ Forget(f) \/ AdminDeleteUser(f)
      BY <1>2, <1>3, <1>7, <1>12 DEF RequestToken, SetGuardianConsent, Confirm, ServiceReset, Forget
<1> QED BY <1>8, <1>9, <1>10, <1>11, <1>12 DEF Next

LEMMA TokensNext == IInv /\ [Next]_vars => TokensOK'
<1> SUFFICES ASSUME IInv, [Next]_vars, NEW t \in Tokens, token'[t].status \notin Gone
             PROVE  token'[t].email \in Emails /\ user'[token'[t].email].exists
    BY DEF TokensOK
<1> DEFINE e == token'[t].email
<1>1. e \in Emails /\ user[e].exists
      BY TokenEffect DEF IInv, TokensOK
<1>2. ~AdminDeleteUser(e)
  <2> SUFFICES ASSUME AdminDeleteUser(e) PROVE FALSE
      OBVIOUS
  <2>1. token[t] \in TokenT
        BY DEF IInv, Shape
  <2>2. token[t].email = e
        BY <2>1 DEF AdminDeleteUser, TokenT
  <2>3. token'[t] = [token[t] EXCEPT !.status = "deleted"]
        BY <2>2 DEF AdminDeleteUser
  <2> QED BY <2>1, <2>3 DEF TokenT, Gone
<1> QED BY <1>1, <1>2, AccountStays

LEMMA LoginEffect ==
    ASSUME IInv, [Next]_vars
    PROVE  /\ login' \in [Logins -> LoginT]
           /\ \A l \in Logins : login'[l].status \notin Gone =>
                 \/ /\ login[l].status \notin Gone /\ login'[l].email = login[l].email
                    /\ login'[l].password = login[l].password /\ login'[l].late = login[l].late
                    /\ login'[l].via = login[l].via /\ (SignedIn(l)' => SignedIn(l))
                 \/ /\ UNCHANGED user /\ login'[l].email \in Emails
                    /\ user[login'[l].email].exists
                    /\ login'[l].via = "local" /\ login'[l].password # user[login'[l].email].password
                          => login'[l].late
<1> DEFINE Kept(l) == /\ login[l].status \notin Gone /\ login'[l].email = login[l].email
                      /\ login'[l].password = login[l].password /\ login'[l].late = login[l].late
                      /\ login'[l].via = login[l].via /\ (SignedIn(l)' => SignedIn(l))
<1> DEFINE New(l) == /\ UNCHANGED user /\ login'[l].email \in Emails
                     /\ user[login'[l].email].exists
                     /\ login'[l].via = "local" /\ login'[l].password # user[login'[l].email].password
                           => login'[l].late
<1> DEFINE Goal == /\ login' \in [Logins -> LoginT]
                   /\ \A l \in Logins : login'[l].status \notin Gone => Kept(l) \/ New(l)
<1>1. login \in [Logins -> LoginT]
      BY DEF IInv, Shape
<1>2. CASE UNCHANGED login
      BY <1>1, <1>2 DEF SignedIn
<1>3. ASSUME login' = [l \in Logins |-> login'[l]],
             \A l \in Logins : login'[l] = login[l]
                               \/ (SignedIn(l) /\ login'[l] = [login[l] EXCEPT !.status = "revoked"])
                               \/ login'[l] = [login[l] EXCEPT !.status = "deleted"]
      PROVE  Goal
  <2>1. ASSUME NEW l \in Logins
        PROVE  login'[l] \in LoginT /\ (login'[l].status \notin Gone => Kept(l))
    <3>1. login[l] \in LoginT
          BY <1>1
    <3>2. CASE login'[l] = login[l]
          BY <3>1, <3>2 DEF SignedIn
    <3>3. CASE SignedIn(l) /\ login'[l] = [login[l] EXCEPT !.status = "revoked"]
          BY <3>1, <3>3 DEF SignedIn, LoginT, Gone
    <3>4. CASE login'[l] = [login[l] EXCEPT !.status = "deleted"]
          BY <3>1, <3>4 DEF LoginT, Gone
    <3> QED BY <1>3, <3>2, <3>3, <3>4
  <2> QED BY <1>3, <2>1
<1>4. ASSUME NEW c \in Calls, StartSession(c) PROVE Goal
  <2> DEFINE e == call[c].email
  <2> DEFINE via == IF call[c].id = NoId THEN "local" ELSE "supabase"
  <2> DEFINE late == call[c].password # IF via = "local" THEN user[e].password ELSE secret[e]
  <2> DEFINE k == [status |-> "live", via |-> via, email |-> e, password |-> call[c].password, late |-> late]
  <2>1. e \in Emails /\ user[e].exists /\ call[c].password \in -1..MaxResets /\ UNCHANGED user
        BY <1>4 DEF StartSession, IInv, CallsOK, GoodCall, CallT
  <2>2. late \in BOOLEAN /\ via \in {"local", "supabase"}
        /\ (via = "local" /\ call[c].password # user[e].password => late)
        OBVIOUS
  <2>3. PICK l \in Logins : login' = [login EXCEPT ![l] = k]
        BY <1>4 DEF StartSession
  <2> HIDE DEF late, via
  <2>4. k \in LoginT /\ k.via = via /\ k.email = e /\ k.password = call[c].password /\ k.late = late
        BY <2>1, <2>2 DEF LoginT
  <2> HIDE DEF k
  <2>5. \A m \in Logins : login'[m] = IF m = l THEN k ELSE login[m]
        BY <1>1, <2>3
  <2>6. \A m \in Logins : m # l /\ login'[m].status \notin Gone => Kept(m)
        BY <2>5 DEF SignedIn
  <2>7. New(l)
        BY <2>1, <2>2, <2>4, <2>5
  <2>8. login' \in [Logins -> LoginT]
        BY <1>1, <2>3, <2>4
  <2> QED BY <2>6, <2>7, <2>8
<1>5. ASSUME NEW c \in Calls, RevokeAll(c) PROVE Goal
      BY <1>3, <1>5, Zenon DEF RevokeAll
<1>6. ASSUME NEW l \in Logins, RevokeSession(l) PROVE Goal
      BY <1>1, <1>3, <1>6 DEF RevokeSession
<1>7. ASSUME NEW e \in Emails, AdminDeleteUser(e) PROVE Goal
      BY <1>3, <1>7, Zenon DEF AdminDeleteUser
<1>8. CASE \E c \in Calls : Step(c) \/ Crash(c)
      BY <1>2, <1>4, <1>5, <1>8 DEF Step, CreateUser, CreateProfile, IssueVerification, UseToken,
         SetVerified, SetPassword, MirrorUser, SetExternalAuthId, Crash
<1>9. CASE \E c \in Calls, f \in Emails :
              \/ VerifyPassword(c, f) \/ ServiceLogin(c, f)
              \/ \E young \in Ages : Register(c, f, young) \/ \E x \in Ids : SignUp(c, f, x, young)
      BY <1>2, <1>9 DEF Register, VerifyPassword, ServiceLogin, SignUp
<1>10. CASE \/ \E c \in Calls, t \in Tokens : FindToken(c, t)
            \/ \E t \in Tokens : Expire(t)
            \/ MoveToService \/ UNCHANGED vars
      BY <1>2, <1>10 DEF FindToken, Expire, MoveToService, vars
<1>11. CASE \E l \in Logins : RevokeSession(l)
      BY <1>6, <1>11
<1>12. CASE \E f \in Emails :
              \/ \E kind \in {"verify_email", "password_reset"} : RequestToken(f, kind)
              \/ \E status \in {"granted", "denied"} : SetGuardianConsent(f, status)
              \/ Confirm(f) \/ ServiceReset(f) \/ Forget(f) \/ AdminDeleteUser(f)
      BY <1>2, <1>7, <1>12 DEF RequestToken, SetGuardianConsent, Confirm, ServiceReset, Forget
<1> QED BY <1>8, <1>9, <1>10, <1>11, <1>12 DEF Next

LEMMA LoginsNext == IInv /\ [Next]_vars => LoginsOK'
<1> SUFFICES ASSUME IInv, [Next]_vars, NEW l \in Logins, login'[l].status \notin Gone
             PROVE  login'[l].email \in Emails /\ user'[login'[l].email].exists
    BY DEF LoginsOK
<1> DEFINE e == login'[l].email
<1>1. e \in Emails /\ user[e].exists
      BY LoginEffect DEF IInv, LoginsOK
<1>2. ~AdminDeleteUser(e)
  <2> SUFFICES ASSUME AdminDeleteUser(e) PROVE FALSE
      OBVIOUS
  <2>1. login[l] \in LoginT
        BY DEF IInv, Shape
  <2>2. login[l].email = e
        BY <2>1 DEF AdminDeleteUser, LoginT
  <2>3. login'[l] = [login[l] EXCEPT !.status = "deleted"]
        BY <2>2 DEF AdminDeleteUser
  <2> QED BY <2>1, <2>3 DEF LoginT, Gone
<1> QED BY <1>1, <1>2, AccountStays

-----------------------------------------------------------------------------
(* Profiles, and the sessions of an old password *)

\* A call at a place is there until it takes the step of that place or is cut short.
LEMMA CallWaits ==
    ASSUME IInv, [Next]_vars, NEW c \in Calls, call[c].at \in {"create_profile", "revoke_all"}
    PROVE  call'[c] = call[c] \/ CreateProfile(c) \/ RevokeAll(c) \/ Crash(c)
<1>1. ASSUME NEW d \in Calls, NEW y, d # c, call' = [call EXCEPT ![d] = y] PROVE call'[c] = call[c]
      BY <1>1 DEF IInv, Shape
<1>2. call[c] # Idle
      BY DEF Idle
<1>3. ASSUME NEW d \in Calls, Step(d) \/ Crash(d), d # c PROVE call'[c] = call[c]
  <2>1. \/ (\E at : Goto(d, at)) \/ Return(d) \/ \E e : LoggedIn(d, e)
        BY <1>3 DEF Step, CreateUser, CreateProfile, IssueVerification, StartSession, UseToken,
           SetVerified, SetPassword, RevokeAll, MirrorUser, SetExternalAuthId, Crash
  <2> QED BY <1>1, <1>3, <2>1 DEF Goto, Return, LoggedIn
<1>4. ASSUME Step(c) PROVE CreateProfile(c) \/ RevokeAll(c)
      BY <1>4 DEF Step, CreateUser, IssueVerification, StartSession, UseToken,
           SetVerified, SetPassword, MirrorUser, SetExternalAuthId
<1>5. ASSUME NEW d \in Calls, NEW e \in Emails,
             \/ VerifyPassword(d, e) \/ ServiceLogin(d, e)
             \/ \E young \in Ages : Register(d, e, young) \/ \E x \in Ids : SignUp(d, e, x, young)
      PROVE  call'[c] = call[c]
  <2>1. UNCHANGED call \/ (call[d] = Idle /\ \E y : call' = [call EXCEPT ![d] = y])
        BY <1>5 DEF Register, VerifyPassword, ServiceLogin, SignUp, Answered, Begin
  <2> QED BY <1>1, <1>2, <2>1
<1>6. ASSUME NEW d \in Calls, NEW t \in Tokens, FindToken(d, t) PROVE call'[c] = call[c]
      BY <1>1, <1>2, <1>6 DEF FindToken, Begin
<1>7. CASE UNCHANGED call
      BY <1>7
<1> QED BY <1>3, <1>4, <1>5, <1>6, <1>7 DEF Next, Expire, RevokeSession, RequestToken,
        SetGuardianConsent, Confirm, ServiceReset, Forget, AdminDeleteUser, MoveToService, vars

\* Profiles stay, and crashes are remembered, until the account goes.
LEMMA ProfileStays ==
    ASSUME IInv, [Next]_vars, NEW e \in Emails, ~AdminDeleteUser(e)
    PROVE  /\ e \in profiled => e \in profiled'
           /\ \A at : <<e, at>> \in cut => <<e, at>> \in cut'
<1>1. CASE profiled \subseteq profiled' /\ cut \subseteq cut'
      BY <1>1
<1>2. ASSUME NEW f \in Emails, AdminDeleteUser(f)
      PROVE  /\ e \in profiled => e \in profiled'
             /\ \A at : <<e, at>> \in cut => <<e, at>> \in cut'
  <2>1. f # e /\ profiled' = profiled \ {f} /\ cut' = {k \in cut : k[1] # f}
        BY <1>2 DEF AdminDeleteUser
  <2> QED BY <2>1
<1>3. CASE \E c \in Calls : Step(c) \/ Crash(c)
      BY <1>1, <1>3 DEF Step, CreateUser, CreateProfile, IssueVerification, StartSession, UseToken,
         SetVerified, SetPassword, RevokeAll, MirrorUser, SetExternalAuthId, Crash
<1>4. CASE \E c \in Calls, f \in Emails :
              \/ VerifyPassword(c, f) \/ ServiceLogin(c, f)
              \/ \E young \in Ages : Register(c, f, young) \/ \E x \in Ids : SignUp(c, f, x, young)
      BY <1>1, <1>4 DEF Register, VerifyPassword, ServiceLogin, SignUp, HandleNewAuthUser
<1>5. CASE \/ \E c \in Calls, t \in Tokens : FindToken(c, t)
           \/ \E t \in Tokens : Expire(t)
           \/ \E l \in Logins : RevokeSession(l)
           \/ MoveToService \/ UNCHANGED vars
      BY <1>1, <1>5 DEF FindToken, Expire, RevokeSession, MoveToService, vars
<1>6. CASE \E f \in Emails :
              \/ \E kind \in {"verify_email", "password_reset"} : RequestToken(f, kind)
              \/ \E status \in {"granted", "denied"} : SetGuardianConsent(f, status)
              \/ Confirm(f) \/ ServiceReset(f) \/ Forget(f) \/ AdminDeleteUser(f)
      BY <1>1, <1>2, <1>6 DEF RequestToken, SetGuardianConsent, Confirm, ServiceReset, Forget
<1> QED BY <1>3, <1>4, <1>5, <1>6 DEF Next

\* After a deletion there is no account.
LEMMA DeletedIsGone ==
    ASSUME IInv, NEW e \in Emails, AdminDeleteUser(e) PROVE ~user'[e].exists
<1>1. user' = [user EXCEPT ![e] = NoUser]
      BY DEF AdminDeleteUser
<1>2. user'[e] = NoUser
      BY <1>1, UserAt
<1> QED BY <1>2 DEF NoUser

LEMMA ProfileNext == IInv /\ [Next]_vars => EveryAccountHasProfile'
<1> SUFFICES ASSUME IInv, [Next]_vars, NEW e \in Emails, user'[e].exists
             PROVE  \/ e \in profiled'
                    \/ \E c \in Calls : call'[c].email = e /\ call'[c].at = "create_profile"
                    \/ <<e, "create_profile">> \in cut'
    BY DEF EveryAccountHasProfile
<1>1. ~AdminDeleteUser(e)
      BY DeletedIsGone
<1>2. CASE user[e].exists
  <2>1. CASE e \in profiled \/ <<e, "create_profile">> \in cut
        BY <1>1, <2>1, ProfileStays
  <2>2. ASSUME NEW c \in Calls, call[c].email = e, call[c].at = "create_profile"
        PROVE  \/ e \in profiled' \/ <<e, "create_profile">> \in cut'
               \/ call'[c].email = e /\ call'[c].at = "create_profile"
        BY <2>2, CallWaits DEF CreateProfile, RevokeAll, Crash
  <2> QED BY <1>2, <2>1, <2>2 DEF IInv, EveryAccountHasProfile
<1>3. CASE Made(e)
  <2>1. ASSUME NEW c \in Calls, NEW x \in Ids, NEW young \in BOOLEAN, SignUp(c, e, x, young) PROVE e \in profiled'
        BY <2>1 DEF SignUp, HandleNewAuthUser
  <2>2. ASSUME NEW c \in Calls, call[c].email = e, Goto(c, "create_profile")
        PROVE  call'[c].email = e /\ call'[c].at = "create_profile"
    <3>1. "create_profile" \in Places
          BY DEF Places
    <3>2. PICK y \in CallT : call' = [call EXCEPT ![c] = y] /\ y.at = "create_profile" /\ y.email = e
          BY <2>2, <3>1, GotoAt
    <3> QED BY <3>2, CallAt
  <2> QED BY <1>3, <2>1, <2>2 DEF Made
<1>4. Reset(e) => user[e].exists
      BY DEF Reset, SetPassword, IInv, CallsOK, GoodCall
<1> QED BY <1>1, <1>2, <1>3, <1>4, AccountEffect DEF Quiet

LEMMA ResetNext == IInv /\ [Next]_vars => ResetEndsLogins'
<1> SUFFICES ASSUME IInv, [Next]_vars, NEW l \in Logins, SignedIn(l)',
                    login'[l].via = "local",
                    login'[l].password # user'[login'[l].email].password
             PROVE  \/ login'[l].late
                    \/ \E c \in Calls : call'[c].at = "revoke_all" /\ call'[c].email = login'[l].email
                    \/ <<login'[l].email, "revoke_all">> \in cut'
    BY DEF ResetEndsLogins
<1> DEFINE e == login'[l].email
<1>1. login'[l].status \notin Gone
      BY DEF SignedIn, Gone
<1>2. e \in Emails /\ user'[e].exists
      BY <1>1, LoginsNext DEF LoginsOK
<1>3. ~AdminDeleteUser(e)
      BY <1>2, DeletedIsGone
<1>4. CASE UNCHANGED user /\ (login'[l].password # user[e].password => login'[l].late)
      BY <1>4
<1>5. CASE /\ login[l].status \notin Gone /\ e = login[l].email /\ login[l].via = "local"
           /\ login'[l].password = login[l].password /\ login'[l].late = login[l].late /\ SignedIn(l)
  <2>1. user[e].exists
        BY <1>5 DEF IInv, LoginsOK
  <2>2. CASE Reset(e)
    <3>1. PICK c \in Calls : SetPassword(c) /\ call[c].email = e
          BY <2>2 DEF Reset
    <3>2. "revoke_all" \in Places
          BY DEF Places
    <3>3. PICK y \in CallT : call' = [call EXCEPT ![c] = y] /\ y.at = "revoke_all" /\ y.email = e
          BY <3>1, <3>2, GotoAt DEF SetPassword
    <3> QED BY <3>3, CallAt
  <2>3. CASE Quiet(e)
    <3>1. \/ login[l].late
          \/ \E c \in Calls : call[c].at = "revoke_all" /\ call[c].email = e
          \/ <<e, "revoke_all">> \in cut
          BY <1>5, <2>3 DEF Quiet, IInv, ResetEndsLogins
    <3>2. ASSUME NEW c \in Calls, call[c].at = "revoke_all", call[c].email = e
          PROVE  (call'[c].at = "revoke_all" /\ call'[c].email = e) \/ <<e, "revoke_all">> \in cut'
      <4>1. ~RevokeAll(c)
            BY <1>5, <3>2 DEF RevokeAll, SignedIn, IInv, Shape, LoginT
      <4> QED BY <3>2, <4>1, CallWaits DEF CreateProfile, Crash
    <3> QED BY <1>2, <1>3, <1>5, <3>1, <3>2, ProfileStays
  <2> QED BY <1>2, <1>3, <2>1, <2>2, <2>3, AccountEffect
<1> QED BY <1>1, <1>4, <1>5, LoginEffect

-----------------------------------------------------------------------------
(* The theorems *)

LEMMA ShapeNext == IInv /\ [Next]_vars => Shape'
<1> SUFFICES ASSUME IInv, [Next]_vars PROVE Shape'
    OBVIOUS
<1>1. token' \in [Tokens -> TokenT] /\ login' \in [Logins -> LoginT]
      BY TokenEffect, LoginEffect
<1> DEFINE Rest == /\ provider' \in {"local", "supabase"}
                   /\ profiled' \subseteq Emails /\ confirmed' \subseteq Emails
                   /\ identity' \in [Emails -> Ids \cup {NoId}]
                   /\ minor' \subseteq Emails /\ secret' \in [Emails -> 0..MaxResets]
                   /\ user' = [e \in Emails |-> user'[e]] /\ call' = [c \in Calls |-> call'[c]]
<1> SUFFICES Rest
    BY <1>1 DEF Shape
<1>2. CASE \E c \in Calls : Step(c) \/ Crash(c)
  <2>1. PICK c \in Calls : Step(c) \/ Crash(c)
        BY <1>2
  <2>2. UNCHANGED user \/ \E e, u : user' = [user EXCEPT ![e] = u]
        BY <2>1 DEF Step, CreateUser, CreateProfile, IssueVerification, StartSession, UseToken,
         SetVerified, SetPassword, RevokeAll, MirrorUser, SetExternalAuthId, Crash
  <2>3. \E y : call' = [call EXCEPT ![c] = y]
    <3>1. (\E at : Goto(c, at)) \/ Return(c) \/ \E e : LoggedIn(c, e)
          BY <2>1 DEF Step, CreateUser, CreateProfile, IssueVerification, StartSession, UseToken,
             SetVerified, SetPassword, RevokeAll, MirrorUser, SetExternalAuthId, Crash
    <3> QED BY <3>1 DEF Goto, Return, LoggedIn
  <2>4. profiled' \subseteq Emails
    <3>1. ASSUME CreateProfile(c) PROVE call[c].email \in Emails
          BY <3>1 DEF CreateProfile, IInv, CallsOK, GoodCall
    <3> QED BY <2>1, <3>1 DEF Step, CreateUser, CreateProfile, IssueVerification, StartSession, UseToken,
         SetVerified, SetPassword, RevokeAll, MirrorUser, SetExternalAuthId, Crash, IInv, Shape
  <2>5. UNCHANGED <<provider, identity, confirmed, minor, secret>>
        BY <2>1 DEF Step, CreateUser, CreateProfile, IssueVerification, StartSession, UseToken,
         SetVerified, SetPassword, RevokeAll, MirrorUser, SetExternalAuthId, Crash, service
  <2> QED BY <2>2, <2>3, <2>4, <2>5 DEF IInv, Shape
<1>3. CASE \E c \in Calls, e \in Emails :
              \/ VerifyPassword(c, e) \/ ServiceLogin(c, e)
              \/ \E young \in Ages : Register(c, e, young) \/ \E x \in Ids : SignUp(c, e, x, young)
  <2>1. PICK c \in Calls, e \in Emails :
              \/ VerifyPassword(c, e) \/ ServiceLogin(c, e)
              \/ \E young \in Ages : Register(c, e, young) \/ \E x \in Ids : SignUp(c, e, x, young)
        BY <1>3
  <2>2. UNCHANGED call \/ \E y : call' = [call EXCEPT ![c] = y]
        BY <2>1 DEF Register, VerifyPassword, ServiceLogin, SignUp, Answered, Begin
  <2>3. call' = [d \in Calls |-> call'[d]]
        BY <2>2 DEF IInv, Shape
  <2>4. CASE \E young \in Ages, x \in Ids : SignUp(c, e, x, young)
    <3>1. PICK young \in Ages, x \in Ids : SignUp(c, e, x, young)
          BY <2>4
    <3>2. UNCHANGED <<provider, confirmed, secret>> /\ profiled' = profiled \cup {e}
          /\ identity' = [identity EXCEPT ![e] = x] /\ minor' \subseteq minor \cup {e}
          BY <3>1 DEF SignUp, HandleNewAuthUser
    <3>3. \E u : user' = [user EXCEPT ![e] = u]
          BY <3>1 DEF SignUp, HandleNewAuthUser
    <3> QED BY <2>3, <3>2, <3>3 DEF IInv, Shape
  <2>5. CASE UNCHANGED <<provider, user, profiled, service>>
        BY <2>3, <2>5 DEF service, IInv, Shape
  <2> QED BY <2>1, <2>4, <2>5 DEF Register, VerifyPassword, ServiceLogin, service
<1>4. CASE \/ \E c \in Calls, t \in Tokens : FindToken(c, t)
           \/ \E t \in Tokens : Expire(t)
           \/ \E l \in Logins : RevokeSession(l)
           \/ MoveToService \/ UNCHANGED vars
      BY <1>4 DEF FindToken, Begin, Expire, RevokeSession, MoveToService, vars, service, IInv, Shape
<1>5. CASE \E e \in Emails :
              \/ \E kind \in {"verify_email", "password_reset"} : RequestToken(e, kind)
              \/ \E status \in {"granted", "denied"} : SetGuardianConsent(e, status)
              \/ Confirm(e) \/ ServiceReset(e) \/ Forget(e) \/ AdminDeleteUser(e)
      BY <1>5, AccountsConstantsOK DEF RequestToken, SetGuardianConsent, Confirm, ServiceReset, Forget,
         AdminDeleteUser, DeleteIdentity, service, IInv, Shape
<1> QED BY <1>2, <1>3, <1>4, <1>5 DEF Next

LEMMA Inductive == Spec => []IInv
<1>1. IInv /\ [Next]_vars => IInv'
      BY ShapeNext, UsersNext, CallsNext, TokensNext, LoginsNext, ProfileNext, ResetNext DEF IInv
<1> QED BY <1>1, InitIInv, PTL DEF Spec

\* Types; an identity belongs to one address and links one account, through races
\* of the trigger, of logins that mirror it and of administrators; tokens and
\* sessions belong to accounts there are.
THEOREM AccountTypes == Spec => []TypeOK
<1>1. IInv => TypeOK
  <2> SUFFICES ASSUME IInv PROVE TypeOK
      OBVIOUS
  <2>1. user \in [Emails -> Users]
        BY DEF IInv, Shape, UsersOK, GoodUser
  <2>2. \A t \in Tokens : token[t].status \notin {"none", "deleted"} => user[token[t].email].exists
        BY DEF IInv, TokensOK, Gone
  <2>3. \A l \in Logins : login[l].status \notin {"none", "deleted"} => user[login[l].email].exists
        BY DEF IInv, LoginsOK, Gone
  <2> QED BY <2>1, <2>2, <2>3 DEF TypeOK, IInv, Shape, UsersOK, Distinct
<1> QED BY <1>1, Inductive, PTL

\* register_user_with_profile and the trigger leave no account without a driver
\* profile, but where a crash fell between the two rows.
THEOREM NobodyWithoutProfile == Spec => []EveryAccountHasProfile
<1>1. IInv => EveryAccountHasProfile
      BY DEF IInv
<1> QED BY <1>1, Inductive, PTL

\* A reset of the local provider (reset_password, auth.py) ends every session of
\* the old password, with any number of resets, logins and crashes under way.
\* One at the service ends none: ServiceResetEndsLogins.
THEOREM ResetsEndLogins == Spec => []ResetEndsLogins
<1>1. IInv => ResetEndsLogins
      BY DEF IInv
<1> QED BY <1>1, Inductive, PTL

\* An account never passes from one identity to another: a call that is about to
\* link one holds the identity of that very address (GoodCall at "link").
THEOREM LinksStand == Spec => LinkStands
<1>1. IInv /\ [Next]_vars =>
          [\A e \in Emails : (user[e].external # NoId /\ user'[e].exists) =>
              user'[e].external = user[e].external]_vars
  <2> SUFFICES ASSUME IInv, Next, NEW e \in Emails, user[e].external # NoId, user'[e].exists
               PROVE  user'[e].external = user[e].external
      OBVIOUS
  <2>1. user[e].exists /\ user[e] \in Users
        BY DEF IInv, UsersOK, GoodUser
  <2>2. CASE UNCHANGED user
        BY <2>2
  <2>3. ASSUME NEW c \in Calls, CreateUser(c) PROVE user'[e].external = user[e].external
    <3>1. call[c].email # e \/ UNCHANGED user
          BY <2>1, <2>3 DEF CreateUser
    <3> QED BY <2>3, <3>1 DEF CreateUser, IInv, Shape
  <2>4. ASSUME NEW c \in Calls, SetExternalAuthId(c) PROVE user'[e].external = user[e].external
    <3>1. call[c].email = e => user[e].external = call[c].id
          BY <2>4 DEF SetExternalAuthId, IInv, CallsOK, GoodCall
    <3> QED BY <2>1, <2>4, <3>1 DEF SetExternalAuthId, Users, IInv, Shape
  <2>5. ASSUME NEW c \in Calls, NEW f \in Emails, NEW x \in Ids, NEW young \in BOOLEAN, SignUp(c, f, x, young)
        PROVE  user'[e].external = user[e].external
    <3>1. f # e
          BY <2>5 DEF SignUp, HandleNewAuthUser
    <3> QED BY <2>5, <3>1 DEF SignUp, HandleNewAuthUser, IInv, Shape
  <2>6. ASSUME \/ \E c \in Calls : SetVerified(c) \/ SetPassword(c)
               \/ \E f \in Emails, status \in {"granted", "denied"} : SetGuardianConsent(f, status)
               \/ \E f \in Emails : Confirm(f)
        PROVE  user'[e].external = user[e].external
        BY <2>6, AccountsChange DEF Same
  <2>7. ASSUME NEW f \in Emails, AdminDeleteUser(f) PROVE user'[e].external = user[e].external
    <3>1. f # e
          BY <2>7, DeletedIsGone
    <3> QED BY <2>7, <3>1 DEF AdminDeleteUser, IInv, Shape
  <2>8. CASE \E c \in Calls : Step(c) \/ Crash(c)
        BY <2>2, <2>3, <2>4, <2>6, <2>8 DEF Step, CreateProfile, IssueVerification, StartSession,
           UseToken, RevokeAll, MirrorUser, Crash
  <2>9. CASE \E c \in Calls, f \in Emails :
              \/ VerifyPassword(c, f) \/ ServiceLogin(c, f)
              \/ \E young \in Ages : Register(c, f, young) \/ \E x \in Ids : SignUp(c, f, x, young)
        BY <2>2, <2>5, <2>9, AccountsConstantsOK DEF Register, VerifyPassword, ServiceLogin,
           AccountsConstantsOK
  <2>10. CASE \/ \E c \in Calls, t \in Tokens : FindToken(c, t)
              \/ \E t \in Tokens : Expire(t)
              \/ \E l \in Logins : RevokeSession(l)
              \/ MoveToService
        BY <2>2, <2>10 DEF FindToken, Expire, RevokeSession, MoveToService
  <2>11. CASE \E f \in Emails :
              \/ \E kind \in {"verify_email", "password_reset"} : RequestToken(f, kind)
              \/ \E status \in {"granted", "denied"} : SetGuardianConsent(f, status)
              \/ Confirm(f) \/ ServiceReset(f) \/ Forget(f) \/ AdminDeleteUser(f)
        BY <2>2, <2>6, <2>7, <2>11 DEF RequestToken, ServiceReset, Forget
  <2> QED BY <2>8, <2>9, <2>10, <2>11 DEF Next
<1> QED BY <1>1, Inductive, PTL DEF Spec, LinkStands
=============================================================================
