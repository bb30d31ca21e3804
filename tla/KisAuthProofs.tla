---------------------------- MODULE KisAuthProofs ----------------------------
(***************************************************************************)
(* Theorems about the whole service, for any number of requests, clients,  *)
(* tenants, link tickets and identities.                                   *)
(***************************************************************************)
EXTENDS KisAuth, TLAPS

----------------------------------------------------------------------------
(* The inductive invariant                                                 *)

\* What /authorize checked before it had an effect.
AskGood(a) ==
    authorizes[a] # Idle =>
        LET ask == authorizes[a].ask
        IN  /\ <<ask.client, ask.uri>> \in AllowedUri
            /\ <<ask.client, ask.purpose>> \in AllowedPurpose
            /\ ask.purpose = "link" => ask.ticket \in Ticket

\* `session` is a copy of the session that request a created, whatever start
\* has put its verifier into it since.
FromAsk(a, session) ==
    LET ask == authorizes[a].ask
    IN  /\ authorizes[a].pc = "created"
        /\ session.client = ask.client
        /\ session.uri = ask.uri
        /\ session.purpose = ask.purpose
        /\ session.partner = ask.partner
        /\ session.purpose = "link" => session.linkUser = TicketUser[ask.ticket]

SessionGood(a) == sessions[a] # NoSession => FromAsk(a, sessions[a])

StartGood(s) == starts[s] # Idle => FromAsk(starts[s].sid, starts[s].session)

\* The challenge an IdP was given is that of a start whose browser was sent there.
AuthnGood(n) ==
    authns[n] \in Authentication => starts[authns[n].challenge].pc = "sent"

\* The IdP answered the request of callback c's own session, to this path and,
\* if it enforces PKCE, for the session's verifier.
Proven(c) ==
    LET authn == authns[callbacks[c].authn]
    IN  /\ authn \in Authentication
        /\ authn.redeemed
        /\ authn.idp = callbacks[c].idp
        /\ authn.nonce = callbacks[c].sid
        /\ authn.idp \in PkceIdps => callbacks[c].session.verifier = authn.challenge

\* Callback c has had its authentication verified, and has not failed.
Past(c) == callbacks[c].pc \in {"find", "link", "register", "ticket", "report",
                                "unknown", "spend", "delete", "code", "done",
                                "refused"}

\* How far a callback is agrees with its session's purpose, the row it found and
\* what it reported.
PurposeGood(c) ==
    LET callback == callbacks[c]
        purpose == callback.session.purpose
    IN  /\ callback.pc = "find" => purpose # "link"
        /\ callback.pc = "link" => purpose = "link" /\ links[c] \in L!Call
        /\ callback.pc \in {"register", "ticket", "report"} => purpose = "registration"
        /\ callback.pc \in {"unknown", "spend", "delete"} =>
               purpose \notin {"link", "registration"}
        /\ callback.pc = "code" =>
               /\ purpose # "registration"
               /\ purpose = "link" => callback.user = callback.session.linkUser

FoundGood(c) ==
    callbacks[c].pc \in {"spend", "delete", "code"}
    \/ callbacks[c].event \in {"oauth.callback_succeeded", "link.succeeded"} =>
        /\ callbacks[c].user \in User
        /\ L!Bound(identities, VerifiedKey(c), callbacks[c].user)

EventGood(c) ==
    LET callback == callbacks[c]
    IN  /\ callback.pc \in {"verify", "find", "link", "register", "ticket", "report",
                            "unknown", "spend"} => callback.event = "none"
        /\ callback.event \in Success => Proven(c)
        /\ callback.event = "link.succeeded" =>
               /\ callback.session.purpose = "link"
               /\ callback.user = callback.session.linkUser
        /\ callback.pc = "delete" => callback.event = "oauth.callback_succeeded"
        /\ callback.pc = "code" =>
               callback.event \in {"oauth.callback_succeeded", "link.succeeded"}

CallbackGood(c) ==
    callbacks[c] \in Returned =>
        /\ FromAsk(callbacks[c].sid, callbacks[c].session)
        /\ callbacks[c].session.verifier # NoVerifier
        /\ OnPath(callbacks[c].session, callbacks[c].idp)
        /\ authns[callbacks[c].authn] \in Authentication
        /\ Past(c) => Proven(c)
        /\ PurposeGood(c)
        /\ FoundGood(c)
        /\ EventGood(c)

\* A link() call of callback c is for what its IdP proved.
LinkGood(c) ==
    links[c] \in L!Call =>
        /\ callbacks[c] \in Returned
        /\ Proven(c)
        /\ callbacks[c].session.purpose = "link"
        /\ links[c].key = VerifiedKey(c)
        /\ links[c].user = callbacks[c].session.linkUser

\* `payload` is what callback c has put into Redis: a code that it had reported, or
\* a ticket that it has reported if it is done, and before that has not.
PayloadOf(payload, c) ==
    LET callback == callbacks[c]
    IN  /\ callback \in Returned
        /\ Proven(c)
        /\ \/ /\ payload = AuthorizationCode(c)
              /\ callback.pc \in {"done", "failed"}
              /\ callback.event \in {"oauth.callback_succeeded", "link.succeeded"}
              /\ callback.session.purpose # "registration"
              /\ callback.session.purpose = "link" =>
                     callback.user = callback.session.linkUser
           \/ /\ payload = RegistrationTicket(c)
              /\ callback.session.purpose = "registration"
              /\ \/ /\ callback.pc = "done"
                    /\ callback.event = "registration.ticket_issued"
                 \/ callback.pc \in {"report", "failed"} /\ callback.event = "none"

GrantGood(c) ==
    /\ grants[c] # Unissued =>
           /\ callbacks[c] \in Returned
           /\ callbacks[c].pc \in {"report", "done", "failed"}
    /\ grants[c] \in R!Payload => PayloadOf(grants[c], c)

\* What an exchange took out of Redis was put there by the callback it names, and
\* that callback is done.
ExchangeGood(e) ==
    exchanges[e] # R!Idle =>
        /\ PayloadOf(exchanges[e].payload, exchanges[e].grant)
        /\ callbacks[exchanges[e].grant].pc = "done"

TokenGood(t) ==
    /\ exchanges[t.jti] \in R!Taken
    /\ exchanges[t.jti].pc = "minted"
    /\ t = R!TokenFor(t.jti, exchanges[t.jti].payload)

\* A link() call past its SELECT or over, as in IdentityLinkProofs.
RowGood(l) ==
    links[l].pc \in {"update", "ok"} =>
        L!Bound(identities, links[l].key, links[l].user)

Good ==
    /\ \A a \in Authorize : AskGood(a) /\ SessionGood(a)
    /\ \A s \in Start : StartGood(s)
    /\ \A n \in Authn : AuthnGood(n)
    /\ \A c \in Callback : CallbackGood(c) /\ LinkGood(c) /\ GrantGood(c)
    /\ \A e \in Exchange : ExchangeGood(e)
    /\ \A t \in tokens : TokenGood(t)
    /\ \A l \in Linker : RowGood(l)

IInv == TypeOK /\ Good

----------------------------------------------------------------------------
(* Types                                                                   *)

\* What the type invariant says of one callback, once it has got anywhere.
LEMMA CallbackTypes ==
    ASSUME TypeOK, NEW c \in Callback, callbacks[c].pc \notin {"idle", "cancelled"}
    PROVE  /\ callbacks[c] \in Returned
           /\ callbacks[c].sid \in Authorize
           /\ callbacks[c].idp \in Idp
           /\ callbacks[c].authn \in Authn
           /\ callbacks[c].session \in Session
           /\ callbacks[c].user \in User \cup {NoUser}
           /\ callbacks[c].event \in EventType
<1>1. callbacks[c] \in Returned
  BY DEF TypeOK, FlowTypeOK, Idle, Cancelled
<1> QED
  BY <1>1 DEF Returned

\* An authentication that was verified proves an identity of its IdP.
LEMMA KeyIsKey ==
    ASSUME NEW authn \in Authentication
    PROVE  /\ KeyOf(authn) \in Key
           /\ KeyOf(authn)[1] = "oidc" => KeyOf(authn)[2][1] = authn.idp
  BY DEF KeyOf, Key, Authentication, Idp

\* What one statement of link() does to its call and to the table.
LEMMA StatementEffect ==
    ASSUME L!TypeOK, NEW l \in Linker, L!Step(l)
    PROVE  /\ links[l] \in L!Call
           /\ links'[l] \in L!Call
           /\ links'[l].key = links[l].key
           /\ links'[l].user = links[l].user
           /\ \A m \in Linker \ {l} : links'[m] = links[m]
           /\ L!TypeOK'
           /\ \A j \in Key : identities[j] # NoRow => identities'[j] = identities[j]
<1> USE DEF L!TypeOK
<1>1. links[l] \in L!Call
  BY DEF L!Step, L!Select, L!Update, L!Insert, L!Fail, L!LoseReply, L!Idle
<1>2. links[l].key \in Key /\ links[l].user \in User
  BY <1>1 DEF L!Call
<1>3. CASE L!Select(l)
  <2>1. L!AfterSelect(identities, links[l].key, links[l].user)
            \in {"insert", "update", "conflict"}
    BY DEF L!AfterSelect
  <2> QED
    BY <1>1, <1>3, <2>1 DEF L!Select, L!Call
<1>4. CASE L!Update(l)
  BY <1>1, <1>4 DEF L!Update, L!Call
<1>5. ASSUME ~ L!UniqueViolation(identities, links[l].key, links[l].user)
      PROVE  LET table == L!InsertRow(identities, links[l].key, links[l].user)
             IN  /\ table \in L!Table
                 /\ \A j \in Key : identities[j] # NoRow => table[j] = identities[j]
  <2>1. [user |-> links[l].user, status |-> "active"] \in L!Row
    BY <1>2 DEF L!Row
  <2> QED
    BY <1>2, <1>5, <2>1 DEF L!InsertRow, L!UniqueViolation, L!Table
<1>6. CASE L!Insert(l)
  BY <1>1, <1>5, <1>6 DEF L!Insert, L!Call
<1>7. CASE L!Fail(l)
  BY <1>1, <1>7 DEF L!Fail, L!Call
<1>8. CASE L!LoseReply(l)
  BY <1>1, <1>5, <1>8 DEF L!LoseReply, L!Call
<1> QED
  BY <1>3, <1>4, <1>6, <1>7, <1>8 DEF L!Step

\* What an operator's revocation does to the table.
LEMMA RevocationEffect ==
    ASSUME L!TypeOK, NEW k \in Key, L!Revoke(k)
    PROVE  /\ L!TypeOK'
           /\ \A j \in Key : identities[j] # NoRow =>
                  identities'[j] # NoRow /\ identities'[j].user = identities[j].user
<1>1. identities[k] \in L!Row
  BY DEF L!TypeOK, L!Table, L!Revoke
<1>2. [identities[k] EXCEPT !.status = "revoked"] \in L!Row
  BY <1>1 DEF L!Row
<1>3. identities' = [identities EXCEPT ![k] = [identities[k] EXCEPT !.status = "revoked"]]
  BY DEF L!Revoke
<1> QED
  BY <1>1, <1>2, <1>3, FlowAssumption DEF L!Revoke, L!TypeOK, L!Table, L!Row

\* Redemption and IdentityLink keep the same table.
LEMMA SameTable == R!Table = L!Table
  BY DEF R!Table, L!Table, R!Row, L!Row

\* What a callback has verified is an identity.
LEMMA VerifiedIsKey ==
    ASSUME NEW c \in Callback, Proven(c)
    PROVE  VerifiedKey(c) \in Key
  BY KeyIsKey DEF Proven, VerifiedKey

\* The query behind a session is one, and a "link" session has a user.
LEMMA AskTypes ==
    ASSUME TypeOK, NEW a \in Authorize, authorizes[a].pc \in {"approved", "created"},
           AskGood(a)
    PROVE  /\ authorizes[a].ask \in Asks
           /\ authorizes[a].ask \in Ask
           /\ authorizes[a].ask.purpose = "link" => authorizes[a].ask.ticket \in Ticket
           /\ SessionFor(authorizes[a].ask) \in Session
<1>1. authorizes[a] \in [pc : {"approved", "created", "aborted"}, ask : Asks]
  BY DEF TypeOK, FlowTypeOK, Idle
<1>2. authorizes[a].ask \in Ask
  BY <1>1, AsksAreQueries
<1>3. authorizes[a].ask.purpose = "link" => authorizes[a].ask.ticket \in Ticket
  BY <1>1 DEF AskGood, Idle
<1>4. authorizes[a].ask.purpose = "link" => TicketUser[authorizes[a].ask.ticket] \in User
  BY <1>3, AsksAreQueries
<1> QED
  BY <1>1, <1>2, <1>3, <1>4 DEF SessionFor, Session, Ask

LEMMA AuthorizeTypes ==
    ASSUME TypeOK, Good, AuthorizeStep
    PROVE  FlowTypeOK'
<1> USE DEF TypeOK, FlowTypeOK
<1>1. ASSUME NEW a \in Authorize, NEW ask \in Asks, Approve(a, ask)
      PROVE  FlowTypeOK'
  BY <1>1 DEF Approve, Claims
<1>2. ASSUME NEW a \in Authorize, CreateSession(a)
      PROVE  FlowTypeOK'
  <2>1. SessionFor(authorizes[a].ask) \in Session
    BY <1>2, AskTypes DEF Good, CreateSession
  <2>2. authorizes[a] \in [pc : {"approved", "created", "aborted"}, ask : Asks]
    BY <1>2 DEF CreateSession, Idle
  <2> QED
    BY <1>2, <2>1, <2>2 DEF CreateSession
<1>3. ASSUME NEW a \in Authorize, AbortAuthorize(a)
      PROVE  FlowTypeOK'
  <2>1. authorizes[a] \in [pc : {"approved", "created", "aborted"}, ask : Asks]
    BY <1>3 DEF AbortAuthorize, Idle
  <2> QED
    BY <1>3, <2>1 DEF AbortAuthorize
<1>4. ASSUME NEW a \in Authorize, ExpireSession(a)
      PROVE  FlowTypeOK'
  BY <1>4 DEF ExpireSession, Deleted
<1> QED
  BY <1>1, <1>2, <1>3, <1>4 DEF AuthorizeStep

LEMMA StartTypes ==
    ASSUME TypeOK, StartStep
    PROVE  FlowTypeOK'
<1> USE DEF TypeOK, FlowTypeOK
<1>1. ASSUME NEW s \in Start, NEW a \in Authorize, NEW idp \in Idp, StartGet(s, a, idp)
      PROVE  FlowTypeOK'
  <2>1. [pc |-> "update", sid |-> a, idp |-> idp, session |-> sessions[a]] \in Started
    BY <1>1 DEF StartGet, Started
  <2> QED
    BY <1>1, <2>1 DEF StartGet
<1>2. ASSUME NEW s \in Start, starts[s].pc = "update"
      PROVE  /\ starts[s] \in Started
             /\ starts[s].sid \in Authorize
             /\ WithVerifier(s) \in Session
             /\ \A pc \in {"sent", "failed"} : [starts[s] EXCEPT !.pc = pc] \in Started
  <2>1. starts[s] \in Started
    BY <1>2 DEF Idle
  <2> QED
    BY <2>1 DEF Started, WithVerifier, Session
<1>3. ASSUME NEW s \in Start, StartUpdate(s)
      PROVE  FlowTypeOK'
  BY <1>2, <1>3 DEF StartUpdate
<1>4. ASSUME NEW s \in Start, StartDrop(s) \/ AbortStart(s)
      PROVE  FlowTypeOK'
  BY <1>2, <1>4 DEF StartDrop, AbortStart, Deleted
<1>5. ASSUME NEW s \in Start, NEW n \in Authn, NEW idp \in Idp, NEW sub \in Sub,
             Authenticate(n, s, idp, sub)
      PROVE  FlowTypeOK'
  <2>1. starts[s] \in Started
    BY <1>5 DEF Authenticate, Idle
  <2>2. [idp |-> idp, sub |-> sub, nonce |-> starts[s].sid, challenge |-> s,
         redeemed |-> FALSE] \in Authentication
    BY <2>1 DEF Started, Authentication
  <2> QED
    BY <1>5, <2>2 DEF Authenticate
<1> QED
  BY <1>1, <1>3, <1>4, <1>5 DEF StartStep

\* A callback's step leaves its record one.
LEMMA CallbackStepTypes ==
    ASSUME TypeOK, Good, CallbackStep
    PROVE  FlowTypeOK'
<1> USE DEF TypeOK, FlowTypeOK
<1>1. ASSUME NEW c \in Callback, NEW a \in Authorize, NEW idp \in Idp, NEW n \in Authn,
             CallbackGet(c, a, idp, n)
      PROVE  FlowTypeOK'
  <2>1. [pc |-> "verify", sid |-> a, idp |-> idp, authn |-> n, session |-> sessions[a],
         user |-> NoUser, event |-> "none"] \in Returned
    BY <1>1 DEF CallbackGet, Returned, EventType
  <2> QED
    BY <1>1, <2>1 DEF CallbackGet
<1>2. ASSUME NEW c \in Callback, NEW a \in Authorize, NEW idp \in Idp, Cancel(c, a, idp)
      PROVE  FlowTypeOK'
  BY <1>2 DEF Cancel, Deleted
<1>3. ASSUME NEW c \in Callback, Verify(c)
      PROVE  FlowTypeOK'
  <2>1. callbacks[c] \in Returned
    BY <1>3, CallbackTypes DEF Verify
  <2>2. \A pc \in {"link", "find"} : [callbacks[c] EXCEPT !.pc = pc] \in Returned
    BY <2>1 DEF Returned
  <2>3. authns[callbacks[c].authn] \in Authentication
    BY <2>1 DEF Good, CallbackGood
  <2>4. [authns[callbacks[c].authn] EXCEPT !.redeemed = TRUE] \in Authentication
    BY <2>3 DEF Authentication
  <2>5. callbacks[c].authn \in Authn
    BY <2>1 DEF Returned
  <2> QED
    BY <1>3, <2>1, <2>2, <2>3, <2>4, <2>5 DEF Verify
<1>4. ASSUME NEW c \in Callback, VerifyFail(c)
      PROVE  FlowTypeOK'
  <2>1. callbacks[c] \in Returned
    BY <1>4, CallbackTypes DEF VerifyFail
  <2>2. \A event \in FailureEvents(callbacks[c].idp) :
            [callbacks[c] EXCEPT !.pc = "failed", !.event = event] \in Returned
    BY <2>1 DEF Returned, FailureEvents, EventType
  <2> QED
    BY <1>4, <2>1, <2>2 DEF VerifyFail, Deleted
<1>5. ASSUME NEW c \in Callback, Find(c)
      PROVE  FlowTypeOK'
  <2>1. callbacks[c] \in Returned
    BY <1>5, CallbackTypes DEF Find
  <2> QED
    BY <1>5, <2>1 DEF Find, Returned
<1>6. ASSUME NEW c \in Callback, Register(c)
      PROVE  FlowTypeOK'
  <2>1. callbacks[c] \in Returned
    BY <1>6, CallbackTypes DEF Register
  <2>2. /\ [callbacks[c] EXCEPT !.pc = "refused",
                                !.event = "registration.already_registered"] \in Returned
        /\ [callbacks[c] EXCEPT !.pc = "ticket"] \in Returned
    BY <2>1 DEF Returned, EventType
  <2> QED
    BY <1>6, <2>1, <2>2 DEF Register, Deleted
<1>7. ASSUME NEW c \in Callback, StoreTicket(c) \/ ReportTicket(c)
      PROVE  FlowTypeOK'
  <2>1. callbacks[c] \in Returned
    BY <1>7, CallbackTypes DEF StoreTicket, ReportTicket
  <2>2. /\ [callbacks[c] EXCEPT !.pc = "report"] \in Returned
        /\ [callbacks[c] EXCEPT !.pc = "done", !.event = "registration.ticket_issued"]
               \in Returned
    BY <2>1 DEF Returned, EventType, Success
  <2> QED
    BY <1>7, <2>1, <2>2 DEF StoreTicket, ReportTicket
<1>8. ASSUME NEW c \in Callback, RefuseUnknown(c)
      PROVE  FlowTypeOK'
  <2>1. callbacks[c] \in Returned
    BY <1>8, CallbackTypes DEF RefuseUnknown
  <2>2. [callbacks[c] EXCEPT !.pc = "refused",
                             !.event = "oauth.identity_not_linked"] \in Returned
    BY <2>1 DEF Returned, EventType
  <2> QED
    BY <1>8, <2>1, <2>2 DEF RefuseUnknown, Deleted
<1>9. ASSUME NEW c \in Callback, CreateChallenge(c)
      PROVE  FlowTypeOK'
  <2>1. callbacks[c] \in Returned
    BY <1>9, CallbackTypes DEF CreateChallenge
  <2>2. [callbacks[c] EXCEPT !.pc = "delete",
                             !.event = "oauth.callback_succeeded"] \in Returned
    BY <2>1 DEF Returned, EventType, Success
  <2> QED
    BY <1>9, <2>1, <2>2 DEF CreateChallenge
<1>10. ASSUME NEW c \in Callback, SpendSession(c)
      PROVE  FlowTypeOK'
  BY <1>10, CallbackTypes DEF SpendSession, Returned, Deleted
<1>11. ASSUME NEW c \in Callback, LinkAnswered(c)
      PROVE  FlowTypeOK'
  <2>1. callbacks[c] \in Returned
    BY <1>11, CallbackTypes DEF LinkAnswered
  <2>2. \A pc \in {"code", "refused"}, event \in {"link.succeeded", "link.already_linked"} :
            [callbacks[c] EXCEPT !.pc = pc, !.user = callbacks[c].session.linkUser,
                                 !.event = event] \in Returned
    BY <2>1 DEF Returned, EventType, Success, Session
  <2> QED
    BY <1>11, <2>1, <2>2 DEF LinkAnswered, Deleted
<1>12. ASSUME NEW c \in Callback, IssueCode(c)
      PROVE  FlowTypeOK'
  BY <1>12, CallbackTypes DEF IssueCode, Returned
<1>13. ASSUME NEW c \in Callback, AbortCallback(c)
      PROVE  FlowTypeOK'
  BY <1>13, CallbackTypes DEF AbortCallback, Returned
<1> QED
  BY <1>1, <1>2, <1>3, <1>4, <1>5, <1>6, <1>7, <1>8, <1>9, <1>10, <1>11, <1>12,
     <1>13
  DEF CallbackStep

----------------------------------------------------------------------------
(* The types of Redemption and IdentityLink                                *)

\* A code or ticket is what Redemption expects in Redis.
LEMMA GrantTypes ==
    ASSUME TypeOK, Good, NEW c \in Callback, callbacks[c].pc \in {"ticket", "code"}
    PROVE  /\ callbacks[c].pc = "ticket" => RegistrationTicket(c) \in R!Payload
           /\ callbacks[c].pc = "ticket" => RegistrationTicket(c).kind = "ticket"
           /\ callbacks[c].pc = "code" => AuthorizationCode(c) \in R!Payload
           /\ callbacks[c].pc = "code" =>
                  L!Bound(identities, AuthorizationCode(c).key, AuthorizationCode(c).user)
<1>1. /\ callbacks[c] \in Returned
      /\ callbacks[c].session \in Session
      /\ callbacks[c].idp \in Idp
  BY CallbackTypes
<1>2. Proven(c) /\ FoundGood(c)
  BY <1>1 DEF Good, CallbackGood, Past
<1>3. VerifiedKey(c) \in Key
  BY <1>2, VerifiedIsKey
<1>4. ASSUME callbacks[c].pc = "code"
      PROVE  /\ callbacks[c].user \in User
             /\ L!Bound(identities, VerifiedKey(c), callbacks[c].user)
  BY <1>2, <1>4 DEF FoundGood
<1>5. ASSUME callbacks[c].pc = "code"
      PROVE  AuthorizationCode(c) \in R!Payload
  BY <1>1, <1>3, <1>4, <1>5 DEF AuthorizationCode, R!Payload, Session
<1>6. ASSUME callbacks[c].pc = "ticket"
      PROVE  RegistrationTicket(c) \in R!Payload
  <2>1. (IF callbacks[c].idp = "google" THEN NoPartner ELSE callbacks[c].idp) \in Slug
    BY <1>1 DEF Idp, Slug
  <2>2. (IF callbacks[c].idp = "google" THEN "registration"
                                        ELSE "enterprise_sso_registration") \in Purpose
    BY DEF Purpose
  <2>3. RegistrationTicket(c) \in
            [kind : {"ticket"}, client : Client, uri : RedirectUri, purpose : Purpose,
             key : Key, slug : Slug]
    BY <1>1, <1>3, <2>1, <2>2 DEF RegistrationTicket, Session
  <2> QED
    BY <2>3 DEF R!Payload
<1> QED
  BY <1>4, <1>5, <1>6 DEF AuthorizationCode, RegistrationTicket

\* What the callbacks do to grants is what Redemption allows: a code is issued
\* once, for an identity that is linked to its user.
LEMMA FlowRefines ==
    ASSUME TypeOK, Good, FlowNext, UNCHANGED <<exchanges, tokens>>
    PROVE  /\ \/ \E g \in Callback, p \in R!Payload : R!Issue(g, p)
              \/ UNCHANGED R!vars
           /\ identities' = identities
<1> USE DEF R!vars
<1>1. CASE AuthorizeStep
  BY <1>1 DEF AuthorizeStep, Approve, CreateSession, AbortAuthorize, ExpireSession
<1>2. CASE StartStep
  BY <1>2 DEF StartStep, StartGet, StartUpdate, StartDrop, AbortStart, Authenticate
<1>3. ASSUME NEW c \in Callback, StoreTicket(c) \/ IssueCode(c)
      PROVE  \E g \in Callback, p \in R!Payload : R!Issue(g, p)
  <2>1. callbacks[c].pc \in {"ticket", "code"} /\ grants[c] = Unissued
    BY <1>3 DEF Good, GrantGood, StoreTicket, IssueCode
  <2>2. CASE StoreTicket(c)
    BY <2>1, <2>2, GrantTypes DEF StoreTicket, R!Issue
  <2>3. CASE IssueCode(c)
    BY <2>1, <2>3, GrantTypes DEF IssueCode, R!Issue, R!Bound, L!Bound
  <2> QED
    BY <1>3, <2>2, <2>3
<1>4. ASSUME NEW c \in Callback, StoreTicket(c) \/ IssueCode(c)
      PROVE  identities' = identities
  BY <1>4 DEF StoreTicket, IssueCode
<1>5. ASSUME NEW c \in Callback,
             \/ \E a \in Authorize, idp \in Idp, n \in Authn : CallbackGet(c, a, idp, n)
             \/ \E a \in Authorize, idp \in Idp : Cancel(c, a, idp)
             \/ Verify(c) \/ VerifyFail(c) \/ Find(c) \/ Register(c) \/ ReportTicket(c)
             \/ RefuseUnknown(c) \/ CreateChallenge(c) \/ SpendSession(c)
             \/ LinkAnswered(c) \/ AbortCallback(c)
      PROVE  UNCHANGED R!vars
  BY <1>5 DEF CallbackGet, Cancel, Verify, L!Begin, VerifyFail, Find, Register,
              ReportTicket, RefuseUnknown, CreateChallenge, SpendSession, LinkAnswered,
              AbortCallback
<1> QED
  BY <1>1, <1>2, <1>3, <1>4, <1>5 DEF FlowNext, CallbackStep

\* A statement of link() inserts a row or leaves the table as it is.
LEMMA LinkRefines ==
    ASSUME L!TypeOK, LinkStatement
    PROVE  (\E k \in Key, u \in User : R!LinkIdentity(k, u)) \/ UNCHANGED R!vars
<1>1. PICK l \in Linker : L!Step(l)
  BY DEF LinkStatement
<1>2. links[l].key \in Key /\ links[l].user \in User
  BY <1>1, StatementEffect DEF L!Call
<1>3. CASE identities' = identities
  BY <1>3 DEF LinkStatement, R!vars
<1>4. CASE /\ ~ L!UniqueViolation(identities, links[l].key, links[l].user)
           /\ identities' = L!InsertRow(identities, links[l].key, links[l].user)
  <2>1. R!LinkIdentity(links[l].key, links[l].user)
    BY <1>4 DEF R!LinkIdentity, LinkStatement, R!UniqueViolation, L!UniqueViolation,
                R!HasIdentity, L!HasIdentity, R!InsertRow, L!InsertRow
  <2> QED
    BY <1>2, <2>1
<1> QED
  BY <1>1, <1>3, <1>4 DEF L!Step, L!Select, L!Update, L!Insert, L!Fail, L!LoseReply

\* Every step of the service is one of Redemption's, or nothing to it.
LEMMA StepRefines ==
    ASSUME TypeOK, Good, [Next]_vars
    PROVE  [R!Next]_(R!vars)
<1>1. CASE Flow
  BY <1>1, FlowRefines DEF Flow, R!Next
<1>2. CASE LinkStatement
  BY <1>2, LinkRefines DEF TypeOK, R!Next
<1>3. CASE \E l \in Django, t \in tokens, u \in User : DjangoLink(l, t, u)
  BY <1>3 DEF DjangoLink, L!Begin, R!vars
<1>4. ASSUME NEW k \in Key, Revoke(k)
      PROVE  R!Revoke(k)
  BY <1>4 DEF Revoke, L!Revoke, R!Revoke
<1>5. CASE Redemptions
  BY <1>5 DEF Redemptions, R!Next
<1>6. CASE UNCHANGED vars
  BY <1>6 DEF vars, flowVars, R!vars
<1> QED
  BY <1>1, <1>2, <1>3, <1>4, <1>5, <1>6 DEF Next, R!Next

\* What an exchange does keeps Redemption's types.
LEMMA RedemptionTypes ==
    ASSUME TypeOK, Redemptions
    PROVE  R!TypeOK'
<1> USE DEF TypeOK, R!TypeOK
<1>1. ASSUME NEW g \in Callback, R!ExpireGrant(g)
      PROVE  R!TypeOK'
  BY <1>1 DEF R!ExpireGrant
<1>2. ASSUME NEW e \in Exchange, NEW g \in Callback, NEW kind \in {"code", "ticket"},
             NEW client \in Client, NEW uri \in RedirectUri,
             R!Redeem(e, g, kind, client, uri)
      PROVE  R!TypeOK'
  <2>1. grants[g] \in R!Payload /\ grants[g].kind \in {"code", "ticket"}
    BY <1>2 DEF R!Redeem, R!Redeemable
  <2>2. R!AfterConsume(grants[g], client, uri) \in {"mismatch", "lookup", "sign"}
    BY <2>1 DEF R!AfterConsume
  <2>3. [pc |-> R!AfterConsume(grants[g], client, uri), grant |-> g,
         payload |-> grants[g]] \in R!Taken
    BY <2>1, <2>2 DEF R!Taken
  <2> QED
    BY <1>2, <2>3 DEF R!Redeem, R!Consume
<1>3. ASSUME NEW e \in Exchange, R!Lookup(e)
      PROVE  R!TypeOK'
  <2>1. exchanges[e] \in R!Taken
    BY <1>3 DEF R!Lookup, R!Idle
  <2> QED
    BY <1>3, <2>1 DEF R!Lookup, R!Taken
<1>4. ASSUME NEW e \in Exchange, R!Sign(e)
      PROVE  R!TypeOK'
  <2>1. exchanges[e] \in R!Taken
    BY <1>4 DEF R!Sign, R!Idle
  <2>2. R!TokenFor(e, exchanges[e].payload) \in R!Token
    BY <2>1 DEF R!TokenFor, R!Token, R!Taken, R!Payload
  <2> QED
    BY <1>4, <2>1, <2>2 DEF R!Sign, R!Taken
<1>5. ASSUME NEW e \in Exchange, R!Abort(e)
      PROVE  R!TypeOK'
  <2>1. exchanges[e] \in R!Taken
    BY <1>5 DEF R!Abort, R!Idle
  <2> QED
    BY <1>5, <2>1 DEF R!Abort, R!Taken
<1> QED
  BY <1>1, <1>2, <1>3, <1>4, <1>5 DEF Redemptions

\* A browser's step keeps the types of link() calls: the pair a callback links is
\* a verified identity and the user of a link ticket.
LEMMA FlowLinkTypes ==
    ASSUME TypeOK, Good, FlowNext
    PROVE  L!TypeOK'
<1> USE DEF TypeOK, L!TypeOK
<1>1. CASE AuthorizeStep
  BY <1>1 DEF AuthorizeStep, Approve, CreateSession, AbortAuthorize, ExpireSession
<1>2. CASE StartStep
  BY <1>2 DEF StartStep, StartGet, StartUpdate, StartDrop, AbortStart, Authenticate
<1>3. ASSUME NEW c \in Callback, Verify(c)
      PROVE  L!TypeOK'
  <2>1. /\ callbacks[c] \in Returned
        /\ callbacks[c].sid \in Authorize
    BY <1>3, CallbackTypes DEF Verify
  <2>2. VerifiedKey(c) \in Key
    BY <2>1, KeyIsKey DEF Good, CallbackGood, VerifiedKey
  <2>3. FromAsk(callbacks[c].sid, callbacks[c].session)
    BY <2>1 DEF Good, CallbackGood
  <2>4. callbacks[c].session.purpose = "link" => callbacks[c].session.linkUser \in User
    BY <2>1, <2>3, AskTypes, AsksAreQueries DEF FromAsk, Good
  <2>5. CASE callbacks[c].session.purpose = "link"
    <3>1. [pc |-> "select", key |-> VerifiedKey(c), user |-> callbacks[c].session.linkUser]
              \in L!Call
      BY <2>2, <2>4, <2>5 DEF L!Call
    <3> QED
      BY <1>3, <2>5, <3>1 DEF Verify, L!Begin
  <2> QED
    BY <1>3, <2>5 DEF Verify
<1>4. ASSUME NEW c \in Callback,
             \/ \E a \in Authorize, idp \in Idp, n \in Authn : CallbackGet(c, a, idp, n)
             \/ \E a \in Authorize, idp \in Idp : Cancel(c, a, idp)
             \/ VerifyFail(c) \/ Find(c) \/ Register(c) \/ StoreTicket(c)
             \/ ReportTicket(c) \/ RefuseUnknown(c) \/ CreateChallenge(c)
             \/ SpendSession(c) \/ LinkAnswered(c) \/ IssueCode(c) \/ AbortCallback(c)
      PROVE  L!TypeOK'
  BY <1>4 DEF CallbackGet, Cancel, VerifyFail, Find, Register, StoreTicket, ReportTicket,
              RefuseUnknown, CreateChallenge, SpendSession, LinkAnswered, IssueCode,
              AbortCallback
<1> QED
  BY <1>1, <1>2, <1>3, <1>4 DEF FlowNext, CallbackStep

LEMMA TypeStep ==
    ASSUME TypeOK, Good, [Next]_vars
    PROVE  TypeOK'
<1>1. CASE Flow
  <2>1. FlowTypeOK'
    BY <1>1, AuthorizeTypes, StartTypes, CallbackStepTypes DEF Flow, FlowNext
  <2>2. R!TypeOK'
    BY <1>1, FlowRefines DEF Flow, TypeOK, R!TypeOK, R!Issue, R!vars
  <2> QED
    BY <1>1, <2>1, <2>2, FlowLinkTypes DEF Flow, TypeOK
<1>2. CASE LinkStatement
  BY <1>2, StatementEffect, SameTable
  DEF LinkStatement, TypeOK, FlowTypeOK, R!TypeOK, L!TypeOK, browserVars
<1>3. ASSUME NEW l \in Django, NEW t \in tokens, NEW u \in User, DjangoLink(l, t, u)
      PROVE  TypeOK'
  <2>1. t.key \in Key
    BY DEF TypeOK, R!TypeOK, R!Token
  <2>2. [pc |-> "select", key |-> t.key, user |-> u] \in L!Call
    BY <2>1 DEF L!Call
  <2> QED
    BY <1>3, <2>2
    DEF DjangoLink, L!Begin, TypeOK, FlowTypeOK, R!TypeOK, L!TypeOK, browserVars
<1>4. ASSUME NEW k \in Key, Revoke(k)
      PROVE  TypeOK'
  BY <1>4, RevocationEffect, SameTable
  DEF Revoke, L!Revoke, TypeOK, FlowTypeOK, R!TypeOK, L!TypeOK, browserVars
<1>5. CASE Redemptions
  BY <1>5, RedemptionTypes
  DEF Redemptions, R!ExpireGrant, R!Redeem, R!Lookup, R!Sign, R!Abort,
      TypeOK, FlowTypeOK, L!TypeOK, browserVars
<1>6. CASE UNCHANGED vars
  BY <1>6 DEF vars, flowVars, browserVars, TypeOK, FlowTypeOK, R!TypeOK, L!TypeOK
<1> QED
  BY <1>1, <1>2, <1>3, <1>4, <1>5, <1>6 DEF Next

----------------------------------------------------------------------------
(* What no step takes back                                                 *)

\* A session's query, a start that was sent, what an IdP answered, what a
\* callback and a link() call are about, and a link are for good.
Kept ==
    /\ \A a \in Authorize :
           authorizes[a].pc = "created" => authorizes'[a] = authorizes[a]
    /\ \A s \in Start : starts[s].pc = "sent" => starts'[s] = starts[s]
    /\ \A n \in Authn :
           authns[n] \in Authentication =>
               /\ authns'[n] \in Authentication
               /\ authns'[n].idp = authns[n].idp
               /\ authns'[n].sub = authns[n].sub
               /\ authns'[n].nonce = authns[n].nonce
               /\ authns'[n].challenge = authns[n].challenge
               /\ authns[n].redeemed => authns'[n].redeemed
    /\ \A c \in Callback :
           callbacks[c].pc \in {"done", "failed"} => callbacks'[c] = callbacks[c]
    /\ \A c \in Callback :
           callbacks[c].pc = "report" =>
               callbacks'[c] \in {callbacks[c], [callbacks[c] EXCEPT !.pc = "failed"],
                                 [callbacks[c] EXCEPT !.pc = "done",
                                     !.event = "registration.ticket_issued"]}
    /\ \A c \in Callback :
           callbacks[c] \in Returned =>
               /\ callbacks'[c] \in Returned
               /\ callbacks'[c].sid = callbacks[c].sid
               /\ callbacks'[c].idp = callbacks[c].idp
               /\ callbacks'[c].authn = callbacks[c].authn
               /\ callbacks'[c].session = callbacks[c].session
    /\ \A l \in Linker :
           links[l] \in L!Call =>
               /\ links'[l] \in L!Call
               /\ links'[l].key = links[l].key
               /\ links'[l].user = links[l].user
    /\ \A k \in Key, u \in User :
           L!Bound(identities, k, u) => L!Bound(identities', k, u)

\* Which steps write what.
LEMMA Writers ==
    ASSUME [Next]_vars
    PROVE  /\ authorizes' = authorizes \/ AuthorizeStep
           /\ starts' = starts \/ StartStep
           /\ authns' = authns \/ StartStep \/ CallbackStep
           /\ callbacks' = callbacks \/ CallbackStep
           /\ sessions' = sessions \/ AuthorizeStep \/ StartStep \/ CallbackStep
           /\ grants' = grants \/ CallbackStep \/ Redemptions
           /\ (exchanges' = exchanges /\ tokens' = tokens) \/ Redemptions
<1> USE DEF browserVars
<1>1. CASE Flow
  <2>1. CASE AuthorizeStep
    BY <1>1, <2>1
    DEF Flow, AuthorizeStep, Approve, CreateSession, AbortAuthorize, ExpireSession
  <2>2. CASE StartStep
    BY <1>1, <2>2
    DEF Flow, StartStep, StartGet, StartUpdate, StartDrop, AbortStart, Authenticate
  <2>3. CASE CallbackStep
    <3>1. UNCHANGED <<authorizes, starts>> /\ UNCHANGED <<exchanges, tokens>>
      <4>1. PICK c \in Callback :
                \/ \E a \in Authorize, idp \in Idp, n \in Authn : CallbackGet(c, a, idp, n)
                \/ \E a \in Authorize, idp \in Idp : Cancel(c, a, idp)
                \/ Verify(c) \/ VerifyFail(c) \/ Find(c) \/ Register(c)
                \/ StoreTicket(c) \/ ReportTicket(c) \/ RefuseUnknown(c)
                \/ CreateChallenge(c) \/ SpendSession(c) \/ LinkAnswered(c)
                \/ IssueCode(c) \/ AbortCallback(c)
        BY <2>3 DEF CallbackStep
      <4> QED
        BY <1>1, <4>1
        DEF Flow, CallbackGet, Cancel, Verify, VerifyFail, Find, Register, StoreTicket,
            ReportTicket, RefuseUnknown, CreateChallenge, SpendSession, LinkAnswered,
            IssueCode, AbortCallback
    <3> QED
      BY <2>3, <3>1
  <2> QED
    BY <1>1, <2>1, <2>2, <2>3 DEF Flow, FlowNext
<1>2. CASE LinkStatement
  BY <1>2 DEF LinkStatement
<1>3. CASE \E l \in Django, t \in tokens, u \in User : DjangoLink(l, t, u)
  BY <1>3 DEF DjangoLink
<1>4. CASE \E k \in Key : Revoke(k)
  BY <1>4 DEF Revoke
<1>5. CASE Redemptions
  BY <1>5 DEF Redemptions
<1>6. CASE UNCHANGED vars
  BY <1>6 DEF vars, flowVars
<1> QED
  BY <1>1, <1>2, <1>3, <1>4, <1>5, <1>6 DEF Next

\* Links are for good.
LEMMA LinksStay ==
    ASSUME TypeOK, Good, [Next]_vars, NEW k \in Key, NEW u \in User,
           L!Bound(identities, k, u)
    PROVE  L!Bound(identities', k, u)
<1> USE DEF L!Bound
<1>1. CASE Flow
  BY <1>1, FlowRefines DEF Flow
<1>2. CASE LinkStatement
  BY <1>2, StatementEffect DEF LinkStatement, TypeOK
<1>3. CASE \E l \in Django, t \in tokens, v \in User : DjangoLink(l, t, v)
  BY <1>3 DEF DjangoLink, L!Begin
<1>4. CASE \E j \in Key : Revoke(j)
  BY <1>4, RevocationEffect DEF Revoke, TypeOK
<1>5. CASE Redemptions
  BY <1>5 DEF Redemptions, R!ExpireGrant, R!Redeem, R!Lookup, R!Sign, R!Abort
<1>6. CASE UNCHANGED vars
  BY <1>6 DEF vars, flowVars
<1> QED
  BY <1>1, <1>2, <1>3, <1>4, <1>5, <1>6 DEF Next

\* A step of callback c, after its first and before its last.
Moves(c) ==
    \/ Verify(c) \/ VerifyFail(c) \/ Find(c) \/ Register(c) \/ StoreTicket(c)
    \/ ReportTicket(c) \/ RefuseUnknown(c) \/ CreateChallenge(c) \/ SpendSession(c)
    \/ LinkAnswered(c) \/ IssueCode(c) \/ AbortCallback(c)

Arrives(c) ==
    \/ \E a \in Authorize, idp \in Idp, n \in Authn : CallbackGet(c, a, idp, n)
    \/ \E a \in Authorize, idp \in Idp : Cancel(c, a, idp)

LEMMA CallbackSteps == CallbackStep <=> \E c \in Callback : Moves(c) \/ Arrives(c)
  BY DEF CallbackStep, Moves, Arrives

\* A callback's step is about itself.
LEMMA MoveEffect ==
    ASSUME TypeOK, TypeOK', NEW c \in Callback, Moves(c)
    PROVE  /\ callbacks[c] \in Returned
           /\ callbacks[c].pc \notin {"done", "failed", "refused"}
           /\ callbacks'[c] \in Returned
           /\ callbacks'[c].sid = callbacks[c].sid
           /\ callbacks'[c].idp = callbacks[c].idp
           /\ callbacks'[c].authn = callbacks[c].authn
           /\ callbacks'[c].session = callbacks[c].session
<1>1. callbacks[c].pc \notin {"idle", "cancelled", "done", "failed", "refused"}
  BY DEF Moves, Verify, VerifyFail, Find, Register, StoreTicket, ReportTicket, RefuseUnknown,
         CreateChallenge, SpendSession, LinkAnswered, IssueCode, AbortCallback
<1>2. callbacks[c] \in Returned
  BY <1>1, CallbackTypes
<1>3. callbacks = [d \in Callback |-> callbacks[d]]
  BY DEF TypeOK, FlowTypeOK
<1>4. callbacks'[c] \in {Idle, Cancelled} \cup Returned
  BY DEF TypeOK, FlowTypeOK
<1>5. CASE Verify(c)
  BY <1>2, <1>3, <1>5 DEF Verify, Returned
<1>6. CASE VerifyFail(c)
  BY <1>2, <1>3, <1>6 DEF VerifyFail, Returned
<1>7. CASE Find(c)
  <2>1. PICK user :
            \/ callbacks'[c] = [callbacks[c] EXCEPT !.user = user, !.pc = "register"]
            \/ callbacks'[c] = [callbacks[c] EXCEPT !.user = user, !.pc = "unknown"]
            \/ callbacks'[c] = [callbacks[c] EXCEPT !.user = user, !.pc = "spend"]
    BY <1>2, <1>3, <1>7 DEF Find
  <2> QED
    BY <1>1, <1>2, <1>4, <2>1 DEF Returned, Idle, Cancelled
<1>8. CASE Register(c)
  <2>1. \/ callbacks'[c] = [callbacks[c] EXCEPT !.pc = "ticket"]
        \/ callbacks'[c] = [callbacks[c] EXCEPT !.pc = "refused",
                                               !.event = "registration.already_registered"]
    BY <1>2, <1>3, <1>8 DEF Register
  <2> QED
    BY <1>1, <1>2, <1>4, <2>1 DEF Returned, Idle, Cancelled
<1>9. CASE StoreTicket(c) \/ ReportTicket(c) \/ RefuseUnknown(c)
  BY <1>2, <1>3, <1>9 DEF StoreTicket, ReportTicket, RefuseUnknown, Returned
<1>10. CASE CreateChallenge(c) \/ SpendSession(c)
  BY <1>2, <1>3, <1>10 DEF CreateChallenge, SpendSession, Returned
<1>11. CASE LinkAnswered(c)
  <2>1. PICK user :
            \/ callbacks'[c] = [callbacks[c] EXCEPT !.pc = "code", !.user = user,
                                                    !.event = "link.succeeded"]
            \/ callbacks'[c] = [callbacks[c] EXCEPT !.pc = "refused", !.user = user,
                                                    !.event = "link.already_linked"]
    BY <1>2, <1>3, <1>11 DEF LinkAnswered
  <2> QED
    BY <1>1, <1>2, <1>4, <2>1 DEF Returned, Idle, Cancelled
<1>12. CASE IssueCode(c) \/ AbortCallback(c)
  <2>1. PICK pc \in {"done", "failed"} : callbacks' = [callbacks EXCEPT ![c].pc = pc]
    BY <1>12 DEF IssueCode, AbortCallback
  <2> QED
    BY <1>1, <1>2, <1>3, <2>1 DEF Returned
<1> QED
  BY <1>1, <1>2, <1>5, <1>6, <1>7, <1>8, <1>9, <1>10, <1>11, <1>12 DEF Moves

LEMMA OtherCallbacks ==
    ASSUME TypeOK, NEW c \in Callback, Moves(c) \/ Arrives(c),
           NEW d \in Callback, d # c
    PROVE  callbacks'[d] = callbacks[d] /\ grants'[d] = grants[d] /\ links'[d] = links[d]
  BY DEF Moves, Arrives, CallbackGet, Cancel, Verify, L!Begin, VerifyFail, Find, Register,
         StoreTicket, ReportTicket, RefuseUnknown, CreateChallenge, SpendSession,
         LinkAnswered, IssueCode, AbortCallback, TypeOK, FlowTypeOK, R!TypeOK, L!TypeOK,
         Linker

LEMMA KeptStep ==
    ASSUME TypeOK, Good, [Next]_vars
    PROVE  Kept
<1>1. ASSUME NEW a \in Authorize, authorizes[a].pc = "created"
      PROVE  authorizes'[a] = authorizes[a]
  <2>1. ASSUME NEW b \in Authorize, NEW ask \in Asks, Approve(b, ask)
        PROVE  authorizes'[a] = authorizes[a]
    BY <1>1, <2>1 DEF Approve, Idle
  <2>2. ASSUME NEW b \in Authorize, CreateSession(b) \/ AbortAuthorize(b) \/ ExpireSession(b)
        PROVE  authorizes'[a] = authorizes[a]
    <3>1. a # b \/ ExpireSession(b)
      BY <1>1, <2>2 DEF CreateSession, AbortAuthorize
    <3> QED
      BY <2>2, <3>1 DEF CreateSession, AbortAuthorize, ExpireSession, TypeOK, FlowTypeOK
  <2> QED
    BY <2>1, <2>2, Writers DEF AuthorizeStep
<1>2. ASSUME NEW s \in Start, starts[s].pc = "sent"
      PROVE  starts'[s] = starts[s]
  <2>1. CASE StartStep
    BY <1>2, <2>1
    DEF StartStep, StartGet, StartUpdate, StartDrop, AbortStart, Authenticate, Idle,
        TypeOK, FlowTypeOK
  <2> QED
    BY <2>1, Writers
<1>3. ASSUME NEW n \in Authn, authns[n] \in Authentication
      PROVE  /\ authns'[n] \in Authentication
             /\ authns'[n].idp = authns[n].idp
             /\ authns'[n].sub = authns[n].sub
             /\ authns'[n].nonce = authns[n].nonce
             /\ authns'[n].challenge = authns[n].challenge
             /\ authns[n].redeemed => authns'[n].redeemed
  <2>1. CASE StartStep
    BY <1>3, <2>1, FlowAssumption
    DEF StartStep, StartGet, StartUpdate, StartDrop, AbortStart, Authenticate, TypeOK,
        FlowTypeOK
  <2>2. ASSUME NEW c \in Callback, Verify(c), callbacks[c].authn = n
        PROVE  authns'[n] = [authns[n] EXCEPT !.redeemed = TRUE]
    BY <1>3, <2>2 DEF Verify, TypeOK, FlowTypeOK
  <2>3. ASSUME NEW c \in Callback, Verify(c), callbacks[c].authn # n
        PROVE  authns'[n] = authns[n]
    BY <1>3, <2>3 DEF Verify, TypeOK, FlowTypeOK
  <2>4. ASSUME CallbackStep, ~ \E c \in Callback : Verify(c)
        PROVE  authns' = authns
    BY <2>4
    DEF CallbackStep, CallbackGet, Cancel, VerifyFail, Find, Register, StoreTicket,
        ReportTicket, RefuseUnknown, CreateChallenge, SpendSession, LinkAnswered,
        IssueCode, AbortCallback
  <2> QED
    BY <1>3, <2>1, <2>2, <2>3, <2>4, Writers DEF Authentication
<1>4. ASSUME NEW c \in Callback, callbacks[c].pc \in {"done", "failed"}
      PROVE  callbacks'[c] = callbacks[c]
  <2>1. ASSUME NEW d \in Callback, Moves(d) \/ Arrives(d)
        PROVE  callbacks'[c] = callbacks[c]
    <3>1. c # d
      BY <1>4, <2>1, MoveEffect, TypeStep DEF Arrives, CallbackGet, Cancel, Idle
    <3> QED
      BY <2>1, <3>1, OtherCallbacks
  <2> QED
    BY <2>1, CallbackSteps, Writers
<1>5. ASSUME NEW c \in Callback, callbacks[c] \in Returned
      PROVE  /\ callbacks'[c] \in Returned
             /\ callbacks'[c].sid = callbacks[c].sid
             /\ callbacks'[c].idp = callbacks[c].idp
             /\ callbacks'[c].authn = callbacks[c].authn
             /\ callbacks'[c].session = callbacks[c].session
  <2>1. ASSUME Moves(c) \/ Arrives(c)
        PROVE  Moves(c)
    BY <1>5, <2>1 DEF Arrives, CallbackGet, Cancel, Idle, Returned
  <2>2. ASSUME NEW d \in Callback, Moves(d) \/ Arrives(d), d # c
        PROVE  callbacks'[c] = callbacks[c]
    BY <2>2, OtherCallbacks
  <2> QED
    BY <1>5, <2>1, <2>2, CallbackSteps, MoveEffect, TypeStep, Writers
<1>6. ASSUME NEW l \in Linker, links[l] \in L!Call
      PROVE  /\ links'[l] \in L!Call
             /\ links'[l].key = links[l].key
             /\ links'[l].user = links[l].user
  <2>1. ASSUME NEW m \in Linker, L!Step(m)
        PROVE  /\ links'[l] \in L!Call
               /\ links'[l].key = links[l].key
               /\ links'[l].user = links[l].user
    BY <1>6, <2>1, StatementEffect DEF TypeOK
  <2>2. ASSUME NEW m \in Linker, NEW k, NEW u, L!Begin(m, k, u)
        PROVE  links'[l] = links[l]
    BY <1>6, <2>2 DEF L!Begin, L!Idle, L!Call, TypeOK, L!TypeOK
  <2>3. ASSUME Flow, ~ \E c \in Callback : Verify(c)
        PROVE  links' = links
    BY <2>3
    DEF Flow, FlowNext, AuthorizeStep, Approve, CreateSession, AbortAuthorize, ExpireSession,
        StartStep, StartGet, StartUpdate, StartDrop, AbortStart, Authenticate,
        CallbackStep, CallbackGet, Cancel, VerifyFail, Find, Register, StoreTicket,
        ReportTicket, RefuseUnknown, CreateChallenge, SpendSession, LinkAnswered,
        IssueCode, AbortCallback
  <2>4. ASSUME NEW c \in Callback, Verify(c)
        PROVE  links'[l] = links[l]
    BY <2>2, <2>4 DEF Verify, Linker
  <2>5. ASSUME NEW m \in Django, NEW t \in tokens, NEW u \in User, DjangoLink(m, t, u)
        PROVE  links'[l] = links[l]
    BY <2>2, <2>5 DEF DjangoLink, Linker
  <2>6. CASE Redemptions \/ (\E k \in Key : Revoke(k)) \/ UNCHANGED vars
    BY <1>6, <2>6 DEF Redemptions, Revoke, L!Revoke, vars, flowVars
  <2> QED
    BY <1>6, <2>1, <2>3, <2>4, <2>5, <2>6 DEF Next, LinkStatement
<1>7. ASSUME NEW c \in Callback, callbacks[c].pc = "report"
      PROVE  callbacks'[c] \in {callbacks[c], [callbacks[c] EXCEPT !.pc = "failed"],
                               [callbacks[c] EXCEPT !.pc = "done",
                                   !.event = "registration.ticket_issued"]}
  <2>1. ASSUME Moves(c)
        PROVE  ReportTicket(c) \/ AbortCallback(c)
    BY <1>7, <2>1
    DEF Moves, Verify, VerifyFail, Find, Register, StoreTicket, RefuseUnknown,
        CreateChallenge, SpendSession, LinkAnswered, IssueCode
  <2>2. CASE ReportTicket(c) \/ AbortCallback(c)
    BY <2>2 DEF ReportTicket, AbortCallback, TypeOK, FlowTypeOK
  <2>3. ~ Arrives(c)
    BY <1>7 DEF Arrives, CallbackGet, Cancel, Idle
  <2>4. ASSUME NEW d \in Callback, Moves(d) \/ Arrives(d), d # c
        PROVE  callbacks'[c] = callbacks[c]
    BY <2>4, OtherCallbacks
  <2> QED
    BY <2>1, <2>2, <2>3, <2>4, CallbackSteps, Writers
<1> QED
  BY <1>1, <1>2, <1>3, <1>4, <1>5, <1>6, <1>7, LinksStay DEF Kept

----------------------------------------------------------------------------
(* What holds of a query, a session and a start goes on holding            *)

LEMMA CopiesLast ==
    ASSUME TypeOK, Kept, NEW a \in Authorize, NEW session \in Session, FromAsk(a, session)
    PROVE  FromAsk(a, session)'
<1>1. authorizes'[a] = authorizes[a]
  BY DEF FromAsk, Kept
<1> QED
  BY <1>1 DEF FromAsk

LEMMA AskStep ==
    ASSUME TypeOK, Good, [Next]_vars, NEW a \in Authorize
    PROVE  AskGood(a)'
<1>1. AskGood(a)
  BY DEF Good
<1>2. ASSUME NEW b \in Authorize, NEW ask \in Asks, Approve(b, ask)
      PROVE  AskGood(a)'
  <2>1. a # b => authorizes'[a] = authorizes[a]
    BY <1>2 DEF Approve, TypeOK, FlowTypeOK
  <2>2. a = b => authorizes'[a] = [pc |-> "approved", ask |-> ask]
    BY <1>2 DEF Approve, TypeOK, FlowTypeOK
  <2>3. ask.purpose = "link" => ask.ticket \in Ticket
    BY <1>2 DEF Approve, Claims
  <2> QED
    BY <1>1, <1>2, <2>1, <2>2, <2>3 DEF AskGood, Approve
<1>3. ASSUME NEW b \in Authorize, CreateSession(b) \/ AbortAuthorize(b)
      PROVE  AskGood(a)'
  <2>1. authorizes[b] \in [pc : {"approved", "created", "aborted"}, ask : Asks]
    BY <1>3 DEF CreateSession, AbortAuthorize, Idle, TypeOK, FlowTypeOK
  <2>2. authorizes[a] = Idle => a # b
    BY <1>3 DEF CreateSession, AbortAuthorize, Idle
  <2>3. a # b => authorizes'[a] = authorizes[a]
    BY <1>3 DEF CreateSession, AbortAuthorize, TypeOK, FlowTypeOK
  <2>4. a = b => authorizes'[a].ask = authorizes[a].ask /\ authorizes[a] # Idle
    BY <1>3, <2>1, <2>2 DEF CreateSession, AbortAuthorize, TypeOK, FlowTypeOK
  <2> QED
    BY <1>1, <2>3, <2>4 DEF AskGood
<1>4. ASSUME authorizes' = authorizes
      PROVE  AskGood(a)'
  BY <1>1, <1>4 DEF AskGood
<1>5. ASSUME NEW b \in Authorize, ExpireSession(b)
      PROVE  authorizes' = authorizes
  BY <1>5 DEF ExpireSession
<1> QED
  BY <1>2, <1>3, <1>4, <1>5, Writers DEF AuthorizeStep

\* What a step may have done to a session: deleted it, created it, or put a new
\* verifier into it.
LEMMA SessionEffect ==
    ASSUME TypeOK, [Next]_vars, NEW a \in Authorize
    PROVE  \/ sessions'[a] = sessions[a]
           \/ sessions'[a] = NoSession
           \/ /\ CreateSession(a)
              /\ sessions'[a] = SessionFor(authorizes[a].ask)
           \/ \E s \in Start : /\ StartUpdate(s)
                               /\ starts[s].sid = a
                               /\ sessions'[a] = WithVerifier(s)
<1> USE DEF TypeOK, FlowTypeOK
<1>1. CASE AuthorizeStep
  BY <1>1 DEF AuthorizeStep, Approve, CreateSession, AbortAuthorize, ExpireSession, Deleted
<1>2. CASE StartStep
  BY <1>2 DEF StartStep, StartGet, StartUpdate, StartDrop, AbortStart, Authenticate, Deleted
<1>3. ASSUME NEW c \in Callback, Moves(c) \/ Arrives(c)
      PROVE  sessions'[a] \in {sessions[a], NoSession}
  BY <1>3
  DEF Moves, Arrives, CallbackGet, Cancel, Verify, VerifyFail, Find, Register, StoreTicket,
      ReportTicket, RefuseUnknown, CreateChallenge, SpendSession, LinkAnswered, IssueCode,
      AbortCallback, Deleted
<1> QED
  BY <1>1, <1>2, <1>3, CallbackSteps, Writers

LEMMA SessionStep ==
    ASSUME TypeOK, TypeOK', Good, Kept, [Next]_vars, NEW a \in Authorize
    PROVE  SessionGood(a)'
<1>1. CASE sessions'[a] = sessions[a]
  <2>1. CASE sessions[a] = NoSession
    BY <1>1, <2>1 DEF SessionGood
  <2>2. ASSUME NEW session \in Session, sessions[a] = session, FromAsk(a, session)
        PROVE  SessionGood(a)'
    BY <1>1, <2>2, CopiesLast DEF SessionGood, FromAsk
  <2>3. sessions[a] # NoSession => sessions[a] \in Session /\ FromAsk(a, sessions[a])
    BY DEF TypeOK, FlowTypeOK, Good, SessionGood
  <2> QED
    BY <2>1, <2>2, <2>3
<1>2. CASE sessions'[a] = NoSession
  BY <1>2 DEF SessionGood
<1>3. CASE CreateSession(a) /\ sessions'[a] = SessionFor(authorizes[a].ask)
  <2>1. authorizes[a] \in [pc : {"approved", "created", "aborted"}, ask : Asks]
    BY <1>3 DEF CreateSession, Idle, TypeOK, FlowTypeOK
  <2>2. authorizes'[a].pc = "created" /\ authorizes'[a].ask = authorizes[a].ask
    BY <1>3, <2>1 DEF CreateSession, TypeOK, FlowTypeOK
  <2> QED
    BY <1>3, <2>2 DEF SessionGood, FromAsk, SessionFor
<1>4. ASSUME NEW s \in Start, StartUpdate(s), starts[s].sid = a,
             sessions'[a] = WithVerifier(s)
      PROVE  SessionGood(a)'
  <2>1. /\ starts[s] \in Started
        /\ starts[s].session \in Session
    BY <1>4 DEF StartUpdate, Idle, Started, TypeOK, FlowTypeOK
  <2>2. FromAsk(a, starts[s].session)
    BY <1>4, <2>1 DEF Good, StartGood, StartUpdate, Idle
  <2>3. authorizes' = authorizes
    BY <1>4 DEF StartUpdate
  <2> QED
    BY <1>4, <2>1, <2>2, <2>3 DEF SessionGood, FromAsk, WithVerifier, Session
<1> QED
  BY <1>1, <1>2, <1>3, <1>4, SessionEffect

LEMMA StartStepGood ==
    ASSUME TypeOK, Good, Kept, [Next]_vars, NEW s \in Start
    PROVE  StartGood(s)'
<1>1. starts[s] # Idle => starts[s] \in Started /\ starts[s].session \in Session
                          /\ starts[s].sid \in Authorize
                          /\ FromAsk(starts[s].sid, starts[s].session)
  BY DEF TypeOK, FlowTypeOK, Started, Good, StartGood
<1>2. ASSUME NEW session \in Session, NEW a \in Authorize, FromAsk(a, session),
             starts'[s].session = session, starts'[s].sid = a
      PROVE  StartGood(s)'
  BY <1>2, CopiesLast DEF StartGood, FromAsk
<1>3. CASE starts'[s] = starts[s]
  BY <1>1, <1>2, <1>3 DEF StartGood
<1>4. ASSUME NEW a \in Authorize, NEW idp \in Idp, StartGet(s, a, idp)
      PROVE  StartGood(s)'
  <2>1. sessions[a] \in Session /\ FromAsk(a, sessions[a])
    BY <1>4 DEF StartGet, TypeOK, FlowTypeOK, Good, SessionGood
  <2>2. starts'[s].session = sessions[a] /\ starts'[s].sid = a
    BY <1>4 DEF StartGet, TypeOK, FlowTypeOK
  <2> QED
    BY <1>2, <2>1, <2>2
<1>5. CASE StartUpdate(s) \/ StartDrop(s) \/ AbortStart(s)
  <2>1. starts[s] # Idle
    BY <1>5 DEF StartUpdate, StartDrop, AbortStart, Idle
  <2>2. starts'[s].session = starts[s].session /\ starts'[s].sid = starts[s].sid
    BY <1>1, <1>5, <2>1 DEF StartUpdate, StartDrop, AbortStart, Started, TypeOK, FlowTypeOK
  <2> QED
    BY <1>1, <1>2, <2>1, <2>2
<1>6. ASSUME NEW r \in Start \ {s},
             \/ \E a \in Authorize, idp \in Idp : StartGet(r, a, idp)
             \/ StartUpdate(r) \/ StartDrop(r) \/ AbortStart(r)
      PROVE  starts'[s] = starts[s]
  BY <1>6 DEF StartGet, StartUpdate, StartDrop, AbortStart, TypeOK, FlowTypeOK
<1>7. ASSUME NEW r \in Start, NEW n \in Authn, NEW idp \in Idp, NEW sub \in Sub,
             Authenticate(n, r, idp, sub)
      PROVE  starts'[s] = starts[s]
  BY <1>7 DEF Authenticate
<1> QED
  BY <1>3, <1>4, <1>5, <1>6, <1>7, Writers DEF StartStep

\* An IdP is given the challenge of a start that was sent, and goes by it.
LEMMA AuthnStepGood ==
    ASSUME TypeOK, Good, Kept, [Next]_vars, NEW n \in Authn
    PROVE  AuthnGood(n)'
<1>1. CASE authns[n] \in Authentication
  <2>1. authns'[n].challenge = authns[n].challenge /\ authns[n].challenge \in Start
    BY <1>1 DEF Kept, Authentication
  <2>2. starts[authns[n].challenge].pc = "sent"
    BY <1>1 DEF Good, AuthnGood
  <2>3. starts'[authns[n].challenge] = starts[authns[n].challenge]
    BY <2>1, <2>2 DEF Kept
  <2> QED
    BY <2>1, <2>2, <2>3 DEF AuthnGood
<1>2. ASSUME NEW m \in Authn, NEW s \in Start, NEW idp \in Idp, NEW sub \in Sub,
             Authenticate(m, s, idp, sub), authns[n] = NoAuthn
      PROVE  AuthnGood(n)'
  <2>1. starts'[s].pc = "sent"
    BY <1>2 DEF Authenticate
  <2>2. authns'[n] = NoAuthn \/ authns'[n].challenge = s
    BY <1>2 DEF Authenticate, TypeOK, FlowTypeOK
  <2> QED
    BY <2>1, <2>2, FlowAssumption DEF AuthnGood
<1>3. ASSUME NEW c \in Callback, Verify(c), authns[n] = NoAuthn
      PROVE  authns'[n] = NoAuthn
  <2>1. callbacks[c] \in Returned
    BY <1>3, CallbackTypes DEF Verify
  <2>2. callbacks[c].authn # n
    BY <1>3, <2>1, FlowAssumption DEF Good, CallbackGood
  <2> QED
    BY <1>3, <2>2 DEF Verify, TypeOK, FlowTypeOK
<1>4. ASSUME StartStep, ~ \E m \in Authn, s \in Start, idp \in Idp, sub \in Sub :
                              Authenticate(m, s, idp, sub)
      PROVE  authns' = authns
  BY <1>4 DEF StartStep, StartGet, StartUpdate, StartDrop, AbortStart
<1>5. ASSUME CallbackStep, ~ \E c \in Callback : Verify(c)
      PROVE  authns' = authns
  BY <1>5
  DEF CallbackStep, CallbackGet, Cancel, VerifyFail, Find, Register, StoreTicket,
      ReportTicket, RefuseUnknown, CreateChallenge, SpendSession, LinkAnswered, IssueCode,
      AbortCallback
<1>6. CASE authns'[n] = NoAuthn
  BY <1>6, FlowAssumption DEF AuthnGood
<1>7. authns[n] \in Authentication \/ authns[n] = NoAuthn
  BY DEF TypeOK, FlowTypeOK
<1> QED
  BY <1>1, <1>2, <1>3, <1>4, <1>5, <1>6, <1>7, Writers

----------------------------------------------------------------------------
(* Callbacks                                                               *)

\* What a callback has proved stays proved.
LEMMA ProofsLast ==
    ASSUME TypeOK, Kept, NEW c \in Callback, callbacks[c] \in Returned,
           authns[callbacks[c].authn] \in Authentication
    PROVE  /\ authns'[callbacks'[c].authn] \in Authentication
           /\ Proven(c) => Proven(c)'
           /\ VerifiedKey(c)' = VerifiedKey(c)
           /\ VerifiedKey(c) \in Key
<1>1. callbacks[c].authn \in Authn
  BY DEF Returned
<1>2. /\ callbacks'[c].sid = callbacks[c].sid
      /\ callbacks'[c].idp = callbacks[c].idp
      /\ callbacks'[c].authn = callbacks[c].authn
      /\ callbacks'[c].session = callbacks[c].session
  BY DEF Kept
<1>3. /\ authns'[callbacks[c].authn] \in Authentication
      /\ authns'[callbacks[c].authn].idp = authns[callbacks[c].authn].idp
      /\ authns'[callbacks[c].authn].sub = authns[callbacks[c].authn].sub
      /\ authns'[callbacks[c].authn].nonce = authns[callbacks[c].authn].nonce
      /\ authns'[callbacks[c].authn].challenge = authns[callbacks[c].authn].challenge
      /\ authns[callbacks[c].authn].redeemed => authns'[callbacks[c].authn].redeemed
  BY <1>1 DEF Kept
<1>4. Proven(c) => Proven(c)'
  BY <1>2, <1>3 DEF Proven
<1>5. VerifiedKey(c)' = VerifiedKey(c)
  BY <1>2, <1>3 DEF VerifiedKey, KeyOf
<1>6. VerifiedKey(c) \in Key
  BY KeyIsKey DEF VerifiedKey
<1> QED
  BY <1>2, <1>3, <1>4, <1>5, <1>6

\* The part of CallbackGood that the way a callback goes has no part in.
LEMMA CallbackFrame ==
    ASSUME TypeOK, Kept, NEW c \in Callback, callbacks[c] \in Returned, CallbackGood(c)
    PROVE  /\ FromAsk(callbacks[c].sid, callbacks[c].session)'
           /\ callbacks'[c].session.verifier # NoVerifier
           /\ OnPath(callbacks[c].session, callbacks[c].idp)'
           /\ authns'[callbacks'[c].authn] \in Authentication
<1>1. /\ callbacks[c].sid \in Authorize
      /\ callbacks[c].session \in Session
      /\ callbacks'[c].sid = callbacks[c].sid
      /\ callbacks'[c].session = callbacks[c].session
      /\ callbacks'[c].idp = callbacks[c].idp
  BY DEF Returned, Kept
<1>2. ASSUME NEW a \in Authorize, NEW session \in Session, a = callbacks[c].sid,
             session = callbacks[c].session
      PROVE  FromAsk(callbacks[c].sid, callbacks[c].session)'
  <2>1. FromAsk(a, session)'
    BY <1>2, CopiesLast DEF CallbackGood
  <2> QED
    BY <1>1, <1>2, <2>1 DEF FromAsk
<1> QED
  BY <1>1, <1>2, ProofsLast DEF CallbackGood, OnPath

\* What is left to show of a callback's step.
LEMMA CallbackRest ==
    ASSUME TypeOK, Kept, NEW c \in Callback, callbacks[c] \in Returned, CallbackGood(c),
           Past(c)' => Proven(c), PurposeGood(c)', FoundGood(c)', EventGood(c)'
    PROVE  CallbackGood(c)'
<1>1. Past(c)' => Proven(c)'
  BY ProofsLast DEF CallbackGood
<1> QED
  BY <1>1, CallbackFrame DEF CallbackGood

LEMMA ArriveGood ==
    ASSUME TypeOK, TypeOK', Good, Kept, NEW c \in Callback, Arrives(c)
    PROVE  CallbackGood(c)'
<1>1. ASSUME NEW a \in Authorize, NEW idp \in Idp, NEW n \in Authn, CallbackGet(c, a, idp, n)
      PROVE  CallbackGood(c)'
  <2>1. callbacks'[c] = [pc |-> "verify", sid |-> a, idp |-> idp, authn |-> n,
                         session |-> sessions[a], user |-> NoUser, event |-> "none"]
    BY <1>1 DEF CallbackGet, TypeOK, FlowTypeOK
  <2>2. ~ Past(c)' /\ PurposeGood(c)' /\ FoundGood(c)' /\ EventGood(c)'
    BY <2>1 DEF Past, PurposeGood, FoundGood, EventGood, Success
  <2>3. /\ callbacks'[c].session.verifier # NoVerifier
        /\ OnPath(callbacks[c].session, callbacks[c].idp)'
        /\ authns'[callbacks'[c].authn] \in Authentication
    BY <1>1, <2>1 DEF CallbackGet, OnPath, TypeOK, FlowTypeOK
  <2>4. ASSUME NEW session \in Session, session = sessions[a], FromAsk(a, session)
        PROVE  FromAsk(callbacks[c].sid, callbacks[c].session)'
    BY <2>1, <2>4, CopiesLast DEF FromAsk
  <2>5. sessions[a] \in Session /\ FromAsk(a, sessions[a])
    BY <1>1 DEF CallbackGet, Good, SessionGood, TypeOK, FlowTypeOK
  <2> QED
    BY <2>2, <2>3, <2>4, <2>5 DEF CallbackGood
<1>2. ASSUME NEW a \in Authorize, NEW idp \in Idp, Cancel(c, a, idp)
      PROVE  CallbackGood(c)'
  <2>1. callbacks'[c] = Cancelled
    BY <1>2 DEF Cancel, TypeOK, FlowTypeOK
  <2> QED
    BY <2>1 DEF CallbackGood, Cancelled, Returned
<1> QED
  BY <1>1, <1>2 DEF Arrives

\* A row that was found belongs to the user it named, then and later.
LEMMA FoundLasts ==
    ASSUME TypeOK, Kept, NEW c \in Callback, callbacks[c] \in Returned,
           authns[callbacks[c].authn] \in Authentication,
           callbacks'[c].user \in User,
           L!Bound(identities, VerifiedKey(c), callbacks'[c].user)
    PROVE  L!Bound(identities, VerifiedKey(c), callbacks[c].user)'
<1>1. L!Bound(identities', VerifiedKey(c), callbacks'[c].user)
  BY ProofsLast DEF Kept
<1> QED
  BY <1>1, ProofsLast DEF L!Bound

LEMMA CallbackStays ==
    ASSUME TypeOK, Kept, NEW c \in Callback, CallbackGood(c), callbacks'[c] = callbacks[c]
    PROVE  CallbackGood(c)'
<1>1. CASE callbacks[c] \in Returned
  <2>1. Past(c)' => Proven(c)
    BY <1>1 DEF CallbackGood, Past
  <2>2. links[c] \in L!Call => links'[c] \in L!Call
    BY DEF Kept, Linker
  <2>3. PurposeGood(c)'
    BY <1>1, <2>2 DEF CallbackGood, PurposeGood
  <2>4. FoundGood(c)'
    BY <1>1, FoundLasts DEF CallbackGood, FoundGood
  <2>5. EventGood(c)'
    BY <1>1, ProofsLast DEF CallbackGood, EventGood
  <2> QED
    BY <1>1, <2>1, <2>3, <2>4, <2>5, CallbackRest
<1> QED
  BY <1>1 DEF CallbackGood

\* Verify proves the session's identity, and starts link() for it.
LEMMA VerifyGood ==
    ASSUME TypeOK, TypeOK', Good, Kept, NEW c \in Callback, Verify(c)
    PROVE  CallbackGood(c)'
<1>1. callbacks[c] \in Returned /\ CallbackGood(c)
  BY MoveEffect DEF Moves, Good
<1>2. /\ authns[callbacks[c].authn] \in Authentication
      /\ callbacks[c].authn \in Authn
      /\ callbacks'[c].authn = callbacks[c].authn
      /\ callbacks'[c].idp = callbacks[c].idp
      /\ callbacks'[c].sid = callbacks[c].sid
      /\ callbacks'[c].session = callbacks[c].session
  BY <1>1 DEF CallbackGood, Returned, Kept
<1>3. authns'[callbacks[c].authn] = [authns[callbacks[c].authn] EXCEPT !.redeemed = TRUE]
  BY <1>2 DEF Verify, TypeOK, FlowTypeOK
<1>4. Proven(c)'
  <2>1. PICK authn \in Authentication : authn = authns[callbacks[c].authn]
    BY <1>2
  <2>2. /\ authn.idp = callbacks[c].idp
        /\ authn.nonce = callbacks[c].sid
        /\ authn.idp \in PkceIdps => callbacks[c].session.verifier = authn.challenge
    BY <2>1 DEF Verify, Accepted
  <2>3. authns'[callbacks'[c].authn] = [authn EXCEPT !.redeemed = TRUE]
    BY <1>2, <1>3, <2>1
  <2> QED
    BY <1>2, <2>2, <2>3 DEF Proven, Authentication
<1>5. callbacks'[c] = [callbacks[c] EXCEPT !.pc =
                          IF callbacks[c].session.purpose = "link" THEN "link" ELSE "find"]
  BY DEF Verify, TypeOK, FlowTypeOK
<1>6. callbacks[c].session.purpose = "link" => links'[c] \in L!Call
  BY DEF Verify, L!Begin, L!Idle, TypeOK, L!TypeOK, Linker
<1>7. /\ callbacks'[c].session = callbacks[c].session
      /\ callbacks'[c].event = "none"
      /\ callbacks'[c].pc =
             IF callbacks[c].session.purpose = "link" THEN "link" ELSE "find"
  BY <1>1, <1>5 DEF Returned, Verify, CallbackGood, EventGood
<1>8. PurposeGood(c)' /\ FoundGood(c)' /\ EventGood(c)'
  BY <1>6, <1>7 DEF PurposeGood, FoundGood, EventGood, Success
<1> QED
  BY <1>1, <1>4, <1>8, CallbackFrame DEF CallbackGood

\* A row that was found is the verified identity's.
LEMMA FindGood ==
    ASSUME TypeOK, Good, Kept, NEW c \in Callback, Find(c), callbacks[c] \in Returned
    PROVE  CallbackGood(c)'
<1>1. CallbackGood(c) /\ Proven(c)
  BY DEF Good, CallbackGood, Find, Past
<1>2. VerifiedKey(c) \in Key
  BY <1>1, VerifiedIsKey
<1>3. PICK pc, user :
          /\ callbacks'[c] = [callbacks[c] EXCEPT !.user = user, !.pc = pc]
          /\ user = IF identities[VerifiedKey(c)] = NoRow
                      THEN NoUser ELSE identities[VerifiedKey(c)].user
          /\ pc = IF callbacks[c].session.purpose = "registration" THEN "register"
                  ELSE IF user = NoUser THEN "unknown" ELSE "spend"
  BY DEF Find, TypeOK, FlowTypeOK
<1>4. /\ callbacks'[c].pc = pc
      /\ callbacks'[c].user = user
      /\ callbacks'[c].event = "none"
      /\ callbacks'[c].session = callbacks[c].session
      /\ callbacks[c].session.purpose # "link"
  <2>1. callbacks[c].event = "none" /\ callbacks[c].session.purpose # "link"
    BY <1>1 DEF Find, CallbackGood, EventGood, PurposeGood
  <2> QED
    BY <1>3, <2>1 DEF Returned
<1>5. pc = "spend" => user \in User /\ L!Bound(identities, VerifiedKey(c), user)
  BY <1>2, <1>3 DEF L!Bound, TypeOK, L!TypeOK, L!Table, L!Row
<1>6. FoundGood(c)'
  BY <1>1, <1>3, <1>4, <1>5, FoundLasts DEF CallbackGood, FoundGood
<1>7. PurposeGood(c)' /\ EventGood(c)'
  BY <1>3, <1>4 DEF PurposeGood, EventGood, Success
<1> QED
  BY <1>1, <1>6, <1>7, CallbackRest

\* link() has answered for the session's user and the verified identity.
LEMMA LinkAnsweredGood ==
    ASSUME TypeOK, Good, Kept, NEW c \in Callback, LinkAnswered(c), callbacks[c] \in Returned
    PROVE  CallbackGood(c)'
<1>1. CallbackGood(c) /\ LinkGood(c) /\ Proven(c)
  BY DEF Good, CallbackGood, LinkAnswered, Past
<1>2. links[c] \in L!Call /\ callbacks[c].session.purpose = "link"
  BY <1>1 DEF CallbackGood, PurposeGood, LinkAnswered
<1>3. links[c].pc = "ok" =>
          /\ callbacks[c].session.linkUser \in User
          /\ L!Bound(identities, VerifiedKey(c), callbacks[c].session.linkUser)
  BY <1>1, <1>2 DEF LinkGood, Good, RowGood, Linker, L!Call
<1>4. \/ /\ links[c].pc = "ok"
         /\ callbacks'[c] = [callbacks[c] EXCEPT !.pc = "code",
                                !.user = callbacks[c].session.linkUser,
                                !.event = "link.succeeded"]
      \/ callbacks'[c] = [callbacks[c] EXCEPT !.pc = "refused",
                             !.user = callbacks[c].session.linkUser,
                             !.event = "link.already_linked"]
  BY DEF LinkAnswered, TypeOK, FlowTypeOK
<1>5. /\ callbacks'[c].user = callbacks[c].session.linkUser
      /\ callbacks'[c].session = callbacks[c].session
      /\ \/ /\ links[c].pc = "ok"
            /\ callbacks'[c].pc = "code"
            /\ callbacks'[c].event = "link.succeeded"
         \/ /\ callbacks'[c].pc = "refused"
            /\ callbacks'[c].event = "link.already_linked"
  BY <1>4 DEF Returned
<1>6. FoundGood(c)'
  BY <1>1, <1>3, <1>5, FoundLasts DEF CallbackGood, FoundGood
<1>7. PurposeGood(c)'
  BY <1>2, <1>5 DEF PurposeGood
<1>8. EventGood(c)'
  BY <1>1, <1>2, <1>5, ProofsLast DEF EventGood, Success, CallbackGood
<1> QED
  BY <1>1, <1>6, <1>7, <1>8, CallbackRest

\* The other steps move on, or fail, and may report what they did.
LEMMA OtherMoveGood ==
    ASSUME TypeOK, Good, Kept, NEW c \in Callback, callbacks[c] \in Returned,
           \/ VerifyFail(c) \/ Register(c) \/ StoreTicket(c) \/ ReportTicket(c)
           \/ RefuseUnknown(c) \/ CreateChallenge(c) \/ SpendSession(c)
           \/ IssueCode(c) \/ AbortCallback(c)
    PROVE  CallbackGood(c)'
<1>1. CallbackGood(c) /\ (Past(c) => Proven(c))
  BY DEF Good, CallbackGood
<1>2. PICK pc, event : callbacks'[c] = [callbacks[c] EXCEPT !.pc = pc, !.event = event]
  <2>1. CASE ReportTicket(c) \/ RefuseUnknown(c) \/ CreateChallenge(c)
    <3>1. \/ callbacks'[c] = [callbacks[c] EXCEPT !.pc = "done",
                                                  !.event = "registration.ticket_issued"]
          \/ callbacks'[c] = [callbacks[c] EXCEPT !.pc = "refused",
                                                  !.event = "oauth.identity_not_linked"]
          \/ callbacks'[c] = [callbacks[c] EXCEPT !.pc = "delete",
                                                  !.event = "oauth.callback_succeeded"]
      BY <2>1 DEF ReportTicket, RefuseUnknown, CreateChallenge, TypeOK, FlowTypeOK
    <3> QED
      BY <3>1
  <2>2. CASE Register(c)
    <3>1. \/ callbacks'[c] = [callbacks[c] EXCEPT !.pc = "ticket",
                                                  !.event = callbacks[c].event]
          \/ callbacks'[c] = [callbacks[c] EXCEPT !.pc = "refused",
                                 !.event = "registration.already_registered"]
      BY <2>2 DEF Register, Returned, TypeOK, FlowTypeOK
    <3> QED
      BY <3>1
  <2>3. CASE StoreTicket(c) \/ SpendSession(c) \/ IssueCode(c) \/ AbortCallback(c)
    <3>1. \E pc : callbacks'[c] = [callbacks[c] EXCEPT !.pc = pc]
      BY <2>3
      DEF StoreTicket, SpendSession, IssueCode, AbortCallback, TypeOK, FlowTypeOK
    <3>2. PICK pc : callbacks'[c] = [callbacks[c] EXCEPT !.pc = pc]
      BY <3>1
    <3>3. callbacks'[c] = [callbacks[c] EXCEPT !.pc = pc, !.event = callbacks[c].event]
      BY <3>2 DEF Returned
    <3> QED
      BY <3>3
  <2>4. CASE VerifyFail(c)
    <3>1. PICK event : callbacks' = [callbacks EXCEPT ![c].pc = "failed", ![c].event = event]
      BY <2>4 DEF VerifyFail
    <3> QED
      BY <3>1 DEF TypeOK, FlowTypeOK
  <2> QED
    BY <2>1, <2>2, <2>3, <2>4
<1>3. /\ callbacks'[c].pc = pc
      /\ callbacks'[c].event = event
      /\ callbacks'[c].user = callbacks[c].user
      /\ callbacks'[c].session = callbacks[c].session
  BY <1>2 DEF Returned
<1>4. CASE VerifyFail(c)
  <2>1. callbacks'[c].pc = "failed" /\ callbacks'[c].event \notin Success
    <3>1. PICK e \in FailureEvents(callbacks[c].idp) :
              callbacks' = [callbacks EXCEPT ![c].pc = "failed", ![c].event = e]
      BY <1>4 DEF VerifyFail
    <3>2. e \notin Success
      BY DEF FailureEvents, Success
    <3> QED
      BY <3>1, <3>2 DEF Returned, TypeOK, FlowTypeOK
  <2>2. ~ Past(c)' /\ PurposeGood(c)' /\ FoundGood(c)' /\ EventGood(c)'
    BY <2>1 DEF Past, PurposeGood, FoundGood, EventGood, Success
  <2> QED
    BY <1>1, <2>2, CallbackRest
<1>5. CASE Register(c)
  <2>1. /\ callbacks[c].session.purpose = "registration"
        /\ callbacks[c].event = "none"
        /\ Proven(c)
    BY <1>1, <1>5 DEF Register, CallbackGood, PurposeGood, EventGood, Past
  <2>2. \/ callbacks'[c].pc = "ticket" /\ callbacks'[c].event = "none"
        \/ /\ callbacks'[c].pc = "refused"
           /\ callbacks'[c].event = "registration.already_registered"
    BY <1>5, <2>1 DEF Register, Returned, TypeOK, FlowTypeOK
  <2>3. PurposeGood(c)' /\ FoundGood(c)' /\ EventGood(c)'
    BY <1>3, <2>1, <2>2 DEF PurposeGood, FoundGood, EventGood, Success
  <2> QED
    BY <1>1, <2>1, <2>3, CallbackRest
<1>6. CASE StoreTicket(c) \/ ReportTicket(c)
  <2>1. callbacks[c].session.purpose = "registration" /\ Proven(c)
    BY <1>1, <1>6 DEF StoreTicket, ReportTicket, CallbackGood, PurposeGood, Past
  <2>2. \/ callbacks'[c].pc = "report" /\ callbacks'[c].event = "none"
        \/ /\ callbacks'[c].pc = "done"
           /\ callbacks'[c].event = "registration.ticket_issued"
    BY <1>1, <1>6
    DEF StoreTicket, ReportTicket, CallbackGood, EventGood, Returned, TypeOK, FlowTypeOK
  <2>3. PurposeGood(c)' /\ FoundGood(c)'
    BY <1>3, <2>1, <2>2 DEF PurposeGood, FoundGood
  <2>4. EventGood(c)'
    BY <1>1, <2>1, <2>2, ProofsLast DEF EventGood, CallbackGood, Success
  <2> QED
    BY <1>1, <2>1, <2>3, <2>4, CallbackRest
<1>7. CASE RefuseUnknown(c)
  <2>1. Proven(c)
    BY <1>1, <1>7 DEF RefuseUnknown, Past
  <2>2. /\ callbacks'[c].pc = "refused"
        /\ callbacks'[c].event = "oauth.identity_not_linked"
    BY <1>7 DEF RefuseUnknown, Returned, TypeOK, FlowTypeOK
  <2>3. PurposeGood(c)' /\ FoundGood(c)' /\ EventGood(c)'
    BY <2>2 DEF PurposeGood, FoundGood, EventGood, Success
  <2> QED
    BY <1>1, <2>1, <2>3, CallbackRest
<1>8. CASE CreateChallenge(c)
  <2>1. /\ callbacks[c].session.purpose \notin {"link", "registration"}
        /\ callbacks[c].user \in User
        /\ L!Bound(identities, VerifiedKey(c), callbacks[c].user)
        /\ Proven(c)
    BY <1>1, <1>8 DEF CreateChallenge, CallbackGood, PurposeGood, FoundGood, Past
  <2>2. /\ callbacks'[c].pc = "delete"
        /\ callbacks'[c].event = "oauth.callback_succeeded"
    BY <1>8 DEF CreateChallenge, Returned, TypeOK, FlowTypeOK
  <2>3. FoundGood(c)'
    BY <1>1, <1>3, <2>1, FoundLasts DEF CallbackGood, FoundGood
  <2>4. EventGood(c)' /\ PurposeGood(c)'
    BY <1>1, <1>3, <2>1, <2>2, ProofsLast DEF EventGood, PurposeGood, CallbackGood
  <2> QED
    BY <1>1, <2>1, <2>3, <2>4, CallbackRest
<1>9. CASE SpendSession(c) \/ IssueCode(c) \/ AbortCallback(c)
  <2>1. /\ callbacks'[c].event = callbacks[c].event
        /\ \/ callbacks[c].pc = "delete" /\ callbacks'[c].pc = "code"
           \/ callbacks[c].pc = "code" /\ callbacks'[c].pc = "done"
           \/ callbacks'[c].pc = "failed"
    BY <1>9 DEF SpendSession, IssueCode, AbortCallback, Returned, TypeOK, FlowTypeOK
  <2>2. Past(c)' => Proven(c)
    BY <1>1, <2>1 DEF Past
  <2>3. PurposeGood(c)'
    BY <1>1, <1>3, <2>1 DEF CallbackGood, PurposeGood
  <2>4. FoundGood(c)'
    BY <1>1, <1>3, <2>1, FoundLasts DEF CallbackGood, FoundGood
  <2>5. EventGood(c)'
    BY <1>1, <1>3, <2>1, ProofsLast DEF CallbackGood, EventGood
  <2> QED
    BY <1>1, <2>2, <2>3, <2>4, <2>5, CallbackRest
<1> QED
  BY <1>4, <1>5, <1>6, <1>7, <1>8, <1>9

LEMMA CallbackStepGood ==
    ASSUME TypeOK, TypeOK', Good, Kept, [Next]_vars, NEW c \in Callback
    PROVE  CallbackGood(c)'
<1>1. CallbackGood(c)
  BY DEF Good
<1>2. ASSUME Moves(c)
      PROVE  CallbackGood(c)'
  BY <1>2, MoveEffect, VerifyGood, FindGood, LinkAnsweredGood, OtherMoveGood DEF Moves
<1>3. ASSUME NEW d \in Callback, d # c, Moves(d) \/ Arrives(d)
      PROVE  CallbackGood(c)'
  BY <1>1, <1>3, OtherCallbacks, CallbackStays
<1>4. CASE callbacks' = callbacks
  BY <1>1, <1>4, CallbackStays
<1> QED
  BY <1>2, <1>3, <1>4, ArriveGood, CallbackSteps, Writers

----------------------------------------------------------------------------
(* Link calls, grants, exchanges and tokens                                *)

\* Only its callback's Verify starts the link() call of a callback.
LEMMA LinkStarts ==
    ASSUME TypeOK, [Next]_vars, NEW c \in Callback, links[c] \notin L!Call
    PROVE  links'[c] = links[c] \/ Verify(c)
<1> USE DEF TypeOK, L!TypeOK, Linker
<1>1. ASSUME NEW d \in Callback \ {c}, Verify(d)
      PROVE  links'[c] = links[c]
  BY <1>1 DEF Verify, L!Begin
<1>2. ASSUME Flow, ~ \E d \in Callback : Verify(d)
      PROVE  links' = links
  BY <1>2
  DEF Flow, FlowNext, AuthorizeStep, Approve, CreateSession, AbortAuthorize, ExpireSession,
      StartStep, StartGet, StartUpdate, StartDrop, AbortStart, Authenticate,
      CallbackStep, CallbackGet, Cancel, VerifyFail, Find, Register, StoreTicket, ReportTicket,
      RefuseUnknown, CreateChallenge, SpendSession, LinkAnswered, IssueCode, AbortCallback
<1>3. ASSUME NEW m \in Linker, L!Step(m)
      PROVE  links'[c] = links[c]
  BY <1>3, StatementEffect
<1>4. ASSUME NEW m \in Django, NEW t \in tokens, NEW u \in User, DjangoLink(m, t, u)
      PROVE  links'[c] = links[c]
  BY <1>4, FlowAssumption DEF DjangoLink, L!Begin
<1>5. CASE Redemptions \/ (\E k \in Key : Revoke(k)) \/ UNCHANGED vars
  BY <1>5 DEF Redemptions, Revoke, L!Revoke, vars, flowVars
<1> QED
  BY <1>1, <1>2, <1>3, <1>4, <1>5 DEF Next, LinkStatement

LEMMA LinkStepGood ==
    ASSUME TypeOK, TypeOK', Good, Kept, [Next]_vars, NEW c \in Callback, CallbackGood(c)'
    PROVE  LinkGood(c)'
<1>1. CallbackGood(c) /\ LinkGood(c)
  BY DEF Good
<1>2. CASE links[c] \in L!Call
  <2>1. /\ callbacks[c] \in Returned
        /\ authns[callbacks[c].authn] \in Authentication
    BY <1>1, <1>2 DEF LinkGood, CallbackGood
  <2>2. /\ links'[c].key = links[c].key
        /\ links'[c].user = links[c].user
        /\ callbacks'[c] \in Returned
        /\ callbacks'[c].session = callbacks[c].session
    BY <1>2, <2>1 DEF Kept, Linker
  <2> QED
    BY <1>1, <1>2, <2>1, <2>2, ProofsLast DEF LinkGood
<1>3. CASE links[c] \notin L!Call /\ links'[c] = links[c]
  BY <1>3 DEF LinkGood
<1>4. CASE links[c] \notin L!Call /\ Verify(c) /\ links'[c] \in L!Call
  <2>1. /\ callbacks[c] \in Returned
        /\ callbacks[c].pc = "verify"
        /\ authns[callbacks[c].authn] \in Authentication
    BY <1>1, <1>4, CallbackTypes DEF CallbackGood, Verify
  <2>2. callbacks[c].session.purpose = "link"
    BY <1>4 DEF Verify
  <2>3. links'[c] = [pc |-> "select", key |-> VerifiedKey(c),
                     user |-> callbacks[c].session.linkUser]
    BY <1>4, <2>2 DEF Verify, L!Begin, TypeOK, L!TypeOK, Linker
  <2>4. callbacks'[c] = [callbacks[c] EXCEPT !.pc = "link"]
    BY <1>4, <2>2 DEF Verify, TypeOK, FlowTypeOK
  <2>5. /\ callbacks'[c] \in Returned
        /\ callbacks'[c].pc = "link"
        /\ callbacks'[c].session = callbacks[c].session
    BY <2>1, <2>4 DEF Returned
  <2>6. Proven(c)'
    BY <2>5 DEF CallbackGood, Past
  <2> QED
    BY <2>1, <2>2, <2>3, <2>5, <2>6, ProofsLast DEF LinkGood
<1> QED
  BY <1>2, <1>3, <1>4, LinkStarts DEF LinkGood

\* A statement of link() that reports a row has seen or written it.
LEMMA RowStep ==
    ASSUME TypeOK, Good, Kept, [Next]_vars, NEW l \in Linker
    PROVE  RowGood(l)'
<1>1. RowGood(l) /\ links \in [Linker -> {L!Idle} \cup L!Call]
  BY DEF Good, TypeOK, L!TypeOK
<1>2. CASE links'[l] = links[l]
  <2>1. SUFFICES ASSUME links[l].pc \in {"update", "ok"}
                 PROVE  L!Bound(identities', links[l].key, links[l].user)
    BY <1>2 DEF RowGood, L!Bound
  <2>2. links[l].key \in Key /\ links[l].user \in User
    BY <1>1, <2>1 DEF L!Call, L!Idle
  <2> QED
    BY <1>1, <2>1, <2>2 DEF RowGood, Kept
<1>3. CASE L!Step(l)
  <2>1. /\ links[l] \in L!Call
        /\ links[l].key \in Key
        /\ links[l].user \in User
        /\ links'[l].key = links[l].key
        /\ links'[l].user = links[l].user
    BY <1>3, StatementEffect DEF TypeOK, L!Call
  <2>2. L!Bound(identities, links[l].key, links[l].user)
            => L!Bound(identities', links[l].key, links[l].user)
    BY <2>1 DEF Kept
  <2>3. SUFFICES ASSUME links'[l].pc \in {"update", "ok"}
                 PROVE  L!Bound(identities', links[l].key, links[l].user)
    BY <2>1 DEF RowGood, L!Bound
  <2>4. CASE L!Select(l)
    <3>1. links'[l].pc \in {L!AfterSelect(identities, links[l].key, links[l].user), "refused"}
      BY <1>1, <2>1, <2>4 DEF L!Select, L!Call
    <3>2. L!AfterSelect(identities, links[l].key, links[l].user) \in {"update", "ok"}
      BY <2>3, <3>1
    <3>3. L!Bound(identities, links[l].key, links[l].user)
      BY <3>2 DEF L!AfterSelect
    <3> QED
      BY <2>2, <3>3
  <2>5. CASE L!Update(l)
    BY <1>1, <2>2, <2>5 DEF L!Update, RowGood
  <2>6. CASE L!Insert(l) \/ L!LoseReply(l)
    <3>1. \/ links'[l].pc # "ok"
          \/ identities' = L!InsertRow(identities, links[l].key, links[l].user)
      BY <1>1, <2>1, <2>6 DEF L!Insert, L!LoseReply, L!Call
    <3>2. links'[l].pc # "update"
      BY <1>1, <2>1, <2>6 DEF L!Insert, L!LoseReply, L!Call
    <3>3. identities \in [Key -> L!Row \cup {NoRow}]
          /\ [user |-> links[l].user, status |-> "active"] \in L!Row
      BY <2>1 DEF TypeOK, L!TypeOK, L!Table, L!Row
    <3> QED
      BY <2>1, <2>3, <3>1, <3>2, <3>3, FlowAssumption DEF L!InsertRow, L!Bound
  <2>7. CASE L!Fail(l)
    BY <1>1, <2>1, <2>3, <2>7 DEF L!Fail, L!Call
  <2> QED
    BY <1>3, <2>4, <2>5, <2>6, <2>7 DEF L!Step
<1>4. ASSUME NEW m \in Linker \ {l}, L!Step(m)
      PROVE  links'[l] = links[l]
  BY <1>4, StatementEffect DEF TypeOK
<1>5. ASSUME NEW m \in Linker, NEW k, NEW u, L!Begin(m, k, u)
      PROVE  links'[l] = links[l] \/ links'[l].pc = "select"
  BY <1>1, <1>5 DEF L!Begin
<1>6. ASSUME Flow
      PROVE  links'[l] = links[l] \/ links'[l].pc = "select"
  <2>1. ASSUME NEW c \in Callback, Verify(c)
        PROVE  links'[l] = links[l] \/ links'[l].pc = "select"
    BY <1>5, <2>1 DEF Verify, Linker
  <2> QED
    BY <1>6, <2>1
    DEF Flow, FlowNext, AuthorizeStep, Approve, CreateSession, AbortAuthorize, ExpireSession,
        StartStep, StartGet, StartUpdate, StartDrop, AbortStart, Authenticate,
        CallbackStep, CallbackGet, Cancel, VerifyFail, Find, Register, StoreTicket,
        ReportTicket, RefuseUnknown, CreateChallenge, SpendSession, LinkAnswered,
        IssueCode, AbortCallback
<1>7. ASSUME NEW m \in Django, NEW t \in tokens, NEW u \in User, DjangoLink(m, t, u)
      PROVE  links'[l] = links[l] \/ links'[l].pc = "select"
  BY <1>5, <1>7 DEF DjangoLink, Linker
<1>8. CASE Redemptions \/ (\E k \in Key : Revoke(k)) \/ UNCHANGED vars
  BY <1>2, <1>8 DEF Redemptions, Revoke, L!Revoke, vars, flowVars
<1>9. CASE links'[l].pc = "select"
  BY <1>9 DEF RowGood
<1> QED
  BY <1>2, <1>3, <1>4, <1>6, <1>7, <1>8, <1>9 DEF Next, LinkStatement

\* What a callback has put into Redis stays what that callback is about.
LEMMA PayloadsLast ==
    ASSUME TypeOK, Good, Kept, NEW c \in Callback, NEW payload, PayloadOf(payload, c)
    PROVE  PayloadOf(payload, c)'
<1>1. callbacks[c] \in Returned /\ Proven(c)
  BY DEF PayloadOf
<1>2. /\ VerifiedKey(c)' = VerifiedKey(c)
      /\ Proven(c)'
  BY <1>1, ProofsLast DEF Good, CallbackGood
<1>3. CASE callbacks'[c] = callbacks[c]
  BY <1>2, <1>3 DEF PayloadOf, AuthorizationCode, RegistrationTicket
<1>4. CASE callbacks[c].pc = "report" /\ callbacks'[c] # callbacks[c]
  <2>1. /\ payload = RegistrationTicket(c)
        /\ callbacks[c].session.purpose = "registration"
        /\ callbacks[c].event = "none"
    BY <1>4 DEF PayloadOf
  <2>2. /\ callbacks'[c] \in Returned
        /\ callbacks'[c].session = callbacks[c].session
        /\ callbacks'[c].idp = callbacks[c].idp
    BY <1>1 DEF Kept
  <2>3. RegistrationTicket(c)' = RegistrationTicket(c)
    BY <1>2, <2>2 DEF RegistrationTicket
  <2>4. \/ callbacks'[c] = [callbacks[c] EXCEPT !.pc = "failed"]
        \/ callbacks'[c] = [callbacks[c] EXCEPT !.pc = "done",
                                                !.event = "registration.ticket_issued"]
    BY <1>4 DEF Kept
  <2>5. \/ callbacks'[c].pc = "failed" /\ callbacks'[c].event = "none"
        \/ /\ callbacks'[c].pc = "done"
           /\ callbacks'[c].event = "registration.ticket_issued"
    BY <1>1, <2>1, <2>4 DEF Returned
  <2> QED
    BY <1>2, <2>1, <2>2, <2>3, <2>5 DEF PayloadOf
<1>5. callbacks[c].pc \in {"done", "failed", "report"}
  BY DEF PayloadOf
<1> QED
  BY <1>3, <1>4, <1>5 DEF Kept

\* What a step may have done to the place of a callback's grant.
LEMMA GrantEffect ==
    ASSUME TypeOK, [Next]_vars, NEW c \in Callback
    PROVE  \/ grants'[c] = grants[c]
           \/ StoreTicket(c) /\ grants'[c] = RegistrationTicket(c)
           \/ IssueCode(c) /\ grants'[c] = AuthorizationCode(c)
           \/ grants[c] \in R!Payload /\ grants'[c] = Spent
<1>1. grants = [d \in Callback |-> grants[d]]
  BY DEF TypeOK, R!TypeOK
<1>2. ASSUME NEW d \in Callback \ {c}, Moves(d) \/ Arrives(d)
      PROVE  grants'[c] = grants[c]
  BY <1>2, OtherCallbacks
<1>3. ASSUME Moves(c) \/ Arrives(c), ~ StoreTicket(c), ~ IssueCode(c)
      PROVE  grants' = grants
  BY <1>3
  DEF Moves, Arrives, CallbackGet, Cancel, Verify, VerifyFail, Find, Register,
      ReportTicket, RefuseUnknown, CreateChallenge, SpendSession, LinkAnswered, AbortCallback
<1>4. CASE StoreTicket(c)
  BY <1>1, <1>4 DEF StoreTicket
<1>5. CASE IssueCode(c)
  BY <1>1, <1>5 DEF IssueCode
<1>6. CASE Redemptions
  BY <1>1, <1>6
  DEF Redemptions, R!ExpireGrant, R!Redeem, R!Redeemable, R!Consume, R!Lookup, R!Sign, R!Abort
<1> QED
  BY <1>2, <1>3, <1>4, <1>5, <1>6, CallbackSteps, Writers

LEMMA GrantStepGood ==
    ASSUME TypeOK, TypeOK', Good, Kept, [Next]_vars, NEW c \in Callback
    PROVE  GrantGood(c)'
<1>1. GrantGood(c) /\ CallbackGood(c)
  BY DEF Good
<1>2. ASSUME grants[c] # Unissued
      PROVE  /\ callbacks'[c] \in Returned
             /\ callbacks'[c].pc \in {"report", "done", "failed"}
  <2>1. callbacks[c] \in Returned /\ callbacks[c].pc \in {"report", "done", "failed"}
    BY <1>1, <1>2 DEF GrantGood
  <2>2. callbacks'[c] \in Returned
    BY <2>1 DEF Kept
  <2>3. CASE callbacks[c].pc = "report"
    <3>1. \/ callbacks'[c] = callbacks[c]
          \/ callbacks'[c] = [callbacks[c] EXCEPT !.pc = "failed"]
          \/ callbacks'[c] = [callbacks[c] EXCEPT !.pc = "done",
                                                  !.event = "registration.ticket_issued"]
      BY <2>3 DEF Kept
    <3> QED
      BY <2>1, <2>2, <2>3, <3>1 DEF Returned
  <2> QED
    BY <2>1, <2>2, <2>3 DEF Kept
<1>3. CASE grants'[c] = grants[c]
  <2>1. ASSUME NEW payload, payload = grants[c], grants[c] \in R!Payload
        PROVE  PayloadOf(grants[c], c)'
    <3>1. PayloadOf(payload, c)'
      BY <1>1, <2>1, PayloadsLast DEF GrantGood
    <3> QED
      BY <1>3, <2>1, <3>1 DEF PayloadOf
  <2> QED
    BY <1>2, <1>3, <2>1 DEF GrantGood
<1>4. CASE StoreTicket(c) /\ grants'[c] = RegistrationTicket(c)
  <2>1. callbacks[c] \in Returned /\ callbacks[c].pc = "ticket"
    BY <1>4, CallbackTypes DEF StoreTicket
  <2>2. /\ callbacks[c].session.purpose = "registration"
        /\ callbacks[c].event = "none"
        /\ Proven(c)
        /\ authns[callbacks[c].authn] \in Authentication
    BY <1>1, <2>1 DEF CallbackGood, PurposeGood, EventGood, Past
  <2>3. callbacks'[c] = [callbacks[c] EXCEPT !.pc = "report"]
    BY <1>4 DEF StoreTicket, TypeOK, FlowTypeOK
  <2>4. /\ callbacks'[c] \in Returned
        /\ callbacks'[c].pc = "report"
        /\ callbacks'[c].event = callbacks[c].event
        /\ callbacks'[c].session = callbacks[c].session
        /\ callbacks'[c].idp = callbacks[c].idp
    BY <2>1, <2>3 DEF Returned
  <2>5. RegistrationTicket(c)' = RegistrationTicket(c) /\ Proven(c)'
    BY <2>1, <2>2, <2>4, ProofsLast DEF RegistrationTicket
  <2> QED
    BY <1>4, <2>2, <2>4, <2>5 DEF GrantGood, PayloadOf
<1>5. CASE IssueCode(c) /\ grants'[c] = AuthorizationCode(c)
  <2>1. callbacks[c] \in Returned /\ callbacks[c].pc = "code"
    BY <1>5, CallbackTypes DEF IssueCode
  <2>2. /\ callbacks[c].session.purpose # "registration"
        /\ callbacks[c].session.purpose = "link" =>
               callbacks[c].user = callbacks[c].session.linkUser
        /\ callbacks[c].event \in {"oauth.callback_succeeded", "link.succeeded"}
        /\ Proven(c)
        /\ authns[callbacks[c].authn] \in Authentication
    BY <1>1, <2>1 DEF CallbackGood, PurposeGood, EventGood, Past
  <2>3. PICK pc \in {"done", "failed"} : callbacks'[c] = [callbacks[c] EXCEPT !.pc = pc]
    BY <1>5 DEF IssueCode, TypeOK, FlowTypeOK
  <2>4. /\ callbacks'[c] \in Returned
        /\ callbacks'[c].pc \in {"done", "failed"}
        /\ callbacks'[c].event = callbacks[c].event
        /\ callbacks'[c].session = callbacks[c].session
        /\ callbacks'[c].user = callbacks[c].user
    BY <2>1, <2>3 DEF Returned
  <2>5. AuthorizationCode(c)' = AuthorizationCode(c) /\ Proven(c)'
    BY <2>1, <2>2, <2>4, ProofsLast DEF AuthorizationCode
  <2> QED
    BY <1>5, <2>2, <2>4, <2>5 DEF GrantGood, PayloadOf
<1>6. CASE grants[c] \in R!Payload /\ grants'[c] = Spent
  BY <1>2, <1>6, ServiceAssumption DEF GrantGood
<1> QED
  BY <1>3, <1>4, <1>5, <1>6, GrantEffect

\* An exchange is about the grant it took, from its first step to its last.
LEMMA ExchangeEffect ==
    ASSUME TypeOK, [Next]_vars, NEW e \in Exchange, exchanges'[e] # R!Idle
    PROVE  \/ /\ exchanges[e] # R!Idle
              /\ exchanges'[e].payload = exchanges[e].payload
              /\ exchanges'[e].grant = exchanges[e].grant
           \/ \E g \in Callback : /\ exchanges[e] = R!Idle
                                  /\ callbacks[g].pc = "done"
                                  /\ grants[g] \in R!Payload
                                  /\ exchanges'[e].payload = grants[g]
                                  /\ exchanges'[e].grant = g
<1>1. exchanges \in [Exchange -> {R!Idle} \cup R!Taken]
  BY DEF TypeOK, R!TypeOK
<1>2. ASSUME NEW d \in Exchange, NEW g \in Callback, NEW kind \in {"code", "ticket"},
             NEW client \in Client, NEW uri \in RedirectUri,
             callbacks[g].pc = "done", R!Redeem(d, g, kind, client, uri)
      PROVE  \/ exchanges'[e] = exchanges[e]
             \/ /\ exchanges[e] = R!Idle
                /\ callbacks[g].pc = "done"
                /\ grants[g] \in R!Payload
                /\ exchanges'[e].payload = grants[g]
                /\ exchanges'[e].grant = g
  BY <1>1, <1>2 DEF R!Redeem, R!Redeemable
<1>3. ASSUME NEW d \in Exchange, R!Lookup(d) \/ R!Sign(d) \/ R!Abort(d)
      PROVE  \/ exchanges'[e] = exchanges[e]
             \/ /\ exchanges[e] # R!Idle
                /\ exchanges'[e].payload = exchanges[e].payload
                /\ exchanges'[e].grant = exchanges[e].grant
  <2>1. CASE d # e
    BY <1>1, <1>3, <2>1 DEF R!Lookup, R!Sign, R!Abort
  <2>2. CASE d = e
    <3>1. exchanges[e] \in R!Taken /\ exchanges[e] # R!Idle
      BY <1>1, <1>3, <2>2 DEF R!Lookup, R!Sign, R!Abort, R!Idle
    <3> QED
      BY <1>1, <1>3, <2>2, <3>1 DEF R!Lookup, R!Sign, R!Abort, R!Taken
  <2> QED
    BY <2>1, <2>2
<1>4. CASE exchanges'[e] = exchanges[e]
  BY <1>4
<1>5. ASSUME NEW g \in Callback, R!ExpireGrant(g)
      PROVE  exchanges' = exchanges
  BY <1>5 DEF R!ExpireGrant
<1> QED
  BY <1>2, <1>3, <1>4, <1>5, Writers DEF Redemptions

\* An exchange that has minted its token is over.
LEMMA MintedStays ==
    ASSUME TypeOK, [Next]_vars, NEW e \in Exchange, exchanges[e].pc = "minted"
    PROVE  exchanges'[e] = exchanges[e]
<1>1. exchanges \in [Exchange -> {R!Idle} \cup R!Taken]
  BY DEF TypeOK, R!TypeOK
<1>2. CASE Redemptions
  BY <1>1, <1>2
  DEF Redemptions, R!ExpireGrant, R!Redeem, R!Lookup, R!Sign, R!Abort, R!Idle
<1> QED
  BY <1>2, Writers

LEMMA ExchangeStepGood ==
    ASSUME TypeOK, Good, Kept, [Next]_vars, NEW e \in Exchange
    PROVE  ExchangeGood(e)'
<1> SUFFICES ASSUME exchanges'[e] # R!Idle
             PROVE  /\ PayloadOf(exchanges[e].payload, exchanges[e].grant)'
                    /\ callbacks'[exchanges'[e].grant].pc = "done"
  BY DEF ExchangeGood, R!Idle
<1>1. ASSUME NEW payload, NEW g \in Callback, PayloadOf(payload, g), callbacks[g].pc = "done",
             exchanges'[e].payload = payload, exchanges'[e].grant = g
      PROVE  /\ PayloadOf(exchanges[e].payload, exchanges[e].grant)'
             /\ callbacks'[exchanges'[e].grant].pc = "done"
  <2>1. PayloadOf(payload, g)'
    BY <1>1, PayloadsLast
  <2>2. PayloadOf(exchanges[e].payload, exchanges[e].grant)'
    BY <1>1, <2>1 DEF PayloadOf, AuthorizationCode, RegistrationTicket, VerifiedKey, Proven
  <2> QED
    BY <1>1, <2>2 DEF Kept
<1>2. CASE /\ exchanges[e] # R!Idle
           /\ exchanges'[e].payload = exchanges[e].payload
           /\ exchanges'[e].grant = exchanges[e].grant
  <2>1. exchanges[e].grant \in Callback
    BY <1>2 DEF TypeOK, R!TypeOK, R!Taken
  <2>2. /\ PayloadOf(exchanges[e].payload, exchanges[e].grant)
        /\ callbacks[exchanges[e].grant].pc = "done"
    BY <1>2 DEF Good, ExchangeGood
  <2> QED
    BY <1>1, <1>2, <2>1, <2>2
<1>3. ASSUME NEW g \in Callback, grants[g] \in R!Payload, callbacks[g].pc = "done",
             exchanges'[e].payload = grants[g], exchanges'[e].grant = g
      PROVE  /\ PayloadOf(exchanges[e].payload, exchanges[e].grant)'
             /\ callbacks'[exchanges'[e].grant].pc = "done"
  BY <1>1, <1>3 DEF Good, GrantGood
<1> QED
  BY <1>2, <1>3, ExchangeEffect

LEMMA TokenStepGood ==
    ASSUME TypeOK, TypeOK', Good, [Next]_vars, NEW t \in tokens'
    PROVE  TokenGood(t)'
<1>1. ASSUME t \in tokens
      PROVE  TokenGood(t)'
  <2>1. TokenGood(t) /\ t.jti \in Exchange
    BY <1>1 DEF Good, TypeOK, R!TypeOK, R!Token
  <2>2. exchanges[t.jti] # R!Idle /\ exchanges[t.jti].pc = "minted"
    BY <2>1 DEF TokenGood, R!Idle
  <2>3. exchanges'[t.jti] = exchanges[t.jti]
    BY <2>1, <2>2, MintedStays
  <2> QED
    BY <2>1, <2>3 DEF TokenGood
<1>2. ASSUME NEW e \in Exchange, R!Sign(e), t = R!TokenFor(e, exchanges[e].payload)
      PROVE  TokenGood(t)'
  <2>1. exchanges[e] \in R!Taken
    BY <1>2 DEF R!Sign, R!Idle, TypeOK, R!TypeOK
  <2>2. exchanges'[e] = [exchanges[e] EXCEPT !.pc = "minted"]
    BY <1>2 DEF R!Sign, TypeOK, R!TypeOK
  <2>3. /\ exchanges'[e] \in R!Taken
        /\ exchanges'[e].pc = "minted"
        /\ exchanges'[e].payload = exchanges[e].payload
    BY <2>1, <2>2 DEF R!Taken
  <2>4. t.jti = e
    BY <1>2 DEF R!TokenFor
  <2> QED
    BY <1>2, <2>3, <2>4 DEF TokenGood
<1>3. ASSUME t \notin tokens
      PROVE  \E e \in Exchange : R!Sign(e) /\ t = R!TokenFor(e, exchanges[e].payload)
  BY <1>3, Writers DEF Redemptions, R!ExpireGrant, R!Redeem, R!Lookup, R!Sign, R!Abort
<1> QED
  BY <1>1, <1>2, <1>3

----------------------------------------------------------------------------
(* The invariant                                                           *)

LEMMA Initially == Init => IInv
<1> SUFFICES ASSUME Init
             PROVE  IInv
  OBVIOUS
<1> USE DEF Init, FlowInit
<1>1. TypeOK
  BY SameTable DEF TypeOK, FlowTypeOK, R!TypeOK, L!TypeOK, L!Init
<1>2. ASSUME NEW a \in Authorize
      PROVE  AskGood(a) /\ SessionGood(a)
  BY DEF AskGood, SessionGood
<1>3. ASSUME NEW s \in Start
      PROVE  StartGood(s)
  BY DEF StartGood
<1>4. ASSUME NEW n \in Authn
      PROVE  AuthnGood(n)
  BY FlowAssumption DEF AuthnGood
<1>5. ASSUME NEW c \in Callback
      PROVE  CallbackGood(c) /\ LinkGood(c) /\ GrantGood(c)
  BY ServiceAssumption
  DEF CallbackGood, LinkGood, GrantGood, Idle, Returned, L!Init, L!Idle, L!Call, Linker
<1>6. ASSUME NEW e \in Exchange
      PROVE  ExchangeGood(e)
  BY DEF ExchangeGood
<1>7. ASSUME NEW l \in Linker
      PROVE  RowGood(l)
  BY DEF RowGood, L!Init, L!Idle
<1> QED
  BY <1>1, <1>2, <1>3, <1>4, <1>5, <1>6, <1>7 DEF IInv, Good

LEMMA Inductive == IInv /\ [Next]_vars => IInv'
<1> SUFFICES ASSUME TypeOK, Good, [Next]_vars
             PROVE  IInv'
  BY DEF IInv
<1>1. TypeOK' /\ Kept
  BY TypeStep, KeptStep
<1>2. \A a \in Authorize : AskGood(a)' /\ SessionGood(a)'
  BY <1>1, AskStep, SessionStep
<1>3. /\ \A s \in Start : StartGood(s)'
      /\ \A n \in Authn : AuthnGood(n)'
  BY <1>1, StartStepGood, AuthnStepGood
<1>4. \A c \in Callback : CallbackGood(c)' /\ LinkGood(c)' /\ GrantGood(c)'
  BY <1>1, CallbackStepGood, LinkStepGood, GrantStepGood
<1>5. \A e \in Exchange : ExchangeGood(e)'
  BY <1>1, ExchangeStepGood
<1>6. \A t \in tokens' : TokenGood(t)'
  BY <1>1, TokenStepGood
<1>7. \A l \in Linker : RowGood(l)'
  BY <1>1, RowStep
<1> QED
  BY <1>1, <1>2, <1>3, <1>4, <1>5, <1>6, <1>7 DEF IInv, Good

LEMMA Invariance == Spec => []IInv
  BY Initially, Inductive, PTL DEF Spec

----------------------------------------------------------------------------
\* Every variable of the service keeps its type: what is in Redis, what the
\* requests remember, the table and the tokens.
THEOREM TypeCorrect == Spec => []TypeOK
<1>1. IInv => TypeOK
  BY DEF IInv
<1> QED
  BY <1>1, Invariance, PTL

\* The callbacks and link() calls are, to the exchange endpoints, the Redis and
\* the table that Redemption assumes, however the requests interleave: all that
\* is proved of Redemption holds of the service.
THEOREM ServiceImplementsRedemption == Spec => ImplementsRedemption
<1>1. Init => R!Init
  BY SameTable
  DEF Init, FlowInit, L!Init, R!Init, L!OneIdentityPerUser, R!OneIdentityPerUser
<1>2. IInv /\ [Next]_vars => [R!Next]_(R!vars)
  BY StepRefines DEF IInv
<1> QED
  BY <1>1, <1>2, Invariance, PTL DEF Spec, R!Spec, ImplementsRedemption

\* The tenant of whatever identity callback c has proved is its session's.
LEMMA ProvenOnPath ==
    ASSUME NEW c \in Callback, callbacks[c] \in Returned, CallbackGood(c), Proven(c),
           VerifiedKey(c)[1] = "oidc"
    PROVE  VerifiedKey(c)[2][1] = authorizes[callbacks[c].sid].ask.partner
<1>1. /\ VerifiedKey(c)[2][1] = callbacks[c].idp
      /\ callbacks[c].idp # "google"
  BY KeyIsKey DEF Proven, VerifiedKey, KeyOf
<1>2. callbacks[c].idp \in Partner
  BY <1>1 DEF Returned, Idp
<1> QED
  BY <1>1, <1>2 DEF CallbackGood, OnPath, FromAsk

\* A tenant's identity is linked, and a grant issued for it, only where the
\* /authorize query was for that tenant.
THEOREM TenantsAreIsolated == Spec => []TenantIsolation
<1>1. IInv => TenantIsolation
  <2> SUFFICES ASSUME TypeOK, Good, NEW c \in Callback
               PROVE  /\ links[c].pc = "ok" /\ links[c].key[1] = "oidc" =>
                             links[c].key[2][1] = authorizes[callbacks[c].sid].ask.partner
                      /\ grants[c] \in R!Payload /\ grants[c].key[1] = "oidc" =>
                             grants[c].key[2][1] = authorizes[callbacks[c].sid].ask.partner
    BY DEF IInv, TenantIsolation
  <2>1. CallbackGood(c) /\ LinkGood(c) /\ GrantGood(c)
    BY DEF Good
  <2>2. links[c].pc = "ok" =>
            callbacks[c] \in Returned /\ Proven(c) /\ links[c].key = VerifiedKey(c)
    BY <2>1 DEF LinkGood, TypeOK, L!TypeOK, L!Idle, Linker
  <2>3. grants[c] \in R!Payload =>
            callbacks[c] \in Returned /\ Proven(c) /\ grants[c].key = VerifiedKey(c)
    BY <2>1 DEF GrantGood, PayloadOf, AuthorizationCode, RegistrationTicket
  <2> QED
    BY <2>1, <2>2, <2>3, ProvenOnPath
<1> QED
  BY <1>1, Invariance, PTL

\* Every success in the security log is true, and a linked identity stays its
\* user's afterwards.
THEOREM ReportsAreTrue == Spec => []EventsAreTrue
<1>1. IInv => EventsAreTrue
  <2> SUFFICES ASSUME TypeOK, Good, NEW c \in Callback, callbacks[c] # Idle,
                      callbacks[c].event \in Success
               PROVE  /\ authns[callbacks[c].authn].nonce = callbacks[c].sid
                      /\ callbacks[c].event # "registration.ticket_issued" =>
                             L!Bound(identities, VerifiedKey(c), callbacks[c].user)
                      /\ callbacks[c].event = "link.succeeded" =>
                             callbacks[c].user =
                                 TicketUser[authorizes[callbacks[c].sid].ask.ticket]
    BY DEF IInv, EventsAreTrue
  <2>1. callbacks[c] \in Returned
    BY DEF TypeOK, FlowTypeOK, Cancelled, Success
  <2>2. /\ FromAsk(callbacks[c].sid, callbacks[c].session)
        /\ FoundGood(c)
        /\ EventGood(c)
    BY <2>1 DEF Good, CallbackGood
  <2> QED
    BY <2>1, <2>2 DEF EventGood, FoundGood, FromAsk, Proven, Success
<1> QED
  BY <1>1, Invariance, PTL

\* No authorization code is a registration ticket.
LEMMA KindsDiffer ==
    \A c \in Callback : AuthorizationCode(c) # RegistrationTicket(c)
<1>1. ASSUME NEW c \in Callback
      PROVE  AuthorizationCode(c).kind = "code" /\ RegistrationTicket(c).kind = "ticket"
  BY DEF AuthorizationCode, RegistrationTicket
<1> QED
  BY <1>1

\* Whatever is redeemed has been reported, for the user a code names, and no grant
\* is in Redis unreported but a ticket whose callback has not got to its report, or
\* has failed before it.
THEOREM GrantsHaveReports == Spec => []GrantsAreReported
<1>1. ASSUME NEW c \in Callback, NEW payload, PayloadOf(payload, c)
      PROVE  \/ Reported(c, payload)
             \/ /\ payload.kind = "ticket"
                /\ callbacks[c].pc \in {"report", "failed"}
                /\ callbacks[c].event = "none"
  <2>1. CASE payload = AuthorizationCode(c)
    <3>1. payload.kind = "code" /\ payload.user = callbacks[c].user
      BY <2>1 DEF AuthorizationCode
    <3>2. callbacks[c].event \in Success
      BY <1>1, <2>1, KindsDiffer DEF PayloadOf, Success
    <3> QED
      BY <3>1, <3>2 DEF Reported
  <2>2. CASE payload = RegistrationTicket(c)
    <3>1. payload.kind = "ticket"
      BY <2>2 DEF RegistrationTicket
    <3> QED
      BY <1>1, <2>2, <3>1, KindsDiffer DEF PayloadOf, Reported
  <2> QED
    BY <1>1, <2>1, <2>2 DEF PayloadOf
<1>2. IInv => GrantsAreReported
  <2> SUFFICES ASSUME TypeOK, Good
               PROVE  GrantsAreReported
    BY DEF IInv
  <2>1. ASSUME NEW e \in Exchange, exchanges[e] # R!Idle
        PROVE  Reported(exchanges[e].grant, exchanges[e].payload)
    <3>1. exchanges[e].grant \in Callback
      BY <2>1 DEF TypeOK, R!TypeOK, R!Taken
    <3>2. /\ PayloadOf(exchanges[e].payload, exchanges[e].grant)
          /\ callbacks[exchanges[e].grant].pc = "done"
      BY <2>1 DEF Good, ExchangeGood
    <3> QED
      BY <1>1, <3>1, <3>2
  <2>2. ASSUME NEW c \in Callback, grants[c] \in R!Payload
        PROVE  PayloadOf(grants[c], c)
    BY <2>2 DEF Good, GrantGood
  <2> QED
    BY <1>1, <2>1, <2>2 DEF GrantsAreReported
<1> QED
  BY <1>2, Invariance, PTL

\* What signing copies from a grant into a token.
LEMMA TokenFields ==
    ASSUME NEW e, NEW p
    PROVE  /\ R!TokenFor(e, p).aud = p.client
           /\ R!TokenFor(e, p).purpose = p.purpose
           /\ R!TokenFor(e, p).key = p.key
           /\ p.kind = "code" => R!TokenFor(e, p).sub = p.user
  BY DEF R!TokenFor

\* A token says what somebody approved at /authorize and proved at an IdP.
THEOREM TokensHaveProvenance == Spec => []TokenProvenance
<1>1. IInv => TokenProvenance
  <2> SUFFICES ASSUME TypeOK, Good, NEW t \in tokens
               PROVE  LET ask == AskOf(t)
                          enterprise == t.key[1] = "oidc" /\ ask.purpose = "registration"
                      IN  /\ t.key = KeyOf(AuthnOf(t))
                          /\ t.aud = ask.client
                          /\ exchanges[t.jti].payload.uri = ask.uri
                          /\ t.purpose = IF enterprise THEN "enterprise_sso_registration"
                                                       ELSE ask.purpose
                          /\ <<t.aud, ask.uri>> \in AllowedUri
                          /\ <<t.aud, ask.purpose>> \in AllowedPurpose
                          /\ ask.purpose = "link" => t.sub = TicketUser[ask.ticket]
    BY DEF IInv, TokenProvenance
  <2>1. /\ t.jti \in Exchange
        /\ exchanges[t.jti] \in R!Taken
        /\ exchanges[t.jti] # R!Idle
        /\ t = R!TokenFor(t.jti, exchanges[t.jti].payload)
    BY DEF Good, TokenGood, TypeOK, R!TypeOK, R!Token, R!Idle
  <2>2. PICK c \in Callback, payload \in R!Payload :
            /\ c = exchanges[t.jti].grant
            /\ payload = exchanges[t.jti].payload
            /\ PayloadOf(payload, c)
    BY <2>1 DEF Good, ExchangeGood, R!Taken
  <2>3. /\ callbacks[c] \in Returned
        /\ callbacks[c].sid \in Authorize
        /\ CallbackGood(c)
        /\ FromAsk(callbacks[c].sid, callbacks[c].session)
        /\ Proven(c)
    BY <2>2 DEF PayloadOf, Good, CallbackGood, Returned
  <2>4. /\ AuthnOf(t) = authns[callbacks[c].authn]
        /\ AskOf(t) = authorizes[callbacks[c].sid].ask
    BY <2>2, <2>3 DEF CallbackOf, AuthnOf, AskOf, Proven
  <2>5. AskGood(callbacks[c].sid) /\ authorizes[callbacks[c].sid] # Idle
    BY <2>3 DEF Good, FromAsk, Idle
  <2>6. /\ AskOf(t).client = callbacks[c].session.client
        /\ AskOf(t).uri = callbacks[c].session.uri
        /\ AskOf(t).purpose = callbacks[c].session.purpose
        /\ AskOf(t).purpose = "link" =>
               callbacks[c].session.linkUser = TicketUser[AskOf(t).ticket]
        /\ <<AskOf(t).client, AskOf(t).uri>> \in AllowedUri
        /\ <<AskOf(t).client, AskOf(t).purpose>> \in AllowedPurpose
    BY <2>3, <2>4, <2>5 DEF FromAsk, AskGood
  <2>7. VerifiedKey(c) = KeyOf(AuthnOf(t))
        /\ (VerifiedKey(c)[1] = "oidc" <=> callbacks[c].idp # "google")
    BY <2>3, <2>4 DEF VerifiedKey, Proven, KeyOf
  <2>8. t = R!TokenFor(t.jti, payload)
    BY <2>1, <2>2
  <2>9. CASE payload = AuthorizationCode(c)
    <3>1. /\ t.aud = callbacks[c].session.client
          /\ t.purpose = callbacks[c].session.purpose
          /\ t.key = VerifiedKey(c)
          /\ t.sub = callbacks[c].user
          /\ payload.uri = callbacks[c].session.uri
      <4>1. /\ payload.kind = "code"
            /\ payload.client = callbacks[c].session.client
            /\ payload.uri = callbacks[c].session.uri
            /\ payload.purpose = callbacks[c].session.purpose
            /\ payload.key = VerifiedKey(c)
            /\ payload.user = callbacks[c].user
        BY <2>9 DEF AuthorizationCode
      <4> QED
        BY <2>8, <4>1, TokenFields
    <3>2. /\ callbacks[c].session.purpose # "registration"
          /\ callbacks[c].session.purpose = "link" =>
                 callbacks[c].user = callbacks[c].session.linkUser
      BY <2>2, <2>9, KindsDiffer DEF PayloadOf
    <3> QED
      BY <2>2, <2>6, <2>7, <3>1, <3>2
  <2>10. CASE payload = RegistrationTicket(c)
    <3>1. /\ t.aud = callbacks[c].session.client
          /\ t.purpose = IF callbacks[c].idp = "google" THEN "registration"
                                                        ELSE "enterprise_sso_registration"
          /\ t.key = VerifiedKey(c)
          /\ payload.uri = callbacks[c].session.uri
      <4>1. /\ payload.kind = "ticket"
            /\ payload.client = callbacks[c].session.client
            /\ payload.uri = callbacks[c].session.uri
            /\ payload.purpose = IF callbacks[c].idp = "google"
                                   THEN "registration"
                                   ELSE "enterprise_sso_registration"
            /\ payload.key = VerifiedKey(c)
        BY <2>10 DEF RegistrationTicket
      <4> QED
        BY <2>8, <4>1, TokenFields
    <3>2. callbacks[c].session.purpose = "registration"
      BY <2>2, <2>10, KindsDiffer DEF PayloadOf
    <3> QED
      BY <2>2, <2>6, <2>7, <3>1, <3>2
  <2> QED
    BY <2>2, <2>9, <2>10 DEF PayloadOf
<1> QED
  BY <1>1, Invariance, PTL

----------------------------------------------------------------------------
(* What happens once                                                       *)

\* Each IdP answer is accepted by one callback.
OneCallbackPerAuthentication ==
    \A c, d \in Callback :
        /\ callbacks[c] \in Returned /\ Past(c)
        /\ callbacks[d] \in Returned /\ Past(d)
        /\ callbacks[c].authn = callbacks[d].authn
        => c = d

\* Each grant is taken out of Redis by one exchange, and does not come back.
OneExchangePerGrant ==
    \A e \in Exchange :
        exchanges[e] # R!Idle =>
            /\ grants[exchanges[e].grant] = Spent
            /\ \A f \in Exchange :
                   exchanges[f] # R!Idle /\ exchanges[f].grant = exchanges[e].grant => f = e

\* A callback that was not past Verify and is now has had its code accepted.
LEMMA Passing ==
    ASSUME TypeOK, TypeOK', Good, [Next]_vars, NEW c \in Callback,
           callbacks'[c] \in Returned, Past(c)', ~ (callbacks[c] \in Returned /\ Past(c))
    PROVE  Verify(c)
<1>1. ASSUME NEW d \in Callback, d # c, Moves(d) \/ Arrives(d)
      PROVE  callbacks'[c] = callbacks[c]
  BY <1>1, OtherCallbacks
<1>2. ~ Arrives(c)
  BY DEF Arrives, CallbackGet, Cancel, Past, Cancelled, TypeOK, FlowTypeOK
<1>3. CASE Moves(c)
  <2>1. callbacks[c] \in Returned
    BY <1>3, MoveEffect
  <2>2. ~ (Find(c) \/ Register(c) \/ StoreTicket(c) \/ ReportTicket(c) \/ RefuseUnknown(c)
           \/ CreateChallenge(c) \/ SpendSession(c) \/ LinkAnswered(c) \/ IssueCode(c))
    BY <2>1 DEF Find, Register, StoreTicket, ReportTicket, RefuseUnknown, CreateChallenge,
                SpendSession, LinkAnswered, IssueCode, Past
  <2>3. ~ AbortCallback(c)
    BY <2>1 DEF AbortCallback, Past, Returned, TypeOK, FlowTypeOK
  <2>4. ~ VerifyFail(c)
    <3> SUFFICES ASSUME VerifyFail(c)
                 PROVE  FALSE
      OBVIOUS
    <3>1. PICK event : callbacks' = [callbacks EXCEPT ![c].pc = "failed", ![c].event = event]
      BY DEF VerifyFail
    <3> QED
      BY <2>1, <3>1 DEF Past, Returned, TypeOK, FlowTypeOK
  <2> QED
    BY <1>3, <2>2, <2>3, <2>4 DEF Moves
<1> QED
  BY <1>1, <1>2, <1>3, CallbackSteps, Writers DEF Past

LEMMA OneCallbackStep ==
    ASSUME IInv, IInv', OneCallbackPerAuthentication, [Next]_vars
    PROVE  OneCallbackPerAuthentication'
<1> USE DEF IInv
<1>1. SUFFICES ASSUME NEW c \in Callback, NEW d \in Callback, c # d,
                      callbacks'[c] \in Returned, Past(c)',
                      callbacks'[d] \in Returned, Past(d)',
                      callbacks'[c].authn = callbacks'[d].authn
               PROVE  FALSE
  BY DEF OneCallbackPerAuthentication
<1>2. ASSUME NEW x \in Callback, NEW y \in Callback, x # y, Verify(x),
             callbacks'[x].authn = callbacks'[y].authn,
             callbacks'[y] \in Returned, Past(y)'
      PROVE  FALSE
  <2>1. callbacks[x] \in Returned /\ callbacks'[x].authn = callbacks[x].authn
    BY <1>2, MoveEffect DEF Moves
  <2>2. callbacks'[y] = callbacks[y]
    BY <1>2, OtherCallbacks DEF Moves
  <2>3. callbacks[y] \in Returned /\ Past(y)
    BY <1>2, <2>2 DEF Past
  <2>4. authns[callbacks[y].authn].redeemed
    BY <2>3 DEF Good, CallbackGood, Proven
  <2> QED
    BY <1>2, <2>1, <2>2, <2>4 DEF Verify, Accepted
<1>3. callbacks[c] \in Returned /\ Past(c)
  BY <1>1, <1>2, Passing
<1>4. callbacks[d] \in Returned /\ Past(d)
  BY <1>1, <1>2, Passing
<1>5. callbacks'[c].authn = callbacks[c].authn /\ callbacks'[d].authn = callbacks[d].authn
  BY <1>3, <1>4, KeptStep DEF Kept
<1> QED
  BY <1>1, <1>3, <1>4, <1>5 DEF OneCallbackPerAuthentication

LEMMA OneExchangeStep ==
    ASSUME IInv, OneExchangePerGrant, [Next]_vars
    PROVE  OneExchangePerGrant'
<1> USE DEF IInv
<1>1. ASSUME NEW g \in Callback, grants[g] = Spent
      PROVE  grants'[g] = Spent
  <2>1. grants[g] # Unissued /\ grants[g] \notin R!Payload
    BY <1>1, ServiceAssumption
  <2>2. ~ StoreTicket(g) /\ ~ IssueCode(g)
    BY <2>1 DEF Good, GrantGood, StoreTicket, IssueCode
  <2> QED
    BY <1>1, <2>1, <2>2, GrantEffect
<1>2. ASSUME NEW e \in Exchange, exchanges'[e] # R!Idle
      PROVE  \/ /\ exchanges[e] # R!Idle
                /\ exchanges'[e].grant = exchanges[e].grant
                /\ exchanges[e].grant \in Callback
                /\ grants[exchanges[e].grant] = Spent
             \/ /\ exchanges[e] = R!Idle
                /\ exchanges'[e].grant \in Callback
                /\ grants[exchanges'[e].grant] \in R!Payload
  BY <1>2, ExchangeEffect DEF OneExchangePerGrant, TypeOK, R!TypeOK, R!Taken
<1>3. ASSUME NEW e \in Exchange, exchanges'[e] # R!Idle, exchanges[e] = R!Idle
      PROVE  /\ grants'[exchanges'[e].grant] = Spent
             /\ \A f \in Exchange \ {e} : exchanges'[f] = exchanges[f]
  <2>1. PICK g \in Callback, kind \in {"code", "ticket"}, client \in Client,
             uri \in RedirectUri : R!Redeem(e, g, kind, client, uri)
    <3>1. Redemptions
      BY <1>3, Writers
    <3>2. ASSUME NEW d \in Exchange, R!Lookup(d) \/ R!Sign(d) \/ R!Abort(d)
          PROVE  FALSE
      <4>1. d # e
        BY <1>3, <3>2 DEF R!Lookup, R!Sign, R!Abort, R!Idle
      <4> QED
        BY <1>3, <3>2, <4>1 DEF R!Lookup, R!Sign, R!Abort, TypeOK, R!TypeOK
    <3>3. ASSUME NEW g \in Callback, R!ExpireGrant(g)
          PROVE  FALSE
      BY <1>3, <3>3 DEF R!ExpireGrant
    <3>4. ASSUME NEW d \in Exchange, d # e, NEW g \in Callback,
                 NEW kind \in {"code", "ticket"}, NEW client \in Client,
                 NEW uri \in RedirectUri, R!Redeem(d, g, kind, client, uri)
          PROVE  FALSE
      BY <1>3, <3>4 DEF R!Redeem, TypeOK, R!TypeOK
    <3> QED
      BY <3>1, <3>2, <3>3, <3>4 DEF Redemptions
  <2>2. exchanges'[e].grant = g /\ \A f \in Exchange \ {e} : exchanges'[f] = exchanges[f]
    BY <2>1 DEF R!Redeem, TypeOK, R!TypeOK
  <2>3. grants'[g] = Spent
    BY <2>1 DEF R!Redeem, R!Consume, TypeOK, R!TypeOK
  <2> QED
    BY <2>2, <2>3
<1>4. ASSUME NEW e \in Exchange, exchanges'[e] # R!Idle
      PROVE  grants'[exchanges'[e].grant] = Spent
  BY <1>1, <1>2, <1>3, <1>4
<1>5. ASSUME NEW e \in Exchange, exchanges'[e] # R!Idle, exchanges[e] = R!Idle,
             NEW f \in Exchange, f # e, exchanges'[f] # R!Idle
      PROVE  exchanges'[f].grant # exchanges'[e].grant
  <2>1. grants[exchanges'[e].grant] \in R!Payload
    BY <1>2, <1>5
  <2>2. exchanges'[f] = exchanges[f]
    BY <1>3, <1>5
  <2>3. grants[exchanges'[f].grant] = Spent
    BY <1>5, <2>2 DEF OneExchangePerGrant
  <2> QED
    BY <2>1, <2>3, ServiceAssumption
<1>6. ASSUME NEW e \in Exchange, exchanges'[e] # R!Idle,
             NEW f \in Exchange, exchanges'[f] # R!Idle,
             exchanges'[f].grant = exchanges'[e].grant
      PROVE  f = e
  <2>1. CASE exchanges[e] # R!Idle /\ exchanges[f] # R!Idle
    BY <1>2, <1>6, <2>1 DEF OneExchangePerGrant
  <2> QED
    BY <1>5, <1>6, <2>1
<1> QED
  BY <1>4, <1>6 DEF OneExchangePerGrant

Once == OneCallbackPerAuthentication /\ OneExchangePerGrant

LEMMA OnceInvariance == Spec => []Once
<1>1. Init => Once
  BY DEF Init, FlowInit, Once, OneCallbackPerAuthentication, OneExchangePerGrant, Idle,
         Returned
<1>2. IInv /\ IInv' /\ Once /\ [Next]_vars => Once'
  BY OneCallbackStep, OneExchangeStep DEF Once
<1> QED
  BY <1>1, <1>2, Invariance, PTL DEF Spec

\* One authentication at an IdP gives at most one token.
THEOREM OneTokenEach == Spec => []OneTokenPerAuthentication
<1>1. IInv /\ Once => OneTokenPerAuthentication
  <2> SUFFICES ASSUME TypeOK, Good, Once, NEW t1 \in tokens, NEW t2 \in tokens,
                      CallbackOf(t1).authn = CallbackOf(t2).authn
               PROVE  t1 = t2
    BY DEF IInv, OneTokenPerAuthentication
  <2>1. ASSUME NEW t \in tokens
        PROVE  /\ t.jti \in Exchange
               /\ exchanges[t.jti] # R!Idle
               /\ exchanges[t.jti].grant \in Callback
               /\ callbacks[exchanges[t.jti].grant] \in Returned
               /\ Past(exchanges[t.jti].grant)
               /\ t = R!TokenFor(t.jti, exchanges[t.jti].payload)
    <3>1. /\ t.jti \in Exchange
          /\ exchanges[t.jti] \in R!Taken
          /\ exchanges[t.jti] # R!Idle
          /\ t = R!TokenFor(t.jti, exchanges[t.jti].payload)
      BY DEF Good, TokenGood, TypeOK, R!TypeOK, R!Token, R!Idle
    <3>2. /\ PayloadOf(exchanges[t.jti].payload, exchanges[t.jti].grant)
          /\ callbacks[exchanges[t.jti].grant].pc = "done"
      BY <3>1 DEF Good, ExchangeGood
    <3> QED
      BY <3>1, <3>2 DEF R!Taken, PayloadOf, Past
  <2>2. exchanges[t1.jti].grant = exchanges[t2.jti].grant
    BY <2>1 DEF CallbackOf, Once, OneCallbackPerAuthentication
  <2>3. t1.jti = t2.jti
    BY <2>1, <2>2 DEF Once, OneExchangePerGrant
  <2> QED
    BY <2>1, <2>3
<1> QED
  BY <1>1, Invariance, OnceInvariance, PTL

\* Both UNIQUE constraints hold of the table, whatever the requests do.
LEMMA UserStep ==
    ASSUME TypeOK, Good, [Next]_vars, L!OneIdentityPerUser(identities)
    PROVE  L!OneIdentityPerUser(identities)'
<1>1. CASE identities' = identities
  BY <1>1 DEF L!OneIdentityPerUser
<1>2. ASSUME NEW k \in Key, NEW u \in User, R!LinkIdentity(k, u)
      PROVE  L!OneIdentityPerUser(identities)'
  <2>1. /\ identities[k] = NoRow
        /\ \A j \in Key : identities[j] # NoRow => identities[j].user # u
        /\ identities' = [identities EXCEPT ![k] = [user |-> u, status |-> "active"]]
    BY <1>2 DEF R!LinkIdentity, R!UniqueViolation, R!HasIdentity, R!InsertRow
  <2> QED
    BY <2>1 DEF L!OneIdentityPerUser, TypeOK, L!TypeOK, L!Table
<1>3. ASSUME NEW k \in Key, R!Revoke(k)
      PROVE  L!OneIdentityPerUser(identities)'
  <2>1. \A j \in Key : /\ identities'[j] # NoRow => identities[j] # NoRow
                       /\ identities[j] # NoRow => identities'[j].user = identities[j].user
    <3>1. identities[k] \in L!Row /\ identities \in L!Table
      BY <1>3 DEF R!Revoke, TypeOK, L!TypeOK, L!Table
    <3>2. [identities[k] EXCEPT !.status = "revoked"] \in L!Row
      BY <3>1 DEF L!Row
    <3>3. identities' = [identities EXCEPT ![k] = [identities[k] EXCEPT !.status = "revoked"]]
      BY <1>3 DEF R!Revoke
    <3> QED
      BY <1>3, <3>1, <3>2, <3>3 DEF R!Revoke, L!Table, L!Row
  <2> QED
    BY <2>1 DEF L!OneIdentityPerUser
<1>4. ASSUME R!Next
      PROVE  \/ identities' = identities
             \/ \E k \in Key, u \in User : R!LinkIdentity(k, u)
             \/ \E k \in Key : R!Revoke(k)
  BY <1>4 DEF R!Next, R!Issue, R!ExpireGrant, R!Redeem, R!Lookup, R!Sign, R!Abort
<1> QED
  BY <1>1, <1>2, <1>3, <1>4, StepRefines DEF R!vars

\* A link ticket links one identity, to the user it was minted for.
THEOREM TicketsLinkOnce == Spec => []TicketLinksOneIdentity
<1>1. Init => L!OneIdentityPerUser(identities)
  BY DEF Init, FlowInit, L!Init
<1>2. IInv /\ [Next]_vars /\ L!OneIdentityPerUser(identities)
          => L!OneIdentityPerUser(identities)'
  BY UserStep DEF IInv
<1>3. IInv /\ L!OneIdentityPerUser(identities) => TicketLinksOneIdentity
  <2> SUFFICES ASSUME TypeOK, Good, L!OneIdentityPerUser(identities),
                      NEW c1 \in Callback, NEW c2 \in Callback
               PROVE  LET ask1 == authorizes[callbacks[c1].sid].ask
                          ask2 == authorizes[callbacks[c2].sid].ask
                      IN  /\ links[c1].pc = "ok" =>
                                 links[c1].user = TicketUser[ask1.ticket]
                          /\ /\ links[c1].pc = "ok"
                             /\ links[c2].pc = "ok"
                             /\ ask1.ticket = ask2.ticket
                             => links[c1].key = links[c2].key
    BY DEF IInv, TicketLinksOneIdentity
  <2>1. ASSUME NEW c \in Callback, links[c].pc = "ok"
        PROVE  /\ links[c].key \in Key
               /\ links[c].user = TicketUser[authorizes[callbacks[c].sid].ask.ticket]
               /\ L!Bound(identities, links[c].key, links[c].user)
    <3>1. links[c] \in L!Call /\ links[c].key \in Key
      BY <2>1 DEF TypeOK, L!TypeOK, L!Idle, L!Call, Linker
    <3>2. /\ callbacks[c] \in Returned
          /\ callbacks[c].session.purpose = "link"
          /\ links[c].user = callbacks[c].session.linkUser
      BY <3>1 DEF Good, LinkGood
    <3>3. FromAsk(callbacks[c].sid, callbacks[c].session)
      BY <3>2 DEF Good, CallbackGood
    <3>4. L!Bound(identities, links[c].key, links[c].user)
      BY <2>1 DEF Good, RowGood, Linker
    <3> QED
      BY <3>1, <3>2, <3>3, <3>4 DEF FromAsk
  <2>2. ASSUME links[c1].pc = "ok", links[c2].pc = "ok",
               authorizes[callbacks[c1].sid].ask.ticket
                 = authorizes[callbacks[c2].sid].ask.ticket
        PROVE  links[c1].key = links[c2].key
    <3>1. links[c1].user = links[c2].user
      BY <2>1, <2>2
    <3>2. /\ links[c1].key \in Key
          /\ L!Bound(identities, links[c1].key, links[c1].user)
      BY <2>1, <2>2
    <3>3. /\ links[c2].key \in Key
          /\ L!Bound(identities, links[c2].key, links[c2].user)
      BY <2>1, <2>2
    <3> QED
      BY <3>1, <3>2, <3>3 DEF L!OneIdentityPerUser, L!Bound
  <2>3. links[c1].pc = "ok"
          => links[c1].user = TicketUser[authorizes[callbacks[c1].sid].ask.ticket]
    BY <2>1
  <2> QED
    BY <2>2, <2>3
<1> QED
  BY <1>1, <1>2, <1>3, Invariance, PTL DEF Spec

\* A callback that has spent its session: no later write of that session brings
\* the callback's verifier back.
VerifierSpent(c) ==
    callbacks[c].pc \in {"ticket", "report", "code", "done"}
    /\ callbacks[c].idp \in PkceIdps =>
        \/ sessions[callbacks[c].sid] = NoSession
        \/ sessions[callbacks[c].sid].verifier # callbacks[c].session.verifier

\* Whatever a start or /authorize writes, it is not the verifier of callback c: the
\* IdP was given its challenge, so its start's SET is no longer sent.
LEMMA VerifierGone ==
    ASSUME TypeOK, Good, [Next]_vars, NEW c \in Callback, callbacks[c] \in Returned,
           Proven(c), callbacks[c].idp \in PkceIdps,
           \/ sessions[callbacks[c].sid] = NoSession
           \/ sessions[callbacks[c].sid].verifier # callbacks[c].session.verifier
    PROVE  \/ sessions'[callbacks[c].sid] = NoSession
           \/ sessions'[callbacks[c].sid].verifier # callbacks[c].session.verifier
<1>1. /\ callbacks[c].sid \in Authorize
      /\ callbacks[c].session.verifier # NoVerifier
      /\ starts[callbacks[c].session.verifier].pc = "sent"
  BY DEF Good, CallbackGood, AuthnGood, Proven, Returned
<1>2. ASSUME NEW s \in Start, StartUpdate(s),
             sessions'[callbacks[c].sid] = WithVerifier(s)
      PROVE  sessions'[callbacks[c].sid].verifier # callbacks[c].session.verifier
  <2>1. s # callbacks[c].session.verifier
    BY <1>1, <1>2 DEF StartUpdate
  <2>2. starts[s] \in Started
    BY <1>2 DEF StartUpdate, Idle, TypeOK, FlowTypeOK
  <2> QED
    BY <1>2, <2>1, <2>2 DEF WithVerifier, Started, Session
<1>3. SessionFor(authorizes[callbacks[c].sid].ask).verifier = NoVerifier
  BY DEF SessionFor
<1> QED
  BY <1>1, <1>2, <1>3, SessionEffect

LEMMA VerifierStep ==
    ASSUME IInv, [Next]_vars, NEW c \in Callback, VerifierSpent(c)
    PROVE  VerifierSpent(c)'
<1> USE DEF IInv
<1>1. TypeOK'
  BY TypeStep
<1>2. SUFFICES ASSUME callbacks'[c].pc \in {"ticket", "report", "code", "done"},
                      callbacks'[c].idp \in PkceIdps
               PROVE  \/ sessions'[callbacks'[c].sid] = NoSession
                      \/ sessions'[callbacks'[c].sid].verifier
                             # callbacks'[c].session.verifier
  BY DEF VerifierSpent
<1>3. CASE callbacks[c].pc \in {"ticket", "report", "code", "done"}
  <2>1. callbacks[c] \in Returned
    BY <1>3, CallbackTypes
  <2>2. /\ callbacks'[c].sid = callbacks[c].sid
        /\ callbacks'[c].idp = callbacks[c].idp
        /\ callbacks'[c].session = callbacks[c].session
    BY <2>1, KeptStep DEF Kept
  <2>3. Proven(c)
    BY <1>3, <2>1 DEF Good, CallbackGood, Past
  <2> QED
    BY <1>2, <1>3, <2>1, <2>2, <2>3, VerifierGone DEF VerifierSpent
<1>4. CASE callbacks[c].pc \notin {"ticket", "report", "code", "done"}
  <2>1. callbacks'[c] # callbacks[c]
    BY <1>2, <1>4
  <2>2. Moves(c) \/ Arrives(c)
    BY <2>1, OtherCallbacks, CallbackSteps, Writers
  <2>3. ~ Arrives(c)
    BY <1>2 DEF Arrives, CallbackGet, Cancel, Cancelled, TypeOK, FlowTypeOK
  <2>4. /\ callbacks[c] \in Returned
        /\ callbacks[c].sid \in Authorize
        /\ callbacks'[c].sid = callbacks[c].sid
    BY <1>1, <2>2, <2>3, MoveEffect DEF Returned
  <2>5. ~ Verify(c)
    BY <1>2, <2>4 DEF Verify, Returned, TypeOK, FlowTypeOK
  <2>6. ~ Find(c)
    <3> SUFFICES ASSUME Find(c)
                 PROVE  FALSE
      OBVIOUS
    <3>1. PICK user :
              \/ callbacks'[c] = [callbacks[c] EXCEPT !.user = user, !.pc = "register"]
              \/ callbacks'[c] = [callbacks[c] EXCEPT !.user = user, !.pc = "unknown"]
              \/ callbacks'[c] = [callbacks[c] EXCEPT !.user = user, !.pc = "spend"]
      BY <2>4 DEF Find, TypeOK, FlowTypeOK
    <3> QED
      BY <1>2, <2>4, <3>1 DEF Returned
  <2>7. ~ CreateChallenge(c) /\ ~ AbortCallback(c)
    BY <1>2, <2>4 DEF CreateChallenge, AbortCallback, Returned, TypeOK, FlowTypeOK
  <2>8. ~ StoreTicket(c) /\ ~ ReportTicket(c) /\ ~ IssueCode(c)
    BY <1>4 DEF StoreTicket, ReportTicket, IssueCode
  <2>9. sessions'[callbacks[c].sid] = NoSession
    BY <2>2, <2>3, <2>4, <2>5, <2>6, <2>7, <2>8
    DEF Moves, VerifyFail, Register, RefuseUnknown, SpendSession, LinkAnswered, Deleted,
        TypeOK, FlowTypeOK
  <2> QED
    BY <2>4, <2>9
<1> QED
  BY <1>3, <1>4

\* The verifier of a callback that has issued something is gone for good, if its
\* IdP enforces PKCE, though a late start may bring the session back.
THEOREM VerifiersAreSpent == Spec => []SpentVerifier
<1> DEFINE SpentInv == \A c \in Callback : VerifierSpent(c)
<1>1. Init => SpentInv
  BY DEF Init, FlowInit, VerifierSpent, Idle
<1>2. IInv /\ SpentInv /\ [Next]_vars => SpentInv'
  BY VerifierStep
<1>3. SpentInv => SpentVerifier
  BY DEF VerifierSpent, SpentVerifier
<1> QED
  BY <1>1, <1>2, <1>3, Invariance, PTL DEF Spec

----------------------------------------------------------------------------
(* The table, under all that happens                                       *)

\* What a step of the service is to the table and its link() calls.
LEMMA LinkCases ==
    ASSUME [Next]_vars
    PROVE  \/ UNCHANGED <<identities, links>>
           \/ \E l \in Linker : L!Step(l)
           \/ \E c \in Callback :
                  /\ Verify(c)
                  /\ callbacks[c].session.purpose = "link"
                  /\ L!Begin(c, VerifiedKey(c), callbacks[c].session.linkUser)
           \/ \E l \in Django, t \in tokens, u \in User :
                  DjangoAsksFor(t) /\ L!Begin(l, t.key, u)
           \/ \E k \in Key : L!Revoke(k)
<1>1. ASSUME Flow, ~ \E c \in Callback : Verify(c)
      PROVE  UNCHANGED <<identities, links>>
  BY <1>1
  DEF Flow, FlowNext, AuthorizeStep, Approve, CreateSession, AbortAuthorize, ExpireSession,
      StartStep, StartGet, StartUpdate, StartDrop, AbortStart, Authenticate,
      CallbackStep, CallbackGet, Cancel, VerifyFail, Find, Register, StoreTicket, ReportTicket,
      RefuseUnknown, CreateChallenge, SpendSession, LinkAnswered, IssueCode, AbortCallback
<1>2. ASSUME NEW c \in Callback, Verify(c)
      PROVE  \/ UNCHANGED <<identities, links>>
             \/ /\ callbacks[c].session.purpose = "link"
                /\ L!Begin(c, VerifiedKey(c), callbacks[c].session.linkUser)
  BY <1>2 DEF Verify
<1>3. CASE LinkStatement
  BY <1>3 DEF LinkStatement
<1>4. CASE \E l \in Django, t \in tokens, u \in User : DjangoLink(l, t, u)
  BY <1>4 DEF DjangoLink
<1>5. CASE \E k \in Key : Revoke(k)
  BY <1>5 DEF Revoke
<1>6. CASE Redemptions \/ UNCHANGED vars
  BY <1>6 DEF Redemptions, R!ExpireGrant, R!Redeem, R!Lookup, R!Sign, R!Abort, vars, flowVars
<1> QED
  BY <1>1, <1>2, <1>3, <1>4, <1>5, <1>6 DEF Next

\* A callback asks link() for an identity it has proved and for the user its
\* link ticket was minted for.
LEMMA VerifiedAsks ==
    ASSUME TypeOK, Good, NEW c \in Callback, callbacks[c].pc = "verify",
           callbacks[c].session.purpose = "link"
    PROVE  VerifiedKey(c) \in Key /\ callbacks[c].session.linkUser \in User
<1>1. /\ callbacks[c] \in Returned
      /\ callbacks[c].sid \in Authorize
  BY CallbackTypes
<1>2. /\ VerifiedKey(c) \in Key
      /\ FromAsk(callbacks[c].sid, callbacks[c].session)
  BY <1>1, KeyIsKey DEF Good, CallbackGood, VerifiedKey
<1> QED
  BY <1>1, <1>2, AskTypes, AsksAreQueries DEF FromAsk, Good

\* All that callbacks, Django and an operator do to the table and its link()
\* calls is what IdentityLink allows: what is proved of it, holds of the service.
THEOREM ServiceImplementsIdentityLink == Spec => L!Spec
<1>1. Init => L!Init
  BY DEF Init, FlowInit
<1>2. IInv /\ [Next]_vars => [L!Next]_(L!linkVars)
  <2> SUFFICES ASSUME TypeOK, Good, [Next]_vars
               PROVE  [L!Next]_(L!linkVars)
    BY DEF IInv
  <2>1. ASSUME NEW c \in Callback, Verify(c), callbacks[c].session.purpose = "link",
               L!Begin(c, VerifiedKey(c), callbacks[c].session.linkUser)
        PROVE  L!Next
    <3>1. VerifiedKey(c) \in Key /\ callbacks[c].session.linkUser \in User
      BY <2>1, VerifiedAsks DEF Verify
    <3> QED
      BY <2>1, <3>1 DEF L!Next, Linker
  <2>2. ASSUME NEW l \in Django, NEW t \in tokens, NEW u \in User, L!Begin(l, t.key, u)
        PROVE  L!Next
    <3>1. t.key \in Key
      BY DEF TypeOK, R!TypeOK, R!Token
    <3> QED
      BY <2>2, <3>1 DEF L!Next, Linker
  <2>3. CASE (\E l \in Linker : L!Step(l)) \/ (\E k \in Key : L!Revoke(k))
    BY <2>3 DEF L!Next
  <2>4. CASE UNCHANGED <<identities, links>>
    BY <2>4 DEF L!linkVars
  <2> QED
    BY <2>1, <2>2, <2>3, <2>4, LinkCases
<1> QED
  BY <1>1, <1>2, Invariance, PTL DEF Spec, L!Spec

\* Django asks only for identities that a token names which it was given for a
\* registration.
DjangoGood ==
    \A l \in Django :
        links[l] \in L!Call =>
            \E t \in tokens : DjangoAsksFor(t) /\ t.key = links[l].key

LEMMA TokensStay == [Next]_vars => tokens \subseteq tokens'
  BY Writers
  DEF Redemptions, R!ExpireGrant, R!Redeem, R!Lookup, R!Sign, R!Abort

LEMMA DjangoStep ==
    ASSUME TypeOK, DjangoGood, [Next]_vars
    PROVE  DjangoGood'
<1> SUFFICES ASSUME NEW l \in Django, links'[l] \in L!Call
             PROVE  \E t \in tokens : DjangoAsksFor(t) /\ t.key = links'[l].key
  BY TokensStay DEF DjangoGood
<1> USE DEF Linker
<1>1. CASE links'[l] = links[l]
  BY <1>1 DEF DjangoGood
<1>2. ASSUME NEW m \in Linker, L!Step(m)
      PROVE  links[l] \in L!Call /\ links'[l].key = links[l].key
  BY <1>2, StatementEffect DEF TypeOK
<1>3. ASSUME NEW c \in Callback, NEW k, NEW u, L!Begin(c, k, u)
      PROVE  links'[l] = links[l]
  BY <1>3, FlowAssumption DEF L!Begin, TypeOK, L!TypeOK
<1>4. ASSUME NEW m \in Django, NEW t \in tokens, NEW u \in User,
             DjangoAsksFor(t), L!Begin(m, t.key, u)
      PROVE  links'[l] = links[l] \/ links'[l].key = t.key
  BY <1>4 DEF L!Begin, TypeOK, L!TypeOK
<1>5. CASE \E k \in Key : L!Revoke(k)
  BY <1>1, <1>5 DEF L!Revoke
<1> QED
  BY <1>1, <1>2, <1>3, <1>4, <1>5, LinkCases DEF DjangoGood

\* The authentication that callback c has verified, and its query.
LEMMA ProofApproves ==
    ASSUME TypeOK, Good, NEW c \in Callback, callbacks[c] \in Returned, Proven(c), NEW u,
           \/ callbacks[c].session.purpose = "registration"
           \/ callbacks[c].session.purpose = "link" /\ callbacks[c].session.linkUser = u
    PROVE  Approved(VerifiedKey(c), u)
<1>1. callbacks[c].authn \in Authn /\ authns[callbacks[c].authn] # NoAuthn
  BY FlowAssumption DEF Proven, Returned
<1>2. FromAsk(callbacks[c].sid, callbacks[c].session)
  BY DEF Good, CallbackGood
<1> QED
  BY <1>1, <1>2 DEF Approved, Proven, FromAsk, VerifiedKey

\* Any user may be linked to the identity of a registration token.
LEMMA TicketApproves ==
    ASSUME TypeOK, Good, NEW t \in tokens, DjangoAsksFor(t), NEW u
    PROVE  Approved(t.key, u)
<1>1. /\ t.jti \in Exchange
      /\ exchanges[t.jti] \in R!Taken
      /\ exchanges[t.jti] # R!Idle
      /\ t = R!TokenFor(t.jti, exchanges[t.jti].payload)
  BY DEF Good, TokenGood, TypeOK, R!TypeOK, R!Token, R!Idle
<1>2. PICK c \in Callback, payload \in R!Payload :
          /\ payload = exchanges[t.jti].payload
          /\ PayloadOf(payload, c)
  BY <1>1 DEF Good, ExchangeGood, R!Taken
<1>3. payload # AuthorizationCode(c)
  <2>1. payload.kind # "code"
    BY <1>1, <1>2 DEF R!TokenFor, DjangoAsksFor
  <2> QED
    BY <2>1 DEF AuthorizationCode
<1>4. /\ callbacks[c] \in Returned
      /\ payload = RegistrationTicket(c)
      /\ callbacks[c].session.purpose = "registration"
      /\ Proven(c)
  BY <1>2, <1>3 DEF PayloadOf
<1>5. t.key = VerifiedKey(c)
  BY <1>1, <1>2, <1>4, TokenFields DEF RegistrationTicket
<1> QED
  BY <1>4, <1>5, ProofApproves

\* A new row is written by a link() call, for the pair that it was asked for.
LEMMA RowsAreInserted ==
    ASSUME TypeOK, [Next]_vars, NEW k \in Key, identities[k] = NoRow, identities'[k] # NoRow
    PROVE  \E l \in Linker : /\ links[l] \in L!Call
                             /\ links[l].key = k
                             /\ identities'[k].user = links[l].user
<1>1. PICK l \in Linker : L!Step(l)
  BY LinkCases DEF L!Begin, L!Revoke, TypeOK, L!TypeOK, L!Table
<1>2. links[l] \in L!Call /\ links[l].key \in Key
  BY <1>1, StatementEffect DEF TypeOK, L!Call
<1>3. identities' = L!InsertRow(identities, links[l].key, links[l].user)
  BY <1>1 DEF L!Step, L!Select, L!Update, L!Insert, L!Fail, L!LoseReply
<1>4. links[l].key = k /\ identities'[k].user = links[l].user
  BY <1>2, <1>3 DEF L!InsertRow, TypeOK, L!TypeOK, L!Table
<1> QED
  BY <1>2, <1>4

\* No row enters auth_identity for an identity that nobody has proved, or for a
\* user who was not approved, whichever of its writers comes first.
THEOREM LinksHaveApproval == Spec => LinksAreApproved
<1>1. Init => DjangoGood
  BY DEF Init, FlowInit, DjangoGood, L!Init, L!Idle, L!Call, Linker
<1>2. IInv /\ DjangoGood /\ [Next]_vars => DjangoGood'
  BY DjangoStep DEF IInv
<1>3. ASSUME TypeOK, Good, DjangoGood, [Next]_vars,
             NEW k \in Key, identities[k] = NoRow, identities'[k] # NoRow
      PROVE  Approved(k, identities'[k].user)
  <2>1. PICK l \in Linker : /\ links[l] \in L!Call
                            /\ links[l].key = k
                            /\ identities'[k].user = links[l].user
    BY <1>3, RowsAreInserted
  <2>2. CASE l \in Callback
    BY <1>3, <2>1, <2>2, ProofApproves DEF Good, LinkGood
  <2>3. CASE l \in Django
    BY <1>3, <2>1, <2>3, TicketApproves DEF DjangoGood
  <2> QED
    BY <2>2, <2>3 DEF Linker
<1>4. IInv /\ DjangoGood /\ [Next]_vars =>
          [\A k \in Key : identities[k] = NoRow /\ identities'[k] # NoRow
               => Approved(k, identities'[k].user)]_vars
  BY <1>3 DEF IInv
<1> QED
  BY <1>1, <1>2, <1>4, Invariance, PTL DEF Spec, LinksAreApproved

----------------------------------------------------------------------------
(* What the parts promise, the service keeps                               *)

RP == INSTANCE RedemptionProofs WITH Grant <- Callback

LP == INSTANCE IdentityLinkProofs

\* RP reads Redemption as R does ...
LEMMA SameRedemption == R!Spec => RP!Spec
<1>1. R!Init => RP!Init
  BY DEF R!Init, RP!Init, R!Idle, RP!Idle, R!Table, RP!Table, R!Row, RP!Row,
         R!OneIdentityPerUser, RP!OneIdentityPerUser
<1>2. [R!Next]_(R!vars) => [RP!Next]_(RP!vars)
  <2>1. R!Payload = RP!Payload
    BY DEF R!Payload, RP!Payload
  <2>2. ASSUME NEW g \in Callback, NEW p \in R!Payload, R!Issue(g, p)
        PROVE  RP!Issue(g, p)
    BY <2>1, <2>2 DEF R!Issue, RP!Issue, R!Bound, RP!Bound
  <2>3. ASSUME NEW g \in Callback, R!ExpireGrant(g)
        PROVE  RP!ExpireGrant(g)
    BY <2>1, <2>3 DEF R!ExpireGrant, RP!ExpireGrant
  <2>4. ASSUME NEW e \in Exchange, NEW g \in Callback, NEW kind \in {"code", "ticket"},
               NEW client \in Client, NEW uri \in RedirectUri,
               R!Redeem(e, g, kind, client, uri)
        PROVE  RP!Redeem(e, g, kind, client, uri)
    BY <2>1, <2>4
    DEF R!Redeem, RP!Redeem, R!Redeemable, RP!Redeemable, R!Consume, RP!Consume,
        R!AfterConsume, RP!AfterConsume, R!Idle, RP!Idle
  <2>5. ASSUME NEW e \in Exchange, R!Lookup(e) \/ R!Sign(e) \/ R!Abort(e)
        PROVE  RP!Lookup(e) \/ RP!Sign(e) \/ RP!Abort(e)
    BY <2>5
    DEF R!Lookup, RP!Lookup, R!Sign, RP!Sign, R!Abort, RP!Abort, R!ActiveFor, RP!ActiveFor,
        R!Bound, RP!Bound, R!TokenFor, RP!TokenFor
  <2>6. ASSUME NEW k \in Key, NEW u \in User, R!LinkIdentity(k, u)
        PROVE  RP!LinkIdentity(k, u)
    BY <2>6
    DEF R!LinkIdentity, RP!LinkIdentity, R!UniqueViolation, RP!UniqueViolation,
        R!HasIdentity, RP!HasIdentity, R!InsertRow, RP!InsertRow
  <2>7. ASSUME NEW k \in Key, R!Revoke(k)
        PROVE  RP!Revoke(k)
    BY <2>7 DEF R!Revoke, RP!Revoke
  <2>8. CASE UNCHANGED R!vars
    BY <2>8 DEF R!vars, RP!vars
  <2> QED
    BY <2>1, <2>2, <2>3, <2>4, <2>5, <2>6, <2>7, <2>8 DEF R!Next, RP!Next
<1> QED
  BY <1>1, <1>2, PTL DEF R!Spec, RP!Spec

\* ... and LP reads IdentityLink as L does.
LEMMA SameIdentityLink == L!Spec => LP!Spec
<1>1. L!Init => LP!Init
  BY DEF L!Init, LP!Init, L!Idle, LP!Idle, L!Table, LP!Table, L!Row, LP!Row,
         L!OneIdentityPerUser, LP!OneIdentityPerUser
<1>2. [L!Next]_(L!linkVars) => [LP!Next]_(LP!linkVars)
  <2>1. ASSUME NEW l \in Linker, L!Step(l)
        PROVE  LP!Step(l)
    BY <2>1
    DEF L!Step, LP!Step, L!Select, LP!Select, L!Update, LP!Update, L!Insert, LP!Insert,
        L!Fail, LP!Fail, L!LoseReply, LP!LoseReply, L!AfterSelect, LP!AfterSelect,
        L!Bound, LP!Bound, L!UniqueViolation, LP!UniqueViolation,
        L!HasIdentity, LP!HasIdentity, L!InsertRow, LP!InsertRow
  <2>2. ASSUME NEW l \in Linker, NEW k \in Key, NEW u \in User, L!Begin(l, k, u)
        PROVE  LP!Begin(l, k, u)
    BY <2>2 DEF L!Begin, LP!Begin, L!Idle, LP!Idle
  <2>3. ASSUME NEW k \in Key, L!Revoke(k)
        PROVE  LP!Revoke(k)
    BY <2>3 DEF L!Revoke, LP!Revoke
  <2>4. CASE UNCHANGED L!linkVars
    BY <2>4 DEF L!linkVars, LP!linkVars
  <2> QED
    BY <2>1, <2>2, <2>3, <2>4 DEF L!Next, LP!Next
<1> QED
  BY <1>1, <1>2, PTL DEF L!Spec, LP!Spec

\* NULL is no row, and the marks in Redis are no payloads, to them too.
LEMMA PartsAssume ==
    /\ NoRow \notin RP!Row
    /\ NoRow \notin LP!Row
    /\ Unissued # Spent
    /\ Unissued \notin RP!Payload
    /\ Spent \notin RP!Payload
  BY ServiceAssumption, FlowAssumption
  DEF RP!Payload, R!Payload, RP!Row, LP!Row, L!Row

\* A code or ticket of the running service never yields two tokens; one that is
\* refused for its identity had it revoked; a token of a code names whoever has
\* its identity, for as long as it is believed.
THEOREM ServiceRedeemsSafely ==
    Spec => [](R!OneTokenPerGrant /\ R!InactiveMeansRevoked /\ R!TokensNameOwners)
<1>1. RP!Spec => []RP!OneTokenPerGrant
  BY RP!OneToken, PartsAssume
<1>2. RP!Spec => []RP!InactiveMeansRevoked
  BY RP!InactiveIsRevoked, PartsAssume
<1>3. RP!Spec => []RP!TokensNameOwners
  BY RP!TokensNameTheirOwners, PartsAssume
<1>4. /\ RP!OneTokenPerGrant => R!OneTokenPerGrant
      /\ RP!InactiveMeansRevoked => R!InactiveMeansRevoked
      /\ RP!TokensNameOwners => R!TokensNameOwners
  BY DEF RP!OneTokenPerGrant, R!OneTokenPerGrant, RP!InactiveMeansRevoked,
         R!InactiveMeansRevoked, RP!TokensNameOwners, R!TokensNameOwners,
         RP!IsRevoked, R!IsRevoked, RP!Bound, R!Bound
<1> QED
  BY <1>1, <1>2, <1>3, <1>4, ServiceImplementsRedemption, SameRedemption, PTL
  DEF ImplementsRedemption

\* In the running service too a link() that answered ok has linked its identity
\* for good, one that was refused met a real conflict, and no interleaving of
\* callbacks, Django's requests and revocations moves, loses or revives a link.
THEOREM ServiceLinksSafely ==
    Spec => [](L!OkMeansBound /\ L!RefusalIsReal) /\ L!BindingStable
<1>1. LP!Spec => []LP!OkMeansBound
  BY LP!OkIsTrue, PartsAssume
<1>2. LP!Spec => []LP!RefusalIsReal
  BY LP!RefusalsAreReal, PartsAssume
<1>3. LP!Spec => LP!BindingStable
  BY LP!BindingsAreStable, PartsAssume
<1>4. /\ LP!OkMeansBound => L!OkMeansBound
      /\ LP!RefusalIsReal => L!RefusalIsReal
  BY DEF LP!OkMeansBound, L!OkMeansBound, LP!RefusalIsReal, L!RefusalIsReal,
         LP!SameRequest, L!SameRequest, LP!Bound, L!Bound
<1>5. LP!BindingStable => L!BindingStable
  BY PTL DEF LP!BindingStable, L!BindingStable, LP!linkVars, L!linkVars
<1> QED
  BY <1>1, <1>2, <1>3, <1>4, <1>5, ServiceImplementsIdentityLink, SameIdentityLink, PTL

\* In the running service too a code whose identity is revoked before an exchange
\* looks at it never yields a token, whatever callbacks and links come after.
THEOREM ServiceRevokesCodes == Spec => R!RevokedCodeIsDead
<1>1. RP!Spec => RP!RevokedCodeIsDead
  BY RP!RevokedCode, PartsAssume
<1>2. ASSUME NEW g \in Callback
      PROVE  RP!RevokedCodeIsDead =>
                 [](R!Doomed(g) => [](\A t \in tokens : exchanges[t.jti].grant # g))
  <2>1. R!Doomed(g) => RP!Doomed(g)
    BY DEF R!Doomed, RP!Doomed, R!Redeemable, RP!Redeemable, R!Payload, RP!Payload,
           R!IsRevoked, RP!IsRevoked
  <2>2. RP!RevokedCodeIsDead =>
            [](RP!Doomed(g) => [](\A t \in tokens : exchanges[t.jti].grant # g))
    BY DEF RP!RevokedCodeIsDead
  <2> QED
    BY <2>1, <2>2, PTL
<1>3. RP!RevokedCodeIsDead => R!RevokedCodeIsDead
  BY <1>2 DEF R!RevokedCodeIsDead
<1> QED
  BY <1>1, <1>3, ServiceImplementsRedemption, SameRedemption, PTL DEF ImplementsRedemption

\* RP's promise is R's ...
LEMMA SamePromise == RP!ImplementsSingleUse => R!ImplementsSingleUse
<1>1. RP!Promise!Init => R!Promise!Init
  BY DEF RP!Promise!Init, R!Promise!Init, RP!Payload, R!Payload, RP!Idle, R!Idle
<1>2. [RP!Promise!Next]_(RP!Promise!vars) => [R!Promise!Next]_(R!Promise!vars)
  BY DEF RP!Promise!Next, R!Promise!Next, RP!Promise!Issue, R!Promise!Issue,
         RP!Promise!Claim, R!Promise!Claim, RP!Promise!Lapse, R!Promise!Lapse,
         RP!Promise!vars, R!Promise!vars, RP!Payload, R!Payload, RP!Idle, R!Idle
<1> QED
  BY <1>1, <1>2, PTL
  DEF RP!ImplementsSingleUse, R!ImplementsSingleUse, RP!Promise!Spec, R!Promise!Spec

\* ... and the service keeps it: what its callbacks put into Redis is claimed by
\* one exchange at most, or lapses.
THEOREM ServiceImplementsSingleUse == Spec => R!ImplementsSingleUse
<1>1. RP!Spec => RP!ImplementsSingleUse
  BY RP!Refinement, PartsAssume
<1> QED
  BY <1>1, SamePromise, ServiceImplementsRedemption, SameRedemption, PTL
  DEF ImplementsRedemption
=============================================================================
