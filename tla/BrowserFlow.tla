----------------------------- MODULE BrowserFlow -----------------------------
(***************************************************************************)
(* The browser's way through the service, GET requests all of them         *)
(* (src/src/oauth): /authorize checks the client and keeps what it         *)
(* approved in a session in Redis; /oauth/google/start or                  *)
(* /oauth/enterprise/:partnerSlug/start adds a PKCE verifier to the        *)
(* session and sends the browser to an identity provider (IdP); the        *)
(* callback of that path has the IdP's answer verified and ends in a       *)
(* grant (authorization code or registration ticket) or in an error.       *)
(*                                                                         *)
(* Every handler is cut at the awaits other requests can run in.  What it  *)
(* read before an await it keeps: a start and a callback work on a copy    *)
(* of the session.  A random identifier stands for the request that drew   *)
(* it: a session, its cookie, state and nonce for the /authorize request,  *)
(* a verifier for the start, a grant for the callback.  So a request       *)
(* happens once, and the sets of requests bound the model.                 *)
(*                                                                         *)
(* A request turned away before its first effect (rate limit, missing or   *)
(* wrong parameter, no session) is a stuttering step.                      *)
(***************************************************************************)
CONSTANTS
    Authorize, Start, Callback,     \* requests to the three endpoints
    Django,         \* Django's POST /internal/v1/identity/link requests
    Client, RedirectUri, User,
    AllowedUri,     \* <<client, uri>> the registry allows
    AllowedPurpose, \* <<client, purpose>> the registry allows
    Asks,           \* the /authorize queries considered
    Ticket,         \* link tickets minted by Django ...
    TicketUser,     \* ... and the KIS user each was minted for
    Partner,        \* slugs of the tenants with an IdP of their own
    Sub,            \* `sub` claims
    Authn,          \* authentications an IdP answers with a code
    PkceIdps,       \* the IdPs that enforce PKCE
    NoRow, NoUser, NoPartner, NoTicket, NoVerifier, NoAuthn, NoSession,
    Unissued, Spent

Purpose == {"link", "recovery", "registration", "enterprise_sso_registration"}

Slug == Partner \cup {NoPartner}

Idp == {"google"} \cup Partner

\* (provider, provider_subject).  compositeOidcSubject writes `slug:sub`, and
\* a slug has no colon, so the pair can be read back from it.
Key == ({"google"} \X Sub) \cup ({"oidc"} \X (Partner \X Sub))

Linker == Callback \cup Django

Ask == [client : Client, uri : RedirectUri, purpose : Purpose,
        ticket : Ticket \cup {NoTicket}, partner : Slug]

ASSUME AsksAreQueries == /\ Asks \subseteq Ask
                         /\ TicketUser \in [Ticket -> User]
                         /\ PkceIdps \subseteq Idp

VARIABLES
    authorizes,     \* authorizes[a]: how far request a is, and its query
    claimed,        \* link tickets whose nonce is in Redis
    sessions,       \* sessions[a]: the session that request a created
    starts, callbacks,
    authns,         \* authns[n]: what the IdP's code n stands for
    grants,         \* codes and tickets in Redis, by the callback that issues them
    identities, links

L == INSTANCE IdentityLink

browserVars == <<authorizes, claimed, sessions, starts, callbacks, authns>>
flowVars == <<browserVars, grants, identities, links>>

Idle == [pc |-> "idle"]

\* SecurityEventType, as far as callbacks go.  A callback emits one event at
\* most and waits neither for it nor for its failure.
Success == {"oauth.callback_succeeded", "link.succeeded", "registration.ticket_issued"}

EventType == Success \cup
    {"none", "oauth.enterprise_config_failed", "oauth.callback_failed",
     "oauth.identity_not_linked", "link.already_linked",
     "registration.already_registered"}

Cancelled == [pc |-> "cancelled", event |-> "oauth.cancelled"]

\* OAuthSession.
Session == [client : Client, uri : RedirectUri, purpose : Purpose,
            linkUser : User \cup {NoUser}, partner : Slug,
            verifier : Start \cup {NoVerifier}]

Started == [pc : {"update", "sent", "failed"}, sid : Authorize, idp : Idp,
            session : Session]

\* What the IdP answers with.
Authentication == [idp : Idp, sub : Sub, nonce : Authorize, challenge : Start,
                   redeemed : BOOLEAN]

Returned == [pc : {"verify", "failed", "find", "link", "register", "ticket", "report",
                   "unknown", "spend", "delete", "code", "done", "refused"},
             sid : Authorize, idp : Idp, authn : Authn, session : Session,
             user : User \cup {NoUser}, event : EventType]

\* NULL is no row, a request is to one endpoint, and no answer is no answer.
ASSUME FlowAssumption == /\ NoRow \notin L!Row
                         /\ Callback \cap Django = {}
                         /\ NoAuthn \notin Authentication

FlowTypeOK ==
    /\ authorizes \in [Authorize ->
           {Idle} \cup [pc : {"approved", "created", "aborted"}, ask : Asks]]
    /\ claimed \subseteq Ticket
    /\ sessions \in [Authorize -> Session \cup {NoSession}]
    /\ starts \in [Start -> {Idle} \cup Started]
    /\ authns \in [Authn -> {NoAuthn} \cup Authentication]
    /\ callbacks \in [Callback -> {Idle, Cancelled} \cup Returned]

FlowInit == /\ authorizes = [a \in Authorize |-> Idle]
            /\ claimed = {}
            /\ sessions = [a \in Authorize |-> NoSession]
            /\ starts = [s \in Start |-> Idle]
            /\ callbacks = [c \in Callback |-> Idle]
            /\ authns = [n \in Authn |-> NoAuthn]
            /\ grants = [c \in Callback |-> Unissued]
            /\ L!Init

\* DEL of the session's key.
Deleted(a) == [sessions EXCEPT ![a] = NoSession]

----------------------------------------------------------------------------
(* GET /authorize                                                          *)

\* The client is active and registers the redirect_uri and the purpose, and a
\* "link" query brings a link ticket, whose nonce is claimed (SET NX).
Claims(ask) == IF ask.purpose = "link" THEN {ask.ticket} ELSE {}

Approve(a, ask) ==
    /\ authorizes[a] = Idle
    /\ <<ask.client, ask.uri>> \in AllowedUri
    /\ <<ask.client, ask.purpose>> \in AllowedPurpose
    /\ Claims(ask) \subseteq Ticket \ claimed
    /\ claimed' = claimed \cup Claims(ask)
    /\ authorizes' = [authorizes EXCEPT ![a] = [pc |-> "approved", ask |-> ask]]
    /\ UNCHANGED <<sessions, starts, callbacks, authns, grants, identities, links>>

SessionFor(ask) ==
    [client |-> ask.client, uri |-> ask.uri, purpose |-> ask.purpose,
     linkUser |-> IF ask.purpose = "link" THEN TicketUser[ask.ticket] ELSE NoUser,
     partner |-> ask.partner, verifier |-> NoVerifier]

CreateSession(a) ==
    /\ authorizes[a].pc = "approved"
    /\ authorizes' = [authorizes EXCEPT ![a].pc = "created"]
    /\ sessions' = [sessions EXCEPT ![a] = SessionFor(authorizes[a].ask)]
    /\ UNCHANGED <<claimed, starts, callbacks, authns, grants, identities, links>>

\* Redis fails or the process stops: the ticket stays claimed.
AbortAuthorize(a) ==
    /\ authorizes[a].pc = "approved"
    /\ authorizes' = [authorizes EXCEPT ![a].pc = "aborted"]
    /\ UNCHANGED <<claimed, sessions, starts, callbacks, authns, grants,
                   identities, links>>

\* SESSION_TTL_SECONDS pass.
ExpireSession(a) ==
    /\ sessions[a] # NoSession
    /\ sessions' = Deleted(a)
    /\ UNCHANGED <<authorizes, claimed, starts, callbacks, authns, grants,
                   identities, links>>

----------------------------------------------------------------------------
(* GET /oauth/google/start and /oauth/enterprise/:partnerSlug/start        *)

\* Mutant of OnPath: the path's partner is not compared.
OnAnyPath(session, idp) == TRUE

\* The session may be used on the path of IdP `idp`: a partner's start and
\* callback compare session.partnerSlug with the path, Google's do not.
OnPath(session, idp) == idp \in Partner => session.partner = idp

StartGet(s, a, idp) ==
    /\ starts[s] = Idle
    /\ sessions[a] # NoSession
    /\ OnPath(sessions[a], idp)
    /\ starts' = [starts EXCEPT ![s] = [pc |-> "update", sid |-> a, idp |-> idp,
                                        session |-> sessions[a]]]
    /\ UNCHANGED <<authorizes, claimed, sessions, callbacks, authns, grants,
                   identities, links>>

\* Mutant of WithVerifier: a verifier that is already there is kept.
KeepVerifier(s) ==
    IF starts[s].session.verifier # NoVerifier
      THEN starts[s].session
      ELSE [starts[s].session EXCEPT !.verifier = s]

\* The session that start s writes: the copy it read, with its own verifier.
WithVerifier(s) == [starts[s].session EXCEPT !.verifier = s]

\* sessions.update: TTL, then a SET that does not ask whether the key is still
\* there.  If its answer is lost, the client sends it again or gives up.
StartUpdate(s) ==
    /\ starts[s].pc = "update"
    /\ sessions' = [sessions EXCEPT ![starts[s].sid] = WithVerifier(s)]
    /\ starts' \in {starts, [starts EXCEPT ![s].pc = "sent"]}
    /\ UNCHANGED <<authorizes, claimed, callbacks, authns, grants, identities, links>>

\* A partner's configuration or discovery document cannot be had.
StartDrop(s) ==
    /\ starts[s].pc = "update"
    /\ starts[s].idp \in Partner
    /\ sessions' = Deleted(starts[s].sid)
    /\ starts' = [starts EXCEPT ![s].pc = "failed"]
    /\ UNCHANGED <<authorizes, claimed, callbacks, authns, grants, identities, links>>

AbortStart(s) ==
    /\ starts[s].pc = "update"
    /\ starts' = [starts EXCEPT ![s].pc = "failed"]
    /\ UNCHANGED <<authorizes, claimed, sessions, callbacks, authns, grants,
                   identities, links>>

\* An IdP authenticates somebody for the parameters the browser brings: the
\* nonce and PKCE challenge of a start, at that start's IdP or, as the IdPs
\* know nothing of one another, at any.
Authenticate(n, s, idp, sub) ==
    /\ authns[n] = NoAuthn
    /\ starts[s].pc = "sent"
    /\ authns' = [authns EXCEPT ![n] =
                     [idp |-> idp, sub |-> sub, nonce |-> starts[s].sid,
                      challenge |-> s, redeemed |-> FALSE]]
    /\ UNCHANGED <<authorizes, claimed, sessions, starts, callbacks, grants,
                   identities, links>>

----------------------------------------------------------------------------
(* GET /oauth/google/callback and /oauth/enterprise/:partnerSlug/callback  *)

\* The browser comes back to IdP idp's callback with the cookie and the state
\* of session a and with code n, whoever that code was issued to.
CallbackGet(c, a, idp, n) ==
    /\ callbacks[c] = Idle
    /\ sessions[a] # NoSession
    /\ sessions[a].verifier # NoVerifier
    /\ OnPath(sessions[a], idp)
    /\ authns[n] # NoAuthn
    /\ callbacks' = [callbacks EXCEPT ![c] =
                        [pc |-> "verify", sid |-> a, idp |-> idp, authn |-> n,
                         session |-> sessions[a], user |-> NoUser, event |-> "none"]]
    /\ UNCHANGED <<authorizes, claimed, sessions, starts, authns, grants,
                   identities, links>>

\* The IdP reports an error, a declined consent for one.  The session need not
\* have a verifier.
Cancel(c, a, idp) ==
    /\ callbacks[c] = Idle
    /\ sessions[a] # NoSession
    /\ OnPath(sessions[a], idp)
    /\ sessions' = Deleted(a)
    /\ callbacks' = [callbacks EXCEPT ![c] = Cancelled]
    /\ UNCHANGED <<authorizes, claimed, starts, authns, grants, identities, links>>

\* Mutant of Accepted: the nonce of the id_token is not compared.
AcceptedAnyNonce(callback, authn) ==
    /\ ~ authn.redeemed
    /\ authn.idp = callback.idp
    /\ authn.idp \in PkceIdps => callback.session.verifier = authn.challenge

\* The IdP takes the code back once, from the client it issued it to, and if it
\* enforces PKCE for the verifier of the challenge it was given; the id_token
\* must be this IdP's and carry the session's nonce.
Accepted(callback, authn) ==
    /\ ~ authn.redeemed
    /\ authn.idp = callback.idp
    /\ authn.idp \in PkceIdps => callback.session.verifier = authn.challenge
    /\ authn.nonce = callback.sid

\* The identity that authn proves.
KeyOf(authn) ==
    IF authn.idp = "google" THEN <<"google", authn.sub>>
                            ELSE <<"oidc", <<authn.idp, authn.sub>>>>

\* Mutant of VerifiedKey: a tenant's subject is taken for Google's.
SubjectWithoutTenant(c) == <<"google", authns[callbacks[c].authn].sub>>

VerifiedKey(c) == KeyOf(authns[callbacks[c].authn])

\* The code is exchanged and the id_token verified; a "link" session goes
\* straight to link(), the others look the identity up.
Verify(c) ==
    /\ callbacks[c].pc = "verify"
    /\ Accepted(callbacks[c], authns[callbacks[c].authn])
    /\ authns' = [authns EXCEPT ![callbacks[c].authn].redeemed = TRUE]
    /\ IF callbacks[c].session.purpose = "link"
         THEN /\ callbacks' = [callbacks EXCEPT ![c].pc = "link"]
              /\ L!Begin(c, VerifiedKey(c), callbacks[c].session.linkUser)
         ELSE /\ callbacks' = [callbacks EXCEPT ![c].pc = "find"]
              /\ UNCHANGED <<identities, links>>
    /\ UNCHANGED <<authorizes, claimed, sessions, starts, grants>>

FailureEvents(idp) ==
    {"oauth.callback_failed"}
    \cup IF idp \in Partner THEN {"oauth.enterprise_config_failed"} ELSE {}

\* The exchange or the verification fails, for a reason above or because the
\* IdP, or a partner's configuration, cannot be had.  The event goes out before
\* the DEL; if that fails too, AbortCallback stands for both.
VerifyFail(c) ==
    /\ callbacks[c].pc = "verify"
    /\ sessions' = Deleted(callbacks[c].sid)
    /\ \E event \in FailureEvents(callbacks[c].idp) :
          callbacks' = [callbacks EXCEPT ![c].pc = "failed", ![c].event = event]
    /\ UNCHANGED <<authorizes, claimed, starts, authns, grants, identities, links>>

\* findByProviderSubject.
Find(c) ==
    LET row == identities[VerifiedKey(c)]
        user == IF row = NoRow THEN NoUser ELSE row.user
    IN  /\ callbacks[c].pc = "find"
        /\ callbacks' = [callbacks EXCEPT
              ![c].user = user,
              ![c].pc = IF callbacks[c].session.purpose = "registration" THEN "register"
                        ELSE IF user = NoUser THEN "unknown" ELSE "spend"]
        /\ UNCHANGED <<authorizes, claimed, sessions, starts, authns, grants,
                       identities, links>>

----------------------------------------------------------------------------
(* OAuthOutcomeService                                                     *)

\* finalizeRegistration: the session goes first; an identity that was found is
\* refused as already_registered.
Register(c) ==
    /\ callbacks[c].pc = "register"
    /\ sessions' = Deleted(callbacks[c].sid)
    /\ callbacks' = [callbacks EXCEPT ![c] =
          IF callbacks[c].user = NoUser
            THEN [@ EXCEPT !.pc = "ticket"]
            ELSE [@ EXCEPT !.pc = "refused", !.event = "registration.already_registered"]]
    /\ UNCHANGED <<authorizes, claimed, starts, authns, grants, identities, links>>

\* Mutant of RegistrationTicket: every ticket's purpose is "registration".
TicketOfOnePurpose(c) ==
    LET session == callbacks[c].session
    IN  [kind |-> "ticket", client |-> session.client, uri |-> session.uri,
         purpose |-> session.purpose, key |-> VerifiedKey(c),
         slug |-> IF callbacks[c].idp = "google" THEN NoPartner ELSE callbacks[c].idp]

RegistrationTicket(c) ==
    LET session == callbacks[c].session
    IN  [kind |-> "ticket", client |-> session.client, uri |-> session.uri,
         purpose |-> IF callbacks[c].idp = "google" THEN "registration"
                                                    ELSE "enterprise_sso_registration",
         key |-> VerifiedKey(c),
         slug |-> IF callbacks[c].idp = "google" THEN NoPartner ELSE callbacks[c].idp]

\* The ticket is in Redis; only then, and if the answer comes, is it reported.
StoreTicket(c) ==
    /\ callbacks[c].pc = "ticket"
    /\ grants' = [grants EXCEPT ![c] = RegistrationTicket(c)]
    /\ callbacks' = [callbacks EXCEPT ![c].pc = "report"]
    /\ UNCHANGED <<authorizes, claimed, sessions, starts, authns, identities, links>>

\* Mutant of ReportTicket: nothing is emitted.
ReportTicketSilently(c) ==
    /\ callbacks[c].pc = "report"
    /\ callbacks' = [callbacks EXCEPT ![c].pc = "done"]
    /\ UNCHANGED <<authorizes, claimed, sessions, starts, authns, grants,
                   identities, links>>

\* The ticket's id goes to the browser with the report.
ReportTicket(c) ==
    /\ callbacks[c].pc = "report"
    /\ callbacks' = [callbacks EXCEPT ![c].pc = "done",
                                      ![c].event = "registration.ticket_issued"]
    /\ UNCHANGED <<authorizes, claimed, sessions, starts, authns, grants,
                   identities, links>>

\* finalizeReturningUser without an identity: not_linked.
RefuseUnknown(c) ==
    /\ callbacks[c].pc = "unknown"
    /\ sessions' = Deleted(callbacks[c].sid)
    /\ callbacks' = [callbacks EXCEPT ![c].pc = "refused",
                                      ![c].event = "oauth.identity_not_linked"]
    /\ UNCHANGED <<authorizes, claimed, starts, authns, grants, identities, links>>

\* finalizeReturningUser with one: success is reported, then the challenge is
\* created.  The challenge's id never leaves the request, so its record only
\* carries session and identity to IssueCode, or has expired by then (Abort).
CreateChallenge(c) ==
    /\ callbacks[c].pc = "spend"
    /\ callbacks' = [callbacks EXCEPT ![c].pc = "delete",
                                      ![c].event = "oauth.callback_succeeded"]
    /\ UNCHANGED <<authorizes, claimed, sessions, starts, authns, grants,
                   identities, links>>

SpendSession(c) ==
    /\ callbacks[c].pc = "delete"
    /\ sessions' = Deleted(callbacks[c].sid)
    /\ callbacks' = [callbacks EXCEPT ![c].pc = "code"]
    /\ UNCHANGED <<authorizes, claimed, starts, authns, grants, identities, links>>

\* Mutant of LinkAnswered: the answer of link() is not read.
LinkTakenAsOk(c) ==
    /\ callbacks[c].pc = "link"
    /\ links[c].pc \in {"ok", "refused"}
    /\ sessions' = Deleted(callbacks[c].sid)
    /\ callbacks' = [callbacks EXCEPT ![c].pc = "code",
                                      ![c].user = callbacks[c].session.linkUser,
                                      ![c].event = "link.succeeded"]
    /\ UNCHANGED <<authorizes, claimed, starts, authns, grants, identities, links>>

\* finalizeLink after link(): the session is deleted whatever the answer.
LinkAnswered(c) ==
    /\ callbacks[c].pc = "link"
    /\ links[c].pc \in {"ok", "refused"}
    /\ sessions' = Deleted(callbacks[c].sid)
    /\ callbacks' = [callbacks EXCEPT ![c] =
          IF links[c].pc = "ok"
            THEN [@ EXCEPT !.pc = "code", !.user = callbacks[c].session.linkUser,
                           !.event = "link.succeeded"]
            ELSE [@ EXCEPT !.pc = "refused", !.user = callbacks[c].session.linkUser,
                           !.event = "link.already_linked"]]
    /\ UNCHANGED <<authorizes, claimed, starts, authns, grants, identities, links>>

\* Mutant of AuthorizationCode: the user is the session's, not the identity's.
CodeForSessionUser(c) ==
    LET session == callbacks[c].session
    IN  [kind |-> "code", client |-> session.client, uri |-> session.uri,
         purpose |-> session.purpose, key |-> VerifiedKey(c), user |-> session.linkUser]

\* confirmAndRedirect: the payload is the challenge record's, the redirect_uri
\* the session's.
AuthorizationCode(c) ==
    LET session == callbacks[c].session
    IN  [kind |-> "code", client |-> session.client, uri |-> session.uri,
         purpose |-> session.purpose, key |-> VerifiedKey(c), user |-> callbacks[c].user]

\* The code is in Redis, whether the browser gets it or the answer is lost.
IssueCode(c) ==
    /\ callbacks[c].pc = "code"
    /\ grants' = [grants EXCEPT ![c] = AuthorizationCode(c)]
    /\ \E pc \in {"done", "failed"} : callbacks' = [callbacks EXCEPT ![c].pc = pc]
    /\ UNCHANGED <<authorizes, claimed, sessions, starts, authns, identities, links>>

\* Redis or PostgreSQL fails, the challenge expires or the process stops.  A
\* callback that waits for link() fails when link() does.
AbortCallback(c) ==
    /\ \/ callbacks[c].pc \in {"verify", "find", "register", "ticket", "report",
                               "unknown", "spend", "delete", "code"}
       \/ callbacks[c].pc = "link" /\ links[c].pc \in {"ok", "refused", "failed"}
    /\ callbacks' = [callbacks EXCEPT ![c].pc = "failed"]
    /\ UNCHANGED <<authorizes, claimed, sessions, starts, authns, grants,
                   identities, links>>

----------------------------------------------------------------------------
AuthorizeStep == \E a \in Authorize :
    \/ \E ask \in Asks : Approve(a, ask)
    \/ CreateSession(a)
    \/ AbortAuthorize(a)
    \/ ExpireSession(a)

StartStep == \E s \in Start :
    \/ \E a \in Authorize, idp \in Idp : StartGet(s, a, idp)
    \/ StartUpdate(s)
    \/ StartDrop(s)
    \/ AbortStart(s)
    \/ \E n \in Authn, idp \in Idp, sub \in Sub : Authenticate(n, s, idp, sub)

CallbackStep == \E c \in Callback :
    \/ \E a \in Authorize, idp \in Idp, n \in Authn : CallbackGet(c, a, idp, n)
    \/ \E a \in Authorize, idp \in Idp : Cancel(c, a, idp)
    \/ Verify(c)
    \/ VerifyFail(c)
    \/ Find(c)
    \/ Register(c)
    \/ StoreTicket(c)
    \/ ReportTicket(c)
    \/ RefuseUnknown(c)
    \/ CreateChallenge(c)
    \/ SpendSession(c)
    \/ LinkAnswered(c)
    \/ IssueCode(c)
    \/ AbortCallback(c)

FlowNext == AuthorizeStep \/ StartStep \/ CallbackStep
=============================================================================
