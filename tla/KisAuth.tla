------------------------------- MODULE KisAuth -------------------------------
(***************************************************************************)
(* The whole service: the browser's flow issues grants, Django redeems     *)
(* them for signed tokens and links identities, and an operator may revoke *)
(* an identity at any time.  BrowserFlow, Redemption and IdentityLink meet *)
(* in Redis (grants) and in PostgreSQL (identities).                       *)
(***************************************************************************)
EXTENDS BrowserFlow

CONSTANT Exchange       \* Django's redemption requests

VARIABLES exchanges, tokens

R == INSTANCE Redemption WITH Grant <- Callback

\* "Not yet" and "no longer in Redis" differ and are nothing to redeem.
ASSUME ServiceAssumption == /\ Unissued # Spent
                            /\ Unissued \notin R!Payload
                            /\ Spent \notin R!Payload

vars == <<flowVars, exchanges, tokens>>

TypeOK == FlowTypeOK /\ R!TypeOK /\ L!TypeOK

Init == /\ FlowInit
        /\ exchanges = [e \in Exchange |-> R!Idle]
        /\ tokens = {}

Flow == FlowNext /\ UNCHANGED <<exchanges, tokens>>

LinkStatement == /\ \E l \in Linker : L!Step(l)
                 /\ UNCHANGED <<browserVars, grants, exchanges, tokens>>

\* What Django is assumed to do, and the controller cannot check, as it links
\* whatever pair the signed request names: it asks for the identity of a
\* registration token to be linked, to the account it has created for it.
DjangoAsksFor(t) == "slug" \in DOMAIN t

\* POST /internal/v1/identity/link.
DjangoLink(l, t, u) ==
    /\ l \in Django
    /\ DjangoAsksFor(t)
    /\ L!Begin(l, t.key, u)
    /\ UNCHANGED <<browserVars, grants, exchanges, tokens>>

Revoke(k) == /\ L!Revoke(k)
             /\ UNCHANGED <<browserVars, grants, exchanges, tokens>>

\* A grant's id is random: nobody has it before the callback's redirect.
Redemptions ==
    /\ \/ \E g \in Callback : R!ExpireGrant(g)
       \/ \E e \in Exchange, g \in Callback, kind \in {"code", "ticket"},
             client \in Client, uri \in RedirectUri :
                /\ callbacks[g].pc = "done"
                /\ R!Redeem(e, g, kind, client, uri)
       \/ \E e \in Exchange : R!Lookup(e) \/ R!Sign(e) \/ R!Abort(e)
    /\ UNCHANGED <<browserVars, links>>

Next == \/ Flow
        \/ LinkStatement
        \/ \E l \in Django, t \in tokens, u \in User : DjangoLink(l, t, u)
        \/ \E k \in Key : Revoke(k)
        \/ Redemptions

Spec == Init /\ [][Next]_vars

----------------------------------------------------------------------------
\* The callback, the authentication and the /authorize query behind token t.
\* The query is found by the nonce the IdP signed, not by the session cookie.
CallbackOf(t) == callbacks[exchanges[t.jti].grant]
AuthnOf(t) == authns[CallbackOf(t).authn]
AskOf(t) == authorizes[AuthnOf(t).nonce].ask

\* A token says what was approved and proved: its client, redirect_uri and
\* purpose are those of the /authorize query in whose session somebody
\* authenticated as the identity it names, and that client registers them.
TokenProvenance ==
    \A t \in tokens :
        LET ask == AskOf(t)
            enterprise == t.key[1] = "oidc" /\ ask.purpose = "registration"
        IN  /\ t.key = KeyOf(AuthnOf(t))
            /\ t.aud = ask.client
            /\ exchanges[t.jti].payload.uri = ask.uri
            /\ t.purpose = IF enterprise THEN "enterprise_sso_registration"
                                         ELSE ask.purpose
            /\ <<t.aud, ask.uri>> \in AllowedUri
            /\ <<t.aud, ask.purpose>> \in AllowedPurpose
            /\ ask.purpose = "link" => t.sub = TicketUser[ask.ticket]

\* One authentication at an IdP gives at most one token, through concurrent
\* callbacks with one session and concurrent redemptions with one grant.
OneTokenPerAuthentication ==
    \A t1, t2 \in tokens : CallbackOf(t1).authn = CallbackOf(t2).authn => t1 = t2

\* A link ticket links at most one identity, and to the user Django minted it
\* for, though its session may serve several callbacks at once or come back
\* after it was deleted.
TicketLinksOneIdentity ==
    \A c1, c2 \in Callback :
        LET ask1 == authorizes[callbacks[c1].sid].ask
            ask2 == authorizes[callbacks[c2].sid].ask
        IN  /\ links[c1].pc = "ok" => links[c1].user = TicketUser[ask1.ticket]
            /\ (links[c1].pc = "ok" /\ links[c2].pc = "ok" /\ ask1.ticket = ask2.ticket)
                 => links[c1].key = links[c2].key

\* "A session minted for tenant A can never be walked over to tenant B's
\* start/callback URLs": whatever a callback links or issues for an identity of
\* a tenant was approved at /authorize for that tenant.
TenantIsolation ==
    \A c \in Callback :
        /\ links[c].pc = "ok" /\ links[c].key[1] = "oidc" =>
               links[c].key[2][1] = authorizes[callbacks[c].sid].ask.partner
        /\ grants[c] \in R!Payload /\ grants[c].key[1] = "oidc" =>
               grants[c].key[2][1] = authorizes[callbacks[c].sid].ask.partner

\* A success that is reported to Django's security log happened: the user it
\* names has the identity that somebody proved in this very session, whatever
\* fails after the report.
EventsAreTrue ==
    \A c \in Callback :
        callbacks[c] # Idle /\ callbacks[c].event \in Success =>
            /\ authns[callbacks[c].authn].nonce = callbacks[c].sid
            /\ callbacks[c].event # "registration.ticket_issued" =>
                   L!Bound(identities, VerifiedKey(c), callbacks[c].user)
            /\ callbacks[c].event = "link.succeeded" =>
                   callbacks[c].user = TicketUser[authorizes[callbacks[c].sid].ask.ticket]

\* The event that callback c emitted reports grant p: the log names the user of
\* a code, and a ticket has none yet.
Reported(c, p) ==
    IF p.kind = "ticket"
      THEN callbacks[c].event = "registration.ticket_issued"
      ELSE /\ callbacks[c].event \in Success
           /\ callbacks[c].user = p.user

\* Whatever is redeemed was reported, and so is whatever is in Redis, but for a
\* ticket whose callback has not got to it, or never will; that callback has
\* reported nothing else of it.
GrantsAreReported ==
    /\ \A e \in Exchange :
          exchanges[e] # R!Idle =>
              Reported(exchanges[e].grant, exchanges[e].payload)
    /\ \A c \in Callback :
          grants[c] \in R!Payload =>
              \/ Reported(c, grants[c])
              \/ /\ grants[c].kind = "ticket"
                 /\ callbacks[c].pc \in {"report", "failed"}
                 /\ callbacks[c].event = "none"

\* A callback that is over has used up its verifier, if its IdP enforces PKCE: a
\* start that was under way may bring the deleted session back, but never with
\* that verifier, however often its SET is sent.
SpentVerifier ==
    \A c \in Callback :
        callbacks[c].pc = "done" /\ callbacks[c].idp \in PkceIdps =>
            \/ sessions[callbacks[c].sid] = NoSession
            \/ sessions[callbacks[c].sid].verifier # callbacks[c].session.verifier

\* Somebody authenticated as identity k for an /authorize query that allows
\* linking it to user u: a registration, or a link ticket minted for u.
Approved(k, u) ==
    \E n \in Authn :
        LET ask == authorizes[authns[n].nonce].ask
        IN  /\ authns[n] # NoAuthn
            /\ authns[n].redeemed
            /\ KeyOf(authns[n]) = k
            /\ \/ ask.purpose = "registration"
               \/ ask.purpose = "link" /\ TicketUser[ask.ticket] = u

\* A row enters auth_identity only for an identity that somebody has proved to
\* be theirs, by then, and for a user that was approved, whether a callback's
\* link() or the one that Django asks for gets to write it.
LinksAreApproved ==
    [][ \A k \in Key :
          identities[k] = NoRow /\ identities'[k] # NoRow
              => Approved(k, identities'[k].user)
      ]_vars

\* The exchanges see the grants and the table that Redemption assumes: a code
\* reaches Redis once, and only for an identity linked to the user it names.
\* With it come all of Redemption's safety properties.
ImplementsRedemption == R!Spec

\* "A login against a specific tenant's IdP rather than Google": a session
\* approved for a tenant issues nothing for a Google identity.
PartnerSessionStaysWithTenant ==
    \A c \in Callback :
        grants[c] \in R!Payload /\ authorizes[callbacks[c].sid].ask.partner # NoPartner
            => grants[c].key[1] = "oidc"
=============================================================================
