------------------------------ MODULE Redemption ------------------------------
(***************************************************************************)
(* Django redeems what a callback left in Redis: an authorization code at  *)
(* POST /internal/v1/authorization/exchange, a registration ticket at      *)
(* POST /internal/v1/registration/exchange (src/src/exchange).  Either is  *)
(* a grant here; an exchange is one such request, and stands for the jti   *)
(* of the token it may sign.                                               *)
(*                                                                         *)
(* Between the Lua script that takes the grant out of Redis, the SELECT    *)
(* that reads the identity again and the signature, other requests run:    *)
(* each is an action.  A request that is turned away before the script     *)
(* (rate limit, HMAC, a missing field) or that finds no grant changes      *)
(* nothing, which is a stuttering step.                                    *)
(***************************************************************************)
EXTENDS IdentityTable

CONSTANTS Grant,        \* codes and tickets, each named by what issues it
          Exchange,     \* redemption requests
          Client, RedirectUri, Purpose,
          Slug,         \* values of a ticket's partnerSlug, null included
          Unissued,     \* the grant is not in Redis yet
          Spent         \* the grant is no longer in Redis

VARIABLES grants,       \* the kisauth:code: and regticket: keys of Redis
          exchanges,    \* exchanges[e]: how far request e is
          tokens,       \* the JWTs signed so far
          identities    \* the auth_identity table

vars == <<grants, exchanges, tokens, identities>>

\* AuthorizationCodePayload and RegistrationTicketPayload; kind is the prefix
\* of the Redis key.
Payload ==
    [kind : {"code"}, client : Client, uri : RedirectUri, purpose : Purpose,
     key : Key, user : User]
    \cup
    [kind : {"ticket"}, client : Client, uri : RedirectUri, purpose : Purpose,
     key : Key, slug : Slug]

ASSUME GrantMarksDiffer ==
    /\ Unissued # Spent
    /\ Unissued \notin Payload
    /\ Spent \notin Payload

Idle == [pc |-> "idle"]

\* A request that took grant `grant` out of Redis, with what it found there.
Taken == [pc : {"mismatch", "lookup", "inactive", "sign", "minted", "aborted"},
          grant : Grant, payload : Payload]

\* The claims of the two kinds of token.
Token == [jti : Exchange, aud : Client, purpose : Purpose, key : Key, sub : User]
         \cup
         [jti : Exchange, aud : Client, purpose : Purpose, key : Key, slug : Slug]

TypeOK == /\ grants \in [Grant -> Payload \cup {Unissued, Spent}]
          /\ exchanges \in [Exchange -> {Idle} \cup Taken]
          /\ tokens \subseteq Token
          /\ identities \in Table

Init == /\ grants = [g \in Grant |-> Unissued]
        /\ exchanges = [e \in Exchange |-> Idle]
        /\ tokens = {}
        /\ identities \in Table
        /\ OneIdentityPerUser(identities)

----------------------------------------------------------------------------
(* Redis.                                                                  *)

\* Grant g can be redeemed at the endpoint that reads the prefix `kind`.
Redeemable(g, kind) == grants[g] \in Payload /\ grants[g].kind = kind

\* Mutant of Consume: GET without DEL.
ReadOnly(g) == grants

\* CONSUME_SCRIPT: GET and DEL in one script.
Consume(g) == [grants EXCEPT ![g] = Spent]

\* A code is issued for an identity already linked to the user it names.
Issue(g, p) ==
    /\ grants[g] = Unissued
    /\ p \in Payload
    /\ p.kind = "code" => Bound(identities, p.key, p.user)
    /\ grants' = [grants EXCEPT ![g] = p]
    /\ UNCHANGED <<exchanges, tokens, identities>>

\* authCodeTtlSeconds pass.
ExpireGrant(g) ==
    /\ grants[g] \in Payload
    /\ grants' = [grants EXCEPT ![g] = Spent]
    /\ UNCHANGED <<exchanges, tokens, identities>>

----------------------------------------------------------------------------
(* The two exchange endpoints.                                             *)

\* The grant is gone even when the request's client or redirect_uri is wrong.
\* Only a code names an identity to be read again.
AfterConsume(p, client, uri) ==
    CASE p.client # client \/ p.uri # uri -> "mismatch"
      [] p.client = client /\ p.uri = uri /\ p.kind = "code"   -> "lookup"
      [] p.client = client /\ p.uri = uri /\ p.kind = "ticket" -> "sign"

Redeem(e, g, kind, client, uri) ==
    /\ exchanges[e] = Idle
    /\ Redeemable(g, kind)
    /\ grants' = Consume(g)
    /\ exchanges' = [exchanges EXCEPT ![e] =
                        [pc      |-> AfterConsume(grants[g], client, uri),
                         grant   |-> g,
                         payload |-> grants[g]]]
    /\ UNCHANGED <<tokens, identities>>

\* findById, and the check that the identity is still the user's and active.
Lookup(e) ==
    /\ exchanges[e].pc = "lookup"
    /\ LET p == exchanges[e].payload
       IN  exchanges' = [exchanges EXCEPT ![e].pc =
                            IF ActiveFor(identities, p.key, p.user)
                              THEN "sign" ELSE "inactive"]
    /\ UNCHANGED <<grants, tokens, identities>>

\* Mutant of TokenFor: the token of a code names nobody.
TokenWithoutSub(e, p) ==
    [jti |-> e, aud |-> p.client, purpose |-> p.purpose, key |-> p.key]

TokenFor(e, p) ==
    IF p.kind = "code"
      THEN [jti |-> e, aud |-> p.client, purpose |-> p.purpose, key |-> p.key,
            sub |-> p.user]
      ELSE [jti |-> e, aud |-> p.client, purpose |-> p.purpose, key |-> p.key,
            slug |-> p.slug]

Sign(e) ==
    /\ exchanges[e].pc = "sign"
    /\ exchanges' = [exchanges EXCEPT ![e].pc = "minted"]
    /\ tokens' = tokens \cup {TokenFor(e, exchanges[e].payload)}
    /\ UNCHANGED <<grants, identities>>

\* Mutant of Abort: a failed redemption gives the grant back.
AbortRestores(e) ==
    /\ exchanges[e].pc \in {"lookup", "sign"}
    /\ exchanges' = [exchanges EXCEPT ![e].pc = "aborted"]
    /\ grants' = [grants EXCEPT ![exchanges[e].grant] = exchanges[e].payload]
    /\ UNCHANGED <<tokens, identities>>

\* The answer of Redis is lost, PostgreSQL or the signature fails, or the
\* process stops: the request ends and the grant is not put back.
Abort(e) ==
    /\ exchanges[e].pc \in {"lookup", "sign"}
    /\ exchanges' = [exchanges EXCEPT ![e].pc = "aborted"]
    /\ UNCHANGED <<grants, tokens, identities>>

----------------------------------------------------------------------------
(* Meanwhile, in the auth_identity table.                                  *)

LinkIdentity(k, u) ==
    /\ ~ UniqueViolation(identities, k, u)
    /\ identities' = InsertRow(identities, k, u)
    /\ UNCHANGED <<grants, exchanges, tokens>>

Revoke(k) ==
    /\ identities[k] # NoRow
    /\ identities[k].status = "active"
    /\ identities' = [identities EXCEPT ![k].status = "revoked"]
    /\ UNCHANGED <<grants, exchanges, tokens>>

Next == \/ \E g \in Grant, p \in Payload : Issue(g, p)
        \/ \E g \in Grant : ExpireGrant(g)
        \/ \E e \in Exchange, g \in Grant, kind \in {"code", "ticket"},
              client \in Client, uri \in RedirectUri :
                Redeem(e, g, kind, client, uri)
        \/ \E e \in Exchange : Lookup(e) \/ Sign(e) \/ Abort(e)
        \/ \E k \in Key, u \in User : LinkIdentity(k, u)
        \/ \E k \in Key : Revoke(k)

Spec == Init /\ [][Next]_vars

----------------------------------------------------------------------------
\* A code or ticket never yields two tokens, however many redemptions of it
\* run at once, fail half-way or repeat a lost answer.
OneTokenPerGrant ==
    \A t1, t2 \in tokens :
        exchanges[t1.jti].grant = exchanges[t2.jti].grant => t1 = t2

\* The identity of payload p is revoked.
IsRevoked(p) == /\ identities[p.key] # NoRow
                /\ identities[p.key].status = "revoked"

\* Code g waits in Redis, or in a redemption that has not looked yet, and its
\* identity is revoked.
Doomed(g) ==
    \/ Redeemable(g, "code") /\ IsRevoked(grants[g])
    \/ \E e \in Exchange : /\ exchanges[e].pc = "lookup"
                           /\ exchanges[e].grant = g
                           /\ IsRevoked(exchanges[e].payload)

\* "The identity could have been revoked in the window between the browser
\* round-trip and this redemption": a code whose identity is revoked before a
\* redemption looks yields no token, then or ever after.
RevokedCodeIsDead ==
    \A g \in Grant :
        [](Doomed(g) => [](\A t \in tokens : exchanges[t.jti].grant # g))

\* A code turned away by the identity check is one whose identity was revoked:
\* the row it names exists, and still belongs to the user it names.
InactiveMeansRevoked ==
    \A e \in Exchange :
        exchanges[e].pc = "inactive" =>
            /\ IsRevoked(exchanges[e].payload)
            /\ Bound(identities, exchanges[e].payload.key, exchanges[e].payload.user)

\* Whoever a token of a code names has the identity it names, at the signature
\* and for as long as Django may believe the token: the callback, the lookup and
\* whatever is linked or revoked meanwhile cannot come to name another user.
TokensNameOwners ==
    \A t \in tokens : "sub" \in DOMAIN t => Bound(identities, t.key, t.sub)

\* Grants are single-use credentials: a request claims one by taking it out of
\* Redis, whether or not it goes on to a token.
Promise == INSTANCE SingleUse WITH
    Credential <- Grant,
    Claimant   <- Exchange,
    live       <- {g \in Grant : grants[g] \in Payload},
    spent      <- {g \in Grant : grants[g] = Spent},
    claims     <- {<<e, exchanges[e].grant>> :
                       e \in {x \in Exchange : exchanges[x] # Idle}}

ImplementsSingleUse == Promise!Spec
=============================================================================
