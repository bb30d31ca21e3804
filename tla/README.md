# kisauth in TLA+

kisauth is the authentication service of KIS: a browser signs in at an identity
provider (Google, or a tenant's own OpenID Connect provider), and the KIS backend
("Django") exchanges what comes out of it for a signed token. This directory holds
TLA+ models of it, the TLC runs that check them and the TLAPS proofs about them.
Paths below are relative to the repository; lines are those of the modelled commit.

    tlc -workers 2 -config MCRecovery.cfg MCKisAuth     # one run
    tlapm RedemptionProofs.tla                          # one module's proofs

## 1. Inventory

One Node process per instance (any number of instances), Redis for what is
short-lived, PostgreSQL for identities and clients, HTTPS to the IdPs. Handlers are
`async`: between two awaits nothing else runs in a process; across an await anything
may. There are no locks and no transactions except in the migrations, so all that
holds between requests rests on single Redis commands (`SET NX`, one Lua script), on
two UNIQUE constraints, and on the order of each handler's awaits.

| component | state | operations | what makes it correct |
|---|---|---|---|
| Identity table, `identity.service.ts` | `auth_identity` rows | `link`, `findByProviderSubject`, `findById` | an answered link is in the table; links never move; a refusal has a reason; a retry completes |
| Link endpoint, `identity-link.controller.ts` | none of its own | POST `/internal/v1/identity/link` | only calls `link` |
| Codes and tickets, `challenge-store.ts` | Redis keys `kisauth:code:`, `regticket:`, `challenge:` | create, mark used, issue, consume | each is redeemed once |
| Exchanges, `exchange.controller.ts`, `registration-exchange.controller.ts` | none of their own | two POSTs of Django | one token per grant; none for a revoked identity; the claims are those of the flow |
| Authorize, Google start and callback, `oauth.controller.ts`, `oauth-outcome.service.ts` | session and challenge in Redis | three GETs of the browser | the token belongs to the query that was approved and to the person who authenticated |
| Enterprise OIDC bridge, `oidc-enterprise.controller.ts` | the same | start and callback of a tenant's path | a session approved for one tenant is never used for another |
| Session store, `oauth-session.store.ts` | Redis keys of sessions | create, get, update, delete | a session that was used up is of no use |
| id_token verification, code exchange, PKCE | JWKS cached by `jose` | verify | the id_token answers this session's request |
| Provider configuration and discovery caches, `oidc-provider-resolver.service.ts`, `oidc-discovery.service.ts` | maps in the process, by slug and by URL | get, fetch | what is served is recent, whichever fetch arrives last; a secret meets its own configuration's endpoints; no failure is remembered |
| Link tickets, `link-ticket.ts` | Redis keys of nonces | verify and claim | claimed once |
| Internal signing, `internal-signing.ts` | map of nonces in the process | verify | a signed request is accepted once |
| Rate limiter, `rate-limit.ts` | Redis counters | consume | bounded number of requests per window |
| Security events, `security-event.service.ts` | none; posted to Django | emit, not awaited | a reported success happened, nothing redeemable goes unreported |
| Client registry, `client.service.ts` | `client` rows | reads, upsert at start | - |
| Token signing and JWKS | key files read at start | sign, publish | a published key verifies every live token |
| Migrations | `schema_migrations` | run | each file applied once |
| Configuration, pages, cookies, health, wiring | - | - | - |

How they meet. `/authorize` (client registry, link tickets) writes a session; a start
reads it and writes a PKCE verifier into it; a callback reads it, calls the IdP, then
either `link()` or `findByProviderSubject`, deletes the session and puts a grant in
Redis; Django's exchange takes the grant out, reads the identity again and signs.
Django may also call `link()` itself after a registration. An operator revokes
identities in the database.

What is hard here, with the line of each in `PROJECT.json` under `hazards`: two `link()`
calls between each other's SELECT and INSERT; an answer lost after a commit; concurrent
and repeated redemptions of one code; a revocation between sign-in and redemption; two
starts, or a start and a callback, on one session, where the later write is of an older
copy; callbacks that bring one IdP answer to another session; one tenant's session at
another tenant's URL or at Google's; a ticket claimed by a request that then fails;
fetches of one tenant's configuration that overtake one another; a success reported
before the steps that could still fail; and the edges of time windows, where a lifetime
counted in seconds from one event meets a deadline counted from another.

## 2. Modules

    IdentityTable     the table, its constraints, and what link() and findById decide
      IdentityLink      link() statement by statement            IdentityLinkProofs
      Redemption        Redis grants and both exchanges          RedemptionProofs
        implements SingleUse   what a one-time credential is     SingleUseProofs
    BrowserFlow       /authorize, starts, IdPs, callbacks and the events they report;
                      uses IdentityLink
      KisAuth           BrowserFlow + Redemption + Django's link call + revocation;
                        implements Redemption and IdentityLink   KisAuthProofs
    FetchCache        a map of answers of another service, fetched concurrently
      ProviderConfig    the two caches of the enterprise bridge and a request's way
                        through them                             ProviderConfigProofs
    Clock             ticks and seconds
      LinkTicket        link tickets against a clock            LinkTicketProofs
      InternalSigning   Django's signed requests                InternalSigningProofs
    RateLimit         one counter and its window              RateLimitProofs
    MCIdentityLink, MCRedemption, MCKisAuth, MCProviderConfig, MCLinkTicket,
    MCInternalSigning, MCRateLimit                              constants for TLC

### Conventions

* **Actions are cut at awaits.** An action is what a handler does between two awaits
  that another request can get in between of. What it read earlier it holds as a copy
  (`starts[s].session`, `callbacks[c].session`, `exchanges[e].payload`).
* **Random values are named by the request that draws them.** A session id, cookie,
  state and nonce is its `/authorize` request; a verifier (and its S256 challenge) its
  start; a code or ticket its callback; a token's `jti` its exchange. That random
  values do not collide is the one assumption in this. A request happens once, so the
  sets of requests are the bounds of a run: there are no counters.
* **`state` and cookie.** The callback finds its session by the cookie and requires
  `state` to equal the one stored there (`oauth.controller.ts:209, 251`): a request that
  passes names one session, `a` in `CallbackGet`.
* **Turned-away requests stutter.** Rate limit, missing or wrong parameter, failed
  HMAC, no session, no grant: nothing the models keep changes.
* **Failures.** `Abort...` and `Fail` end a request at any await with nothing more
  written: Redis, PostgreSQL, an IdP or the process failed. `LoseReply` is an INSERT, or
  a SET NX, that runs and is not answered.
* **Redis commands may run twice.** `app.module.ts:36` takes ioredis as it comes: after a
  reconnect it sends the commands again whose answers it has not seen, up to its limit of
  retries. Where a second execution tells, it is a step: a counter counts again
  (`Unheard`, then `Check`), a SET NX meets its own key (`LoseReply`, then `Claim`), a
  session is written again (`StartUpdate` that leaves the start where it is). The other
  commands add nothing to what is there: the session that `create` writes has a cookie
  nobody knows yet; a second DEL of a session is one that expires; a code or ticket is
  known to nobody before the callback answers, so that until then it may as well not be
  stored (`StoreTicket`, `IssueCode`; `Redemptions` asks that the callback is over); a
  script that took a grant out and finds nothing the second time is `Redeem` and
  `Abort`; and the nonce of a link ticket that meets itself in `/authorize` is `Approve`
  and `AbortAuthorize`. That Redis itself loses its keys (a flush, a failover that
  loses writes) is left out: every promise here that rests on a key ends with it.
* **Expiry is a step** that may happen at any time in the flow (`ExpireSession`,
  `ExpireGrant`), so nothing there depends on durations, and every behaviour with real
  lifetimes is included. A claimed link ticket stays claimed in `BrowserFlow`; what
  its nonce key's lifetime does to that is `LinkTicket`'s subject. Where durations are
  the point, `now` advances by ticks (`LinkTicket`, `InternalSigning`), or lifetimes
  count down and ages up (`RateLimit`, `FetchCache`); Redis's and the process's clocks
  run at one rate and are never set back.
* **Data.** A key is a `(provider, provider_subject)` pair. The enterprise subject is
  written `slug:sub` (`oidc-identity-key.ts`); slugs have no colon, so it is modelled
  as a pair. `device_verify` and `sensitive_change` take the branch of `recovery`
  and are represented by it. E-mail and `last_authenticated_at` are never read.
* **The challenge record** is created, marked used and read back in one callback and
  its id leaves that request nowhere, so no other request can touch it. It is part of
  `CreateChallenge`, `SpendSession` and `IssueCode`; its expiry in between is an
  `AbortCallback`.
* **Security events** are not awaited and their failures are swallowed, so `emit` is
  part of the step that calls it and `callbacks[c].event` keeps the one event a callback
  reports. Where the report precedes an effect, as `callback_succeeded` precedes the
  code, or follows one that is awaited, as `registration.ticket_issued` follows the
  ticket, they are two steps.
* **The IdP** is external. It authenticates whoever the browser presents, for the
  nonce and challenge of any start that was sent to the browser, and at any IdP (they
  know nothing of each other); it redeems a code once, for its own client, checking
  the verifier if it enforces PKCE (`PkceIdps`). A failed verification may have used
  the code up or not: `VerifyFail` leaves it, which allows more.
* **Revocation** is external: no code writes `status`. It is final; whether operators
  ever undo it cannot be seen from the repository.

### State and actions against the code

*IdentityTable / IdentityLink.* `identities` is `auth_identity`; `links[l]` is a call
of `link()` with its local variables. `Select`, `Update`, `Insert` are its three
statements, the 23505 error being the `refused` branch of `Insert`. `Init` allows every
table the constraints allow.

*Redemption.* `grants[g]` is the key of code or ticket g (`Unissued`, its payload, or
`Spent`); `exchanges[e]` a POST with what it took out of Redis; `tokens` the JWTs.
`Redeem` is the Lua script with the checks of client and redirect_uri that follow it
without an await: a wrong client burns the code (`mismatch`), as in the code. `Lookup`
is `findById` and the active check, `Sign` the signature. `Issue` asks what the
callback must guarantee, that a code's identity is linked to the user it names, and
`KisAuth` shows that it does.

*BrowserFlow.* `authorizes`, `starts`, `callbacks` are requests; `sessions[a]` the Redis
session; `claimed` the link-ticket nonces; `authns[n]` an IdP's code and id_token.
`StartUpdate` is `OAuthSessionStore.update`, TTL and then SET without XX: as in the
code it brings back a session deleted after the start read it. `StartDrop` and
`VerifyFail` delete the session, `AbortStart` and `AbortCallback` do not.
`OnPath` is the slug comparison of the enterprise handlers; Google's have none.
`callbacks[c].event` is what the callback told Django's security log: `CreateChallenge`
reports success before the challenge, the session's DEL and the code, `ReportTicket`
after `StoreTicket`, the SET, has been answered (if it never is, the ticket stays in
Redis unreported), `LinkAnswered` in the step after `link()` has committed, `VerifyFail`,
`Register` and `RefuseUnknown` their failures.

*KisAuth.* All of it together, sharing `grants` and `identities`. `DjangoLink` is
Django's call. The controller links whatever pair the signed request names
(`identity-link.controller.ts:61-71`); that Django names the identity of a registration
token is what its comment says of Django (18-21), an assumption about a program that is
not here, and an operator of its own, `DjangoAsksFor`. Of the properties,
`LinksAreApproved` rests on it.

*FetchCache, ProviderConfig.* `truth[k]` is what Django (a configuration by slug) or an IdP
(a document by URL) would answer now, `age[k][v]` how long ago it would last have
answered v: a history the code does not keep. `cache` is the two Maps, which never share
a key. `Fetch` is a miss and the request that is sent, `Serve` and `Lose` the other side,
`Deliver` the answer's arrival and `Map.set` (`Stored`: only successes), `Change` an
administrator. A request of the enterprise bridge resolves (`ResolveFromCache`, or
`Resolve` and `Resolved`), then discovers by its configuration's `discovery_url`
(`DiscoverFromCache`, or `Discover` and `Discovered`); it ends `served` with both or
`refused`. No code joins overlapping fetches, and none is in the model. `Restart` empties
the maps.

*LinkTicket.* `keys[t]` is the time at which the nonce key lapses; `Check` is the code up
to the SET, `Claim` the SET NX EX in Redis, which may run any time later, `LoseReply` one
whose answer is lost: the call fails, or its SET is sent again. `lost` remembers those
calls (a history the code does not keep).
*InternalSigning.* `nonceCache[p]` is the map of process p. The function has no await, so
a process is in one call at a time (`calls[p]`), but it reads the clock twice and time may
pass in between: `Arrive` is the first reading, for the window (line 142), `Accept` and
`TurnDown` the second (146) with the sweep of lapsed entries and what follows it.
`life[p]` counts restarts, which empty the map.
*RateLimit.* `counter` is the Redis key with its time to live. `Check` is a call of the
script that is answered, `Unheard` one whose answer is lost, be it sent again or given up.
Two histories the code does not keep: `passed[i]` says how long ago the i-th last request
was let through, for the latest 2 * `Limit` + 1, `counted[i]` how long ago the i-th last
one was counted while the counter was within the limit, for the latest `Limit`; both up
to a whole window.

## 3. Runs

Symmetry is used only for sets of requests, which nothing distinguishes, and only with
safety properties. `CHECK_DEADLOCK FALSE`, except in `provider_config`: elsewhere each
request happens once, so every behaviour ends, or time stops at the run's bound.

| run | instance | shows |
|---|---|---|
| `link` | 3 calls, 2 identities, 2 users | `OkMeansBound`, `RefusalIsReal`, `BindingStable`, `RetrySucceeds` (liveness) |
| `redemption` | 2 grants, 3 redemptions, 1 identity, 2 users, 2 redirect_uris | `OneTokenPerGrant`, `InactiveMeansRevoked`, `TokensNameOwners`, `ImplementsSingleUse`, `RevokedCodeIsDead` |
| `recovery` | 2 apps, 2 each of authorize, start, callback, authentication and exchange; no PKCE at the IdP | `TokenProvenance`, `OneTokenPerAuthentication` |
| `linking` | 1 link ticket, 2 authorizes, 2 starts, 2 callbacks, 2 Google accounts, 2 users, 1 exchange; PKCE at the IdP | `TicketLinksOneIdentity`, `EventsAreTrue`, `SpentVerifier`, `ImplementsRedemption` |
| `partners` | 2 tenants and Google; recovery, link, registration; 2 users; 1 session, 2 callbacks, Django's link | `TenantIsolation`, `TokenProvenance`, `EventsAreTrue`, `GrantsAreReported`, `LinksAreApproved` |
| `provider_config` | 1 tenant with 2 configurations at 2 URLs, 3 documents, 2 requests, lifetimes of 2 ticks, fetches of up to 1 | `ServedConfigsAreRecent`, `SecretGoesHome`, `RefusalsAreFresh` |
| `link_ticket` | 2 tickets, 3 calls, 2 ticks a second, 4 seconds | `OncePerLifetime`, `UsedForCause` |
| `internal_signing` | 2 requests, 1 process with a restart, skew 2 s, 2 ticks a second, 4.5 seconds | `SkewApart`, `OldRequestAtEdge`, `NonceMeansAccepted` |
| `rate_limit` | limit 4, window of 4 ticks | `AtMostTwice`, `LimitedForCause`, `LockoutEnds` |
| `partner_session_at_google`, `link_ticket_late`, `internal_signing_ahead` | small | violations, see section 6 |

What the properties say:

* `OkMeansBound`, `BindingStable`: between SELECT and INSERT only the UNIQUE
  constraints protect a link, and they suffice. Without either one of them a run fails.
* `RefusalIsReal`: `already_linked` is answered only if the identity is someone else's,
  the user has another, or a call for the same pair got in first.
* `RetrySucceeds`: a retry of a committed link is not refused.
* `OneTokenPerGrant`, `ImplementsSingleUse`: a grant taken out of Redis is granted to
  one request even when that request then fails.
* `RevokedCodeIsDead`: once an identity is revoked, its codes not looked up yet give no
  token, ever. `InactiveMeansRevoked` is the converse: no other reason for
  `identity_inactive`.
* `TokensNameOwners`: a token for a code names the user who has the identity, though the
  code's payload was written before the exchange and links go on in between; it stays
  true for as long as anybody may believe the token.
* `TokenProvenance`: a token's client, purpose and user, and the redirect_uri of its
  grant, are those of the one `/authorize` query whose nonce the IdP signed, the client
  registers them, and the identity is the one the IdP authenticated. It is found
  through the nonce, not the cookie, so mixing up sessions would break it. It holds
  with `PkceIdps = {}`: the nonce alone ties an answer to its session.
* `OneTokenPerAuthentication`: two callbacks may hold one session and bring one IdP
  code; one token comes of it.
* `TicketLinksOneIdentity`: both callbacks of one link session may reach `link()`; the
  UNIQUE constraint on the user lets one identity through.
* `SpentVerifier`: a session that an overlapping start brings back carries that start's
  verifier, never the one already used, if the IdP enforces PKCE. Where it does not, a
  callback may be over before the SET of its own start is sent a second time, and the
  verifier then comes back; the nonce still ties the next answer to its session.
* `TenantIsolation`: identities of a tenant are linked and issued only in sessions
  approved for it (`oidc-enterprise.controller.ts:118-125`).
* `LinksAreApproved`: whoever writes it, a callback or Django's link call, a row enters the
  table only for an identity that an IdP has authenticated by then, in an answer that was
  redeemed for a registration or for a link ticket of that very user. The enterprise
  subject carries its tenant for this: without it one tenant's IdP could prove another's.
* `ImplementsRedemption`: what the callbacks and `link()` do to grants and table is what
  `Redemption` allows, so its theorems carry over (section 4, *The parts in the service*).
* `EventsAreTrue`: `callback_succeeded` and `link.succeeded` name a user who has the
  identity that was proved in this session, then and ever after, though the first goes
  out before the callback can no longer fail. `GrantsAreReported`: nothing that is
  redeemed escapes the log, and a code's user is the one reported; what is in Redis and
  unreported is a ticket whose callback is at the report or failed before it, and
  nobody was told of that ticket.
* `ServedConfigsAreRecent`: a tenant that replaces a leaked secret is rid of the old one
  after one lifetime in the cache and two fetches, whichever of several overlapping
  fetches arrives last and though a callback holds its configuration while it fetches
  the document. `SecretGoesHome`: a client_secret goes to endpoints that its own
  configuration's `discovery_url` published within a lifetime and a fetch, though
  documents are kept longer than configurations and by another key.
  `RefusalsAreFresh`: no request is refused for a failure that was over before its own
  fetch ("should not have to wait out a stale failure",
  `oidc-provider-resolver.service.ts:44-46`). The first two bounds are sharp: TLC finds both
  violated with one tick less.

* `OncePerLifetime`: before its exp a link ticket is accepted once, whatever was lost or
  late; `UsedForCause`: `already_used` is said only of a ticket whose key a call has set:
  one that was told ok, or one that lost the answer, which may be the refused call
  itself when its SET is sent again. That a ticket is accepted once at all, if no SET is
  late, is a theorem (`PromptOnce`).
* `SkewApart`, `OldRequestAtEdge`: one process, between restarts, accepts a signed request
  again one skew later at the earliest; and if the request was dated at least a second
  back, only in a call whose two readings of the clock are on either side of the moment
  at which its window closes. TLC finds such a call: without that exception the run fails.
  `NonceMeansAccepted`: a damaged copy does not use the nonce up.
* `AtMostTwice`: what the comment of the limiter accepts as its tradeoff is also its
  worst case. `LimitedForCause`: nobody is limited before the script has counted
  to `limit` within the window; what it counted need not have been let through, for a
  lost answer uses up the limit like any other. `LockoutEnds`: nobody is limited for good, not even one who
  keeps asking.

**Bounds.** Every hazard above is a race of two requests over one piece of state, or of
three for one row: hence two of each request, three `link()` calls, three redemptions of
two grants. Two tenants are needed for the one to be mistaken for the other, two apps
and redirect_uris for a token to name the wrong one. The `partners` run has one session,
which two callbacks of different IdPs share, and one start, as mixing sessions is what
`recovery` is for. `Horizon` stops the clock after every ticket and nonce key of
`link_ticket` has lapsed (exp 1 s and 2 s of 4). In `internal_signing`, with 4.5 s, the
window of the request dated 1 s closes within the run (at 4 s, when a nonce kept at 2 s is
over), and the one dated 3 s is accepted ahead of time (at 1 s) and again (at 3 s); two
ticks a second are the least in which "within the same second" and "at the
second" differ. `MaxRestarts` is 1. In `provider_config` a fetch of one tick and a
lifetime of two are the least in which one fetch can overtake another's whole entry;
`Flight` is the bound on a fetch (the code has none of its own, Node's default is
minutes) and ages are not told apart from `Old`, 4, which is more than any of the three
bounds reached there. Window and limit of 4 exceed any number of requests that could
tell two counters from three in one window. Each property has a mutant of the code's
model (see `mutants`) under which its run fails, so no property holds for lack of the
interesting case.

**Fairness.** `FairSpec` of `IdentityLink`: weak fairness of each call's `Step`. A
statement sent to PostgreSQL is answered, fails or times out and Node then resumes the
handler; `Fail` is among the outcomes, so nothing is assumed to succeed. No fairness is
assumed of callers, browsers, operators or IdPs. `FairSpec` of `RateLimit`: weak fairness of
`Tick`, time passes.

## 4. Proofs

All for arbitrary sets of calls, grants, requests, identities, tenants and users, finite
or not, and arbitrary lifetimes.

| theorem | says |
|---|---|
| `IdentityLinkProofs!TypeCorrect`, `OkIsTrue`, `BindingsAreStable`, `RefusalsAreReal` | `[]TypeOK`, `[]OkMeansBound`, `BindingStable`, `[]RefusalIsReal` |
| `IdentityLinkProofs!RetriesAreNotRefused` | a call for a pair that is in the table is never refused (the safety half of `RetrySucceeds`) |
| `SingleUseProofs!GrantedOnce` | the abstract promise: a credential goes to one claimant |
| `RedemptionProofs!TypeInvariant`, `OneToken`, `InactiveIsRevoked`, `TokensNameTheirOwners` | `[]TypeOK`, `[]OneTokenPerGrant`, `[]InactiveMeansRevoked`, `[]TokensNameOwners` |
| `RedemptionProofs!Refinement`, `RevokedCode` | Redemption implements SingleUse; `RevokedCodeIsDead` |
| `KisAuthProofs!TypeCorrect`, `ServiceImplementsRedemption`, `ServiceImplementsIdentityLink` | `[]TypeOK`; the whole service implements Redemption and IdentityLink |
| `KisAuthProofs!TokensHaveProvenance`, `OneTokenEach` | `[]TokenProvenance`, `[]OneTokenPerAuthentication` |
| `KisAuthProofs!TenantsAreIsolated`, `TicketsLinkOnce`, `VerifiersAreSpent` | `[]TenantIsolation`, `[]TicketLinksOneIdentity`, `[]SpentVerifier` |
| `KisAuthProofs!LinksHaveApproval` | `LinksAreApproved` |
| `KisAuthProofs!ReportsAreTrue`, `GrantsHaveReports` | `[]EventsAreTrue`, `[]GrantsAreReported` |
| `KisAuthProofs!ServiceRedeemsSafely`, `ServiceRevokesCodes`, `ServiceImplementsSingleUse`, `ServiceLinksSafely` | what is proved of Redemption and IdentityLink, proved of the whole service |
| `ProviderConfigProofs!TypeCorrect`, `RecentConfigs`, `SecretsGoHome`, `FreshRefusals` | `[]TypeOK`, `[]ServedConfigsAreRecent`, `[]SecretGoesHome`, `[]RefusalsAreFresh` |
| `LinkTicketProofs!TypeCorrect`, `Once`, `PromptOnce`, `UsedIsReal` | `[]TypeOK`, `[]OncePerLifetime`, `PromptSpec => []ConsumedOnce`, `[]UsedForCause` |
| `InternalSigningProofs!TypeCorrect`, `Apart`, `OldAtEdge`, `NoncesAreUsed` | `[]TypeOK`, `[]SkewApart`, `[]OldRequestAtEdge`, `[]NonceMeansAccepted` |
| `RateLimitProofs!TypeCorrect`, `TwiceAtMost`, `LimitsHaveCause` | `[]TypeOK`, `[]AtMostTwice`, `[]LimitedForCause` |
| `RateLimitProofs!LockoutsRunDown` | no request puts off a counter's end and each tick brings it closer (the safety half of `LockoutEnds`) |

*Assumptions.* `NoRowIsNoRow` (NULL is not a row) and `GrantMarksDiffer` (the marks for
"not yet" and "no longer in Redis" differ and are no payloads). Both are about the
encoding and TLC evaluates them in each run, as it does `FlowAssumption` (the same for
the browser's flow, and a request is to one endpoint), `ServiceAssumption`
(`GrantMarksDiffer` again, for the instance of Redemption in KisAuth) and
`AsksAreQueries`. `SecondsHaveTicks`, `TimeIsDiscrete` and `ClockAssumption` make times
natural numbers and the skew positive. `CacheAssumption` does so for lifetimes and the
bounds, `ProviderAssumption` says which service answers which key with what.
`PolicyAssumption`: limit and window of the rate limiter are positive whole numbers.

*Links.* `OkMeansBound` is not inductive: `Update` answers ok without writing, so the
invariant must know that the row its SELECT found is still there (`UpdateMeansBound`).
That in turn needs `BindingStable`'s core, no step moves or drops a row (`LinksKept`),
proved first from the INSERT's guard (`InsertAdds`).

*Refusals.* A call whose SELECT found nothing, and that is about to fail on the very pair
it asks for, was overtaken by a call for that pair (`OvertakenBySame`): a row found at
INSERT time was written by some call since, and that call is `ok` or `failed` for good.

*Retries.* A call for a pair that is in the table stays on one of the ways that lead past
the refusals (`OnItsWay`): it has not looked yet, or it has found its own user's row and
is at the UPDATE, `ok` or `failed`. That the row does not move meanwhile is `LinksKept`.

*The whole service.* `IInv` of `KisAuthProofs` follows a sign-in from its query to its
token. A session is a copy of an approved query (`SessionGood`), the copy a start or a
callback holds too, whatever has happened to the session since (`StartGood`,
`CallbackGood`): that is what makes the late write of `StartUpdate` harmless. A callback
past verification has an answer to its own session's nonce, from its own path's IdP
(`Proven`); its pc agrees with the purpose, with the row it found and with what it
reported (`PurposeGood`, `FoundGood`, `EventGood`). `LinkGood`, `GrantGood`, `ExchangeGood`
and `TokenGood` hand this on to the link call, Redis, the exchange and the token. What
makes all of it last is one lemma, `KeptStep`: no step takes back an approved query, a
verifier that was sent, an IdP's answer, what a callback is about, or a link. The
refinement needs only `GrantGood` (a place in Redis is filled once) and `FoundGood` (the
identity of a code was bound, and still is). Three facts are invariants of their own on
top: an IdP's code is accepted by one callback (`OneCallbackPerAuthentication`) and a
grant taken by one exchange (`OneExchangePerGrant`), together one token per
authentication; and `VerifierSpent`, that whoever writes a session after a callback has
spent it writes the verifier of a start that had not been sent, so not that callback's,
whose IdP with PKCE has seen its verifier's challenge, which only a start that was sent
can have brought there (`AuthnGood`, `Proven`).
`TicketLinksOneIdentity` is `LinkGood` with the table's second constraint (`UserStep`).

*Reports.* Of what is in Redis, an unreported ticket belongs to a callback at `ReportTicket`
or failed before it; of what is redeemed, the callback was over, as nobody can name a grant
before (`PayloadOf`, `GrantGood`, `ExchangeGood`).

*Approved links.* A new row is written by one INSERT (`RowsAreInserted`), so it has the pair
of a `link()` call under way. A callback's call has the key that its own answer proved and
the user of its ticket (`LinkGood`, `TicketApproves`). Django's has the key of a registration
token that is out (`DjangoGood`, an invariant of its own), and a token's provenance says
who proved that key, for a registration (`TokenGood`, `ProofApproves`).

*The parts in the service.* `Spec` of KisAuth implies the specifications of Redemption and
IdentityLink, the latter because every step is a statement of one call, the start of one
(`LinkCases`), a revocation, or a stutter for the table. To say what that brings, the proof
modules of the parts are instantiated with the service's constants and variables (`RP`,
`LP`): their theorems hold there once the parts' assumptions do (`PartsAssume`), and the
formulas are those of the run (`SameRedemption`, `SameIdentityLink`, `SamePromise`).

*Caches.* An entry was true one fetch and the past part of its lifetime ago at most
(`EntriesAreRecent`), which no order of arrival can break as each answer was true at a
moment of its own fetch (`FreshAnswer`). A configuration in the hands of a request ages as
fast as that request's second fetch (`HeldConfig`), which gives the second `Flight` of
`ServedConfigsAreRecent`; the document's age is a fetch or a lifetime (`GoodOutcome`).

*One token.* `OneTokenPerGrant` compares tokens; its invariant follows the grant: a
grant some request holds is `Spent` (`ClaimedIsSpent`), no two requests hold the same
(`OneClaimPerGrant`), a token exists only for a request that is over, with its own jti
(`TokensAreSigned`). Atomicity of the Lua script is what makes `ClaimedIsSpent` survive
`Redeem`. The refinement adds that each step of Redemption is an `Issue`, `Claim` or
`Lapse`, or changes nothing that SingleUse sees.

*Held codes.* `TokensNameOwners` compares tokens with the table, so its invariant follows the
code on its way: whatever code an exchange holds names whoever has its identity
(`HeldCodesAreBound`), as do the codes in Redis; `Sign` copies that user, and rows stay bound.

*Revocation.* `Doomed(g)`: the code is in Redis or not looked up yet, and its identity is
revoked. `Over(g)`: it is spent and no request can sign for it. Every step keeps
`Doomed \/ Over` (`DeadStaysDead`), because a revoked row stays revoked (`RowsStay`),
and neither has a token.

*Link tickets.* The key that a SET under way will make outlives its ticket
(`ClaimsSuffice`: rounding the clock down makes the lifetime longer, not shorter), so
the key of an accepted ticket does (`KeysOutlive`), a later SET only prolonging it:
before exp there is a key. A refused call met a key, and a key was set by a call that
was accepted or is in `lost`, the refused one itself for all that is said
(`KeysHaveSetters`, of `UsedInv`). `PromptInv`
adds that without delays a SET runs before exp.

*Signed requests.* `NonceKept`: since an acceptance of this life, one skew has passed or
the cache has an entry that lasts that long. `SkewApart` follows at the next `Accept`.
`AcceptedBefore` and `CallsInTime` say that the first reading of the clock found the
timestamp in the window, and was no later than the second. `OldRequestAtEdge` is
arithmetic on whole seconds from there (`SecondsBound`, `TicksGrow`): one skew after an
acceptance in a later second than the timestamp's, the window is closed, so the first
reading was before that and the second was not.

*Rate limit.* What the present counter counted up to the limit came since it was made
(`CountedSince`), which is `LimitedForCause` once it is at the limit. It let through at most
as many; all other requests were let through before it was made (`OthersBefore`), and beyond
the `Limit` requests before those all is a window old, since each counter lives for a window
and the next is made after it (`EarlierAreOld`). The (2 * `Limit` + 1)-th last request that
was let through is beyond both. That some were counted and not let through only helps.

*Inactive.* Codes are issued only for bound rows and rows stay bound, so by the time a
lookup says "inactive" only the status can have changed (`BoundStep`).

## 5. What is only model-checked, and what is not modelled

Only model-checked: liveness (`RetrySucceeds`, `LockoutEnds`), which is out of the prover's
reach; what safety there is to them is proved (`RetriesAreNotRefused`, `LockoutsRunDown`),
so that what is left to TLC is that fair steps are taken. Every safety property that a
passing run checks is also a theorem. The theorems about `LinkTicket`,
`InternalSigning`, `RateLimit` and `ProviderConfig` are about those parts alone:
`BrowserFlow` knows of them that a request may be turned away, a ticket be taken, or a
configuration not be had.

Not modelled, and why:

* *Signatures, HMACs, key fetching, HTTP*: a request or token that fails a check stutters
  or takes the failure branch; that forgeries fail is assumed.
* *Key rotation*: keys are files read once per process; what other services cache of the
  published set is theirs, and the order of a rotation is an operator's procedure.
* *A session's lifetime*: it may end at any time, which includes every lifetime, also the
  one that `update` carries over. No property depends on its length.
* *The POST of a security event, its three seconds and its loss*: nothing waits for it or
  reads its result. Events of the exchanges repeat their answer.
* *`incrementAttempts`, `deleteChallenge`*: no callers. *The challenge record*: see the
  conventions.
* *Migrations*: a script run by hand once per deployment. That two of them do not both
  apply a file is the PRIMARY KEY of `schema_migrations` inside one transaction, a
  database's promise; the schema that results is `IdentityTable`'s constraints.
* *`client.service.ts`*: one SELECT before `/authorize` has an effect, and nothing in the
  repository changes a client while the service runs; constants.
* *Configuration, pages, health probes, cookies' attributes, wiring*: no state that changes.

## 6. Where text and code differ

1. `src/src/oauth/oauth.controller.ts:83-84` says of `partner_slug` that "when present,
   this is a login against a specific tenant's IdP rather than Google". The enterprise
   handlers compare the session's slug with their path; the Google start and callback
   (169-328) do not read it. Run `partner_session_at_google`: a session approved for a
   tenant goes to `/oauth/google/start` and ends in a grant for a Google identity.
   `TokenProvenance` and `TenantIsolation` hold all the same: that grant names Google
   and no tenant.
2. `src/src/security/link-ticket.ts:40-42`: the nonce is claimed "so the same ticket can
   never be consumed twice". Run `link_ticket_late`: a call that checked the expiry in
   time, and whose SET runs after the first call's key has lapsed, is accepted too. It
   takes a delay as long as what the ticket had left (a reconnecting Redis client). The
   UNIQUE constraint on the user still lets one identity through.
3. `src/src/security/internal-signing.spec.ts:74`: "rejects a replayed nonce even when
   otherwise valid". Run `internal_signing_ahead`: the nonce is kept for one skew from
   the acceptance, the window is open until one skew after the timestamp, in whole
   seconds; a request dated ahead of the clock (or in the same second) is accepted again
   in between. An older one is so only by a call during which its window closes.

Two more places where text and code differ, which the models show but no run is about:

4. `src/src/oauth/oidc-token-exchange.service.ts:8`: the client_secret is "resolved fresh
   from Django for every callback". It may come from the resolver's cache, up to a minute
   old; `ServedConfigsAreRecent` says how old altogether.
5. `src/src/security/security-event.service.ts:44`: an event goes out "strictly after that
   decision is already made". `callback_succeeded` (`oauth-outcome.service.ts:240`) precedes
   the challenge, the session's DEL and the code, any of which may still fail: the
   user was authenticated, and may have got nothing. `EventsAreTrue` is what holds.

## 7. State of the plan

Done: every module above, and a theorem for every safety property of the passing runs, for
the parts on their own and, where the service is composed of them, for the service.
Modules are written so that they can be proved about: no RECURSIVE operator, named
constant assumptions, one action per step of a handler.

Left: a `KeyRotation` module, once the repository has code for it; a clock in the flow,
once some property of a session depends on how long it lives.
