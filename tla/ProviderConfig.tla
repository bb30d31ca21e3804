---------------------------- MODULE ProviderConfig ----------------------------
(***************************************************************************)
(* What a request to /oauth/enterprise/:partnerSlug/start or .../callback  *)
(* knows of the tenant's IdP (src/src/oauth).  resolveOrFail asks the      *)
(* resolver for the tenant's configuration, kept by slug; then the         *)
(* document its discovery_url names is fetched, kept by URL.  The two      *)
(* together say where the browser or the client_secret goes.  Django may   *)
(* change a tenant's configuration, and an IdP its document, at any time.  *)
(*                                                                         *)
(* Only fetches take time: Tick waits for a request that has something to  *)
(* do, and forgets those that are over.                                    *)
(***************************************************************************)
EXTENDS FetchCache

CONSTANTS Slug, Config, Url, Document,
          UrlOf         \* discovery_url of a configuration

\* Django answers with a configuration, 404 or 409 (Failure); an IdP publishes
\* documents.
ASSUME ProviderAssumption ==
    /\ Key = Slug \cup Url
    /\ Value = Config \cup Document
    /\ UrlOf \in [Config -> Url]
    /\ MayAnswer \subseteq (Slug \X (Config \cup {Failure})) \cup (Url \X Document)
    /\ Slug \cap Url = {}
    /\ Config \cap Document = {}

VARIABLE requests

vars == <<requests, cacheVars>>

Idle == [pc |-> "idle"]

Outcome == [pc : {"refused"}, slug : Slug, answer : {Failure, Lost}]
           \cup [pc : {"served"}, slug : Slug, config : Config, document : Document]

TypeOK ==
    /\ CacheTypeOK
    /\ requests \in [Request ->
           {Idle} \cup [pc : {"resolve"}, slug : Slug]
                  \cup [pc : {"discover"}, slug : Slug, config : Config]
                  \cup Outcome]

Init == /\ CacheInit
        /\ requests = [x \in Request |-> Idle]

----------------------------------------------------------------------------
(* resolveOrFail, then fetchDiscovery                                      *)

AfterResolve(slug, answer) ==
    IF answer \in Config
      THEN [pc |-> "discover", slug |-> slug, config |-> answer]
      ELSE [pc |-> "refused", slug |-> slug, answer |-> answer]

ResolveFromCache(x, slug) ==
    /\ requests[x] = Idle
    /\ Live(slug)
    /\ requests' = [requests EXCEPT ![x] = AfterResolve(slug, cache[slug].value)]
    /\ UNCHANGED cacheVars

Resolve(x, slug) ==
    /\ requests[x] = Idle
    /\ Fetch(x, slug)
    /\ requests' = [requests EXCEPT ![x] = [pc |-> "resolve", slug |-> slug]]

Resolved(x) ==
    /\ requests[x].pc = "resolve"
    /\ Deliver(x)
    /\ requests' = [requests EXCEPT ![x] =
                       AfterResolve(requests[x].slug, fetches[x].answer)]

\* A document that cannot be had refuses the request, whatever the reason.
AfterDiscover(request, answer) ==
    IF answer \in Document
      THEN [pc |-> "served", slug |-> request.slug, config |-> request.config,
            document |-> answer]
      ELSE [pc |-> "refused", slug |-> request.slug, answer |-> Lost]

\* The request holds a configuration and has not looked for its document yet.
ReadyToDiscover(x) == requests[x].pc = "discover" /\ fetches[x] = NoFetch

\* Mutant of DiscoverFromCache: documents are kept by slug, not by URL.
DiscoverFromSlugCache(x) ==
    \E url \in Url :
        /\ ReadyToDiscover(x)
        /\ Live(url)
        /\ requests' = [requests EXCEPT ![x] = AfterDiscover(requests[x], cache[url].value)]
        /\ UNCHANGED cacheVars

DiscoverFromCache(x) ==
    LET url == UrlOf[requests[x].config]
    IN  /\ ReadyToDiscover(x)
        /\ Live(url)
        /\ requests' = [requests EXCEPT ![x] = AfterDiscover(requests[x], cache[url].value)]
        /\ UNCHANGED cacheVars

Discover(x) ==
    /\ ReadyToDiscover(x)
    /\ Fetch(x, UrlOf[requests[x].config])
    /\ UNCHANGED requests

Discovered(x) ==
    /\ requests[x].pc = "discover"
    /\ Deliver(x)
    /\ requests' = [requests EXCEPT ![x] =
                       AfterDiscover(requests[x], fetches[x].answer)]

----------------------------------------------------------------------------
\* Django and the IdPs.
Services ==
    /\ \/ \E x \in Request : Serve(x) \/ Lose(x)
       \/ \E pair \in MayAnswer : Change(pair[1], pair[2])
    /\ UNCHANGED requests

Tick ==
    /\ ~ \E x \in Request : ReadyToDiscover(x)
    /\ CacheTick
    /\ requests' = [x \in Request |->
                       IF requests[x] \in Outcome THEN Idle ELSE requests[x]]

Restart ==
    /\ CacheRestart
    /\ requests' = [x \in Request |-> Idle]

RequestStep == \E x \in Request :
    \/ \E slug \in Slug : ResolveFromCache(x, slug) \/ Resolve(x, slug)
    \/ Resolved(x)
    \/ DiscoverFromCache(x)
    \/ Discover(x)
    \/ Discovered(x)

Next == RequestStep \/ Services \/ Tick \/ Restart

Spec == Init /\ [][Next]_vars

----------------------------------------------------------------------------
\* A tenant that replaces its configuration, a leaked client_secret say, is rid
\* of the old one before its lifetime in the cache and two fetches are over,
\* though concurrent requests may fill the cache in any order and hold their
\* copy while they discover.
ServedConfigsAreRecent ==
    \A x \in Request :
        requests[x].pc = "served" =>
            Within(requests[x].slug, requests[x].config,
                   Ttl[requests[x].slug] - 1 + 2 * Flight)

\* The endpoints that get the browser or the client_secret are those that the
\* very discovery_url of that configuration published, less than a lifetime in
\* the cache and a fetch ago, whichever requests share the cache.
SecretGoesHome ==
    \A x \in Request :
        LET url == UrlOf[requests[x].config]
        IN  requests[x].pc = "served" =>
                Within(url, requests[x].document, Ttl[url] - 1 + Flight)

\* "A partner who just enabled or fixed their SSO config should not have to wait
\* out a stale failure": a request refused for want of a configuration met
\* none during its own fetch.
RefusalsAreFresh ==
    \A x \in Request :
        requests[x].pc = "refused" /\ requests[x].answer = Failure =>
            Within(requests[x].slug, Failure, Flight)
=============================================================================
