------------------------------ MODULE FetchCache ------------------------------
(***************************************************************************)
(* The maps in the process that remember what other services answered, as  *)
(* OidcProviderResolverService keeps one by partner slug and               *)
(* OidcDiscoveryService one by URL (src/src/oauth).  A request that finds  *)
(* no live entry asks the service; any number of requests may be asking    *)
(* for one key at once, the service's answer may change meanwhile, and the *)
(* last answer to arrive is kept, whichever it is.  Failures are not kept. *)
(*                                                                         *)
(* Time is counted in ticks.  Instants are not kept: an entry has the time *)
(* it has left, a fetch the time it has waited, and an answer the time     *)
(* since the service would last have given it.                             *)
(***************************************************************************)
EXTENDS Integers

CONSTANTS Key,          \* what is looked up
          Value,        \* the answers that are kept
          Failure,      \* the answer of a service that has nothing for a key
          Lost,         \* no answer
          MayAnswer,    \* <<key, answer>> a service may give
          Request,      \* each looks up one key at a time
          Ttl,          \* Ttl[k]: lifetime of an entry
          Flight,       \* bound: the longest a fetch takes
          Old           \* bound: ages are not told apart from there on

Answer == Value \cup {Failure}

ASSUME CacheAssumption ==
    /\ MayAnswer \subseteq Key \X Answer
    /\ Ttl \in [Key -> Nat \ {0}]
    /\ Flight \in Nat
    /\ Old \in Nat
    /\ Failure \notin Value
    /\ Lost \notin Answer

VARIABLES truth,        \* truth[k]: what the service would answer now
          age,          \* age[k][v]: ticks since it would have answered v
          cache,
          fetches       \* fetches[x]: the fetch of request x

cacheVars == <<truth, age, cache, fetches>>

NoEntry == [left |-> 0]

NoFetch == [pc |-> "none"]

CacheTypeOK ==
    /\ truth \in [Key -> Answer]
    /\ age \in [Key -> [Answer -> Nat]]
    /\ cache \in [Key -> {NoEntry} \cup [value : Value, left : Nat \ {0}]]
    /\ fetches \in [Request ->
           {NoFetch}
           \cup [pc : {"asked"}, key : Key, waited : 0 .. Flight]
           \cup [pc : {"answered"}, key : Key, waited : 0 .. Flight,
                 answer : Answer \cup {Lost}]]
    /\ \A k \in Key :
           /\ <<k, truth[k]>> \in MayAnswer
           /\ cache[k] # NoEntry => /\ <<k, cache[k].value>> \in MayAnswer
                                    /\ cache[k].left <= Ttl[k]
    /\ \A x \in Request :
           fetches[x].pc = "answered" /\ fetches[x].answer # Lost =>
               <<fetches[x].key, fetches[x].answer>> \in MayAnswer

CacheInit ==
    /\ truth \in [Key -> Answer]
    /\ \A k \in Key : <<k, truth[k]>> \in MayAnswer
    /\ age = [k \in Key |-> [v \in Answer |-> IF v = truth[k] THEN 0 ELSE Old]]
    /\ cache = [k \in Key |-> NoEntry]
    /\ fetches = [x \in Request |-> NoFetch]

----------------------------------------------------------------------------
\* cached.expiresAt > Date.now()
Live(k) == cache[k].left > 0

\* The request is signed, where it has to be, and sent.
Fetch(x, k) ==
    /\ fetches[x] = NoFetch
    /\ ~ Live(k)
    /\ fetches' = [fetches EXCEPT ![x] = [pc |-> "asked", key |-> k, waited |-> 0]]
    /\ UNCHANGED <<truth, age, cache>>

Reply(x, answer) ==
    /\ fetches[x].pc = "asked"
    /\ fetches' = [fetches EXCEPT ![x] =
                      [pc |-> "answered", key |-> fetches[x].key,
                       waited |-> fetches[x].waited, answer |-> answer]]
    /\ UNCHANGED <<truth, age, cache>>

\* The service reads its database.
Serve(x) == Reply(x, truth[fetches[x].key])

\* It cannot be reached, refuses the signature or answers nonsense.
Lose(x) == Reply(x, Lost)

\* Mutant of Stored: a failure is kept too.
StoredAlways(k, answer) ==
    IF answer \in Answer
      THEN [cache EXCEPT ![k] = [value |-> answer, left |-> Ttl[k]]]
      ELSE cache

\* The map after `answer` for key k has arrived, whatever was in it.
Stored(k, answer) ==
    IF answer \in Value
      THEN [cache EXCEPT ![k] = [value |-> answer, left |-> Ttl[k]]]
      ELSE cache

Deliver(x) ==
    /\ fetches[x].pc = "answered"
    /\ cache' = Stored(fetches[x].key, fetches[x].answer)
    /\ fetches' = [fetches EXCEPT ![x] = NoFetch]
    /\ UNCHANGED <<truth, age>>

----------------------------------------------------------------------------
\* The service's owner changes its answer for key k.
Change(k, v) ==
    /\ <<k, v>> \in MayAnswer
    /\ truth[k] # v
    /\ truth' = [truth EXCEPT ![k] = v]
    /\ age' = [age EXCEPT ![k][v] = 0]
    /\ UNCHANGED <<cache, fetches>>

Older(n) == IF n < Old THEN n + 1 ELSE n

\* Mutant of Aged: an entry that is over is kept.
AgedForever(entry) ==
    IF entry.left > 1 THEN [entry EXCEPT !.left = entry.left - 1] ELSE entry

\* An entry, one tick later.
Aged(entry) ==
    IF entry.left > 1 THEN [entry EXCEPT !.left = entry.left - 1] ELSE NoEntry

Waited(fetch) ==
    IF fetch = NoFetch THEN NoFetch ELSE [fetch EXCEPT !.waited = fetch.waited + 1]

CacheTick ==
    /\ \A x \in Request : fetches[x] # NoFetch => fetches[x].waited < Flight
    /\ age' = [k \in Key |-> [v \in Answer |->
                  IF v = truth[k] THEN 0 ELSE Older(age[k][v])]]
    /\ cache' = [k \in Key |-> Aged(cache[k])]
    /\ fetches' = [x \in Request |-> Waited(fetches[x])]
    /\ UNCHANGED truth

\* The process restarts: the maps are empty.
CacheRestart ==
    /\ cache' = [k \in Key |-> NoEntry]
    /\ fetches' = [x \in Request |-> NoFetch]
    /\ UNCHANGED <<truth, age>>

----------------------------------------------------------------------------
\* The service would last have answered v at most n ticks ago.
Within(k, v, n) == age[k][v] <= n
=============================================================================
