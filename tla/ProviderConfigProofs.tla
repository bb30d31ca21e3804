------------------------- MODULE ProviderConfigProofs -------------------------
(***************************************************************************)
(* Proofs about ProviderConfig: how old what a request holds can be.       *)
(***************************************************************************)
EXTENDS ProviderConfig, TLAPS

\* What a service would answer now is not old.
TruthIsNew == \A k \in Key : age[k][truth[k]] = 0

\* However fetches overtake one another, an entry was true at most one fetch and
\* the part of its lifetime that is over ago.
EntriesAreRecent ==
    \A k \in Key :
        cache[k] # NoEntry =>
            Within(k, cache[k].value, Flight + Ttl[k] - cache[k].left)

\* An answer that arrives was true at some moment of its own fetch.
FreshAnswer(x) ==
    fetches[x].pc = "answered" /\ fetches[x].answer # Lost =>
        Within(fetches[x].key, fetches[x].answer, fetches[x].waited)

\* A request fetches what it is about, and nothing once it is over.
OwnFetch(x) ==
    fetches[x] # NoFetch =>
        /\ requests[x].pc \in {"resolve", "discover"}
        /\ requests[x].pc = "resolve" => fetches[x].key = requests[x].slug
        /\ requests[x].pc = "discover" => fetches[x].key = UrlOf[requests[x].config]

\* How long the request has been fetching.
Spell(x) == IF fetches[x] = NoFetch THEN 0 ELSE fetches[x].waited

\* A configuration that a request has got ages no faster than it fetches.
HeldConfig(x) ==
    requests[x].pc = "discover" =>
        Within(requests[x].slug, requests[x].config,
               Ttl[requests[x].slug] - 1 + Flight + Spell(x))

\* What a request that is over was given.
GoodOutcome(x) ==
    /\ requests[x].pc = "served" =>
           /\ Within(requests[x].slug, requests[x].config,
                     Ttl[requests[x].slug] - 1 + 2 * Flight)
           /\ Within(UrlOf[requests[x].config], requests[x].document,
                     Ttl[UrlOf[requests[x].config]] - 1 + Flight)
    /\ requests[x].pc = "refused" /\ requests[x].answer = Failure =>
           Within(requests[x].slug, Failure, Flight)

Good(x) == FreshAnswer(x) /\ OwnFetch(x) /\ HeldConfig(x) /\ GoodOutcome(x)

IInv == TypeOK /\ TruthIsNew /\ EntriesAreRecent /\ \A x \in Request : Good(x)

----------------------------------------------------------------------------
(* Types                                                                   *)

\* What the type invariant says of one request's fetch.
LEMMA FetchTypes ==
    ASSUME CacheTypeOK, NEW x \in Request
    PROVE  \/ fetches[x] = NoFetch
           \/ /\ fetches[x] = [pc |-> "asked", key |-> fetches[x].key,
                               waited |-> fetches[x].waited]
              /\ fetches[x].key \in Key
              /\ fetches[x].waited \in 0 .. Flight
           \/ /\ fetches[x] = [pc |-> "answered", key |-> fetches[x].key,
                               waited |-> fetches[x].waited,
                               answer |-> fetches[x].answer]
              /\ fetches[x].key \in Key
              /\ fetches[x].waited \in 0 .. Flight
              /\ fetches[x].answer \in Answer \cup {Lost}
BY DEF CacheTypeOK

LEMMA FetchFields ==
    ASSUME CacheTypeOK, NEW x \in Request
    PROVE  /\ fetches[x] # NoFetch => /\ fetches[x].key \in Key
                                      /\ fetches[x].waited \in Nat
                                      /\ fetches[x].waited <= Flight
           /\ fetches[x].pc = "answered" => /\ fetches[x] # NoFetch
                                            /\ fetches[x].answer \in Answer \cup {Lost}
<1>1. NoFetch.pc = "none"
  BY DEF NoFetch
<1>2. CASE fetches[x] = NoFetch
  BY <1>1, <1>2
<1>3. CASE fetches[x] \in [pc : {"asked"}, key : Key, waited : 0 .. Flight]
  <2>1. fetches[x].pc = "asked" /\ fetches[x].key \in Key /\ fetches[x].waited \in 0 .. Flight
    BY <1>3
  <2> QED
    BY <2>1, CacheAssumption
<1>4. CASE fetches[x] \in [pc : {"answered"}, key : Key, waited : 0 .. Flight,
                          answer : Answer \cup {Lost}]
  <2>1. /\ fetches[x].pc = "answered"
        /\ fetches[x].key \in Key
        /\ fetches[x].waited \in 0 .. Flight
        /\ fetches[x].answer \in Answer \cup {Lost}
    BY <1>4
  <2> QED
    BY <1>1, <2>1, CacheAssumption
<1> QED
  BY <1>2, <1>3, <1>4 DEF CacheTypeOK

\* What the type invariant says of one entry.
LEMMA EntryTypes ==
    ASSUME CacheTypeOK, NEW k \in Key
    PROVE  \/ cache[k] = NoEntry /\ ~ Live(k)
           \/ /\ cache[k] = [value |-> cache[k].value, left |-> cache[k].left]
              /\ cache[k] # NoEntry
              /\ cache[k].value \in Value
              /\ cache[k].left \in Nat \ {0}
              /\ cache[k].left <= Ttl[k]
              /\ <<k, cache[k].value>> \in MayAnswer
              /\ Live(k)
<1>1. CASE cache[k] = NoEntry
  BY <1>1 DEF NoEntry, Live
<1>2. CASE cache[k] \in [value : Value, left : Nat \ {0}]
  <2>1. /\ cache[k] = [value |-> cache[k].value, left |-> cache[k].left]
        /\ cache[k].value \in Value
        /\ cache[k].left \in Nat \ {0}
    BY <1>2
  <2>2. NoEntry.left = 0
    BY DEF NoEntry
  <2>3. cache[k] # NoEntry
    BY <2>1, <2>2
  <2> QED
    <3>1. cache[k].left <= Ttl[k] /\ <<k, cache[k].value>> \in MayAnswer
      BY <2>3 DEF CacheTypeOK
    <3>2. Live(k)
      BY <2>1 DEF Live
    <3> QED
      BY <2>1, <2>3, <3>1, <3>2
<1> QED
  BY <1>1, <1>2 DEF CacheTypeOK

LEMMA FetchType ==
    ASSUME CacheTypeOK, NEW x \in Request, NEW k \in Key, Fetch(x, k)
    PROVE  CacheTypeOK'
<1> DEFINE new == [pc |-> "asked", key |-> k, waited |-> 0]
<1>1. fetches' = [fetches EXCEPT ![x] = new] /\ UNCHANGED <<truth, age, cache>>
  BY DEF Fetch
<1>2. new \in [pc : {"asked"}, key : Key, waited : 0 .. Flight] /\ new.pc = "asked"
  BY CacheAssumption
<1> QED
  BY <1>1, <1>2 DEF CacheTypeOK

LEMMA ReplyType ==
    ASSUME CacheTypeOK, NEW x \in Request, NEW answer \in Answer \cup {Lost},
           answer # Lost => <<fetches[x].key, answer>> \in MayAnswer,
           Reply(x, answer)
    PROVE  CacheTypeOK'
<1> DEFINE new == [pc |-> "answered", key |-> fetches[x].key,
                   waited |-> fetches[x].waited, answer |-> answer]
<1>1. fetches' = [fetches EXCEPT ![x] = new] /\ UNCHANGED <<truth, age, cache>>
  BY DEF Reply
<1>2. fetches[x].key \in Key /\ fetches[x].waited \in 0 .. Flight
  <2>1. fetches[x] # NoFetch
    BY DEF Reply, NoFetch
  <2> QED
    BY <2>1, FetchTypes
<1>3. new \in [pc : {"answered"}, key : Key, waited : 0 .. Flight,
               answer : Answer \cup {Lost}]
  BY <1>2, Zenon
<1>4. new.key = fetches[x].key /\ new.answer = answer
  OBVIOUS
<1> HIDE DEF new
<1> QED
  BY <1>1, <1>3, <1>4 DEF CacheTypeOK

LEMMA DeliverType ==
    ASSUME CacheTypeOK, NEW x \in Request, Deliver(x)
    PROVE  CacheTypeOK'
<1> DEFINE k == fetches[x].key
           v == fetches[x].answer
           new == [value |-> v, left |-> Ttl[k]]
<1>1. k \in Key /\ v \in Answer \cup {Lost} /\ (v # Lost => <<k, v>> \in MayAnswer)
  BY FetchTypes DEF Deliver, NoFetch, CacheTypeOK
<1>2. Ttl[k] \in Nat \ {0}
  BY <1>1, CacheAssumption
<1>3. /\ fetches' = [fetches EXCEPT ![x] = NoFetch]
      /\ UNCHANGED <<truth, age>>
      /\ cache' = Stored(k, v)
  BY DEF Deliver
<1>4. cache' = cache \/ (v \in Value /\ cache' = [cache EXCEPT ![k] = new])
  BY <1>3 DEF Stored
<1>5. v \in Value => /\ v # Lost
                     /\ new \in [value : Value, left : Nat \ {0}]
                     /\ new.value = v
                     /\ new.left = Ttl[k]
  BY <1>2, CacheAssumption DEF Answer
<1> HIDE DEF k, v, new
<1>6. cache' \in [Key -> {NoEntry} \cup [value : Value, left : Nat \ {0}]]
  BY <1>4, <1>5 DEF CacheTypeOK
<1>7. \A j \in Key : cache'[j] # NoEntry => /\ <<j, cache'[j].value>> \in MayAnswer
                                            /\ cache'[j].left <= Ttl[j]
  <2> TAKE j \in Key
  <2>1. CASE j = k /\ cache' # cache
    <3>1. v \in Value /\ cache'[j] = new
      BY <1>4, <2>1 DEF CacheTypeOK
    <3> QED
      BY <1>1, <1>2, <1>5, <2>1, <3>1
  <2>2. CASE cache'[j] = cache[j]
    BY <2>2 DEF CacheTypeOK
  <2>3. j # k => cache'[j] = cache[j]
    BY <1>4 DEF CacheTypeOK
  <2> QED
    BY <2>1, <2>2, <2>3
<1>8. \A y \in Request : fetches'[y] = fetches[y] \/ fetches'[y] = NoFetch
  BY <1>3 DEF CacheTypeOK
<1>9. NoFetch.pc # "answered"
  BY DEF NoFetch
<1> QED
  BY <1>3, <1>6, <1>7, <1>8, <1>9 DEF CacheTypeOK

LEMMA ChangeType ==
    ASSUME CacheTypeOK, NEW k \in Key, NEW v \in Answer, Change(k, v)
    PROVE  CacheTypeOK'
BY DEF Change, CacheTypeOK

LEMMA TickType ==
    ASSUME CacheTypeOK, CacheTick
    PROVE  CacheTypeOK'
<1>1. age' \in [Key -> [Answer -> Nat]] /\ UNCHANGED truth
  BY DEF CacheTick, CacheTypeOK, Older
<1>2. ASSUME NEW k \in Key
      PROVE  /\ cache'[k] \in {NoEntry} \cup [value : Value, left : Nat \ {0}]
             /\ cache'[k] # NoEntry => /\ cache[k] # NoEntry
                                       /\ cache'[k].value = cache[k].value
                                       /\ cache'[k].left <= Ttl[k]
  <2>1. cache'[k] = Aged(cache[k]) /\ Ttl[k] \in Nat
    BY CacheAssumption DEF CacheTick
  <2>2. CASE cache[k] = NoEntry
    BY <2>1, <2>2 DEF Aged, NoEntry
  <2>3. CASE cache[k] # NoEntry
    <3> DEFINE v == cache[k].value
               n == cache[k].left
               e == [value |-> v, left |-> n]
    <3>1. /\ cache[k] = e
          /\ v \in Value
          /\ n \in Nat \ {0}
          /\ n <= Ttl[k]
      BY <2>3, EntryTypes
    <3> HIDE DEF v, n
    <3>2. [e EXCEPT !.left = n - 1] = [value |-> v, left |-> n - 1]
      OBVIOUS
    <3>3. cache'[k] = IF n > 1 THEN [value |-> v, left |-> n - 1] ELSE NoEntry
      BY <2>1, <3>1, <3>2 DEF Aged
    <3>4. n > 1 => /\ n - 1 \in Nat \ {0}
                   /\ n - 1 <= Ttl[k]
      BY <2>1, <3>1
    <3>5. cache[k].value = v
      BY <3>1
    <3> QED
      BY <2>3, <3>1, <3>3, <3>4, <3>5
  <2> QED
    BY <2>2, <2>3
<1>3. ASSUME NEW x \in Request
      PROVE  /\ fetches'[x] \in
                  {NoFetch}
                  \cup [pc : {"asked"}, key : Key, waited : 0 .. Flight]
                  \cup [pc : {"answered"}, key : Key, waited : 0 .. Flight,
                        answer : Answer \cup {Lost}]
             /\ fetches'[x].pc = "answered" =>
                  /\ fetches[x].pc = "answered"
                  /\ fetches'[x].key = fetches[x].key
                  /\ fetches'[x].answer = fetches[x].answer
  <2>1. /\ fetches'[x] = Waited(fetches[x])
        /\ fetches[x] # NoFetch => fetches[x].waited < Flight
    BY DEF CacheTick
  <2>2. fetches[x] # NoFetch =>
            /\ fetches[x].waited \in 0 .. Flight
            /\ fetches[x].waited + 1 \in 0 .. Flight
    <3>1. fetches[x] # NoFetch => fetches[x].waited \in 0 .. Flight
      BY FetchTypes
    <3> QED
      BY <2>1, <3>1, CacheAssumption
  <2>3. CASE fetches[x] = NoFetch
    BY <2>1, <2>3 DEF Waited, NoFetch
  <2>4. CASE fetches[x] # NoFetch
    <3>1. fetches'[x] = [fetches[x] EXCEPT !.waited = fetches[x].waited + 1]
      BY <2>1, <2>4 DEF Waited
    <3>2. CASE fetches[x] \in [pc : {"asked"}, key : Key, waited : 0 .. Flight]
      BY <2>2, <2>4, <3>1, <3>2
    <3>3. CASE fetches[x] \in [pc : {"answered"}, key : Key, waited : 0 .. Flight,
                               answer : Answer \cup {Lost}]
      BY <2>2, <2>4, <3>1, <3>3
    <3> QED
      BY <2>4, <3>2, <3>3 DEF CacheTypeOK
  <2> QED
    BY <2>3, <2>4
<1>4. /\ cache' = [k \in Key |-> cache'[k]]
      /\ fetches' = [x \in Request |-> fetches'[x]]
  BY DEF CacheTick
<1>5. /\ cache' \in [Key -> {NoEntry} \cup [value : Value, left : Nat \ {0}]]
      /\ fetches' \in [Request ->
           {NoFetch}
           \cup [pc : {"asked"}, key : Key, waited : 0 .. Flight]
           \cup [pc : {"answered"}, key : Key, waited : 0 .. Flight,
                 answer : Answer \cup {Lost}]]
  BY <1>2, <1>3, <1>4
<1> QED
  BY <1>1, <1>2, <1>3, <1>5 DEF CacheTypeOK

LEMMA RestartType ==
    ASSUME CacheTypeOK, CacheRestart
    PROVE  CacheTypeOK'
BY DEF CacheRestart, CacheTypeOK, NoFetch

\* The types of a request's fields, by how far it is.
LEMMA RequestTypes ==
    ASSUME TypeOK, NEW x \in Request
    PROVE  /\ requests[x].pc \in {"resolve", "discover", "served", "refused"} =>
                  requests[x].slug \in Slug /\ requests[x].slug \in Key
           /\ requests[x].pc \in {"discover", "served"} =>
                  /\ requests[x].config \in Config
                  /\ requests[x].config \in Answer
                  /\ UrlOf[requests[x].config] \in Url
                  /\ UrlOf[requests[x].config] \in Key
           /\ requests[x].pc = "served" => requests[x].document \in Answer
<1>1. requests[x] \in {Idle} \cup [pc : {"resolve"}, slug : Slug]
                             \cup [pc : {"discover"}, slug : Slug, config : Config]
                             \cup Outcome
  BY DEF TypeOK
<1>2. requests[x] = Idle => requests[x].pc = "idle"
  BY DEF Idle
<1>3. /\ requests[x].pc \in {"resolve", "discover", "served", "refused"} =>
             requests[x].slug \in Slug
      /\ requests[x].pc \in {"discover", "served"} => requests[x].config \in Config
      /\ requests[x].pc = "served" => requests[x].document \in Document
  BY <1>1, <1>2 DEF Outcome
<1>4. Slug \subseteq Key /\ Url \subseteq Key /\ Config \subseteq Answer /\ Document \subseteq Answer
  BY ProviderAssumption DEF Answer
<1> QED
  BY <1>3, <1>4, ProviderAssumption

\* Ages and lifetimes are numbers.
LEMMA Numbers ==
    ASSUME CacheTypeOK, NEW k \in Key
    PROVE  /\ Ttl[k] \in Nat \ {0}
           /\ Flight \in Nat
           /\ \A v \in Answer : age[k][v] \in Nat
BY CacheAssumption DEF CacheTypeOK

\* What is not touched stays good as long as nothing gets older.
LEMMA Unmoved ==
    ASSUME TypeOK, CacheTypeOK', NEW x \in Request, Good(x),
           fetches'[x] = fetches[x], requests'[x] = requests[x],
           \A k \in Key : \A v \in Answer : age'[k][v] <= age[k][v]
    PROVE  Good(x)'
<1>1. \A k \in Key : \A v \in Answer : age[k][v] \in Nat /\ age'[k][v] \in Nat
  BY DEF TypeOK, CacheTypeOK
<1>2. ASSUME NEW k \in Key, NEW v \in Answer, NEW n \in Int, Within(k, v, n)
      PROVE  Within(k, v, n)'
  BY <1>1, <1>2 DEF Within
<1>3. FreshAnswer(x)'
  <2>1. fetches[x].pc = "answered" /\ fetches[x].answer # Lost =>
            /\ fetches[x].key \in Key
            /\ fetches[x].answer \in Answer
            /\ fetches[x].waited \in Int
    BY FetchFields DEF TypeOK
  <2> QED
    BY <1>2, <2>1 DEF Good, FreshAnswer
<1>4. OwnFetch(x)'
  BY DEF Good, OwnFetch
<1>5. Spell(x)' = Spell(x) /\ Spell(x) \in Nat
  BY FetchFields DEF Spell, TypeOK
<1>6. HeldConfig(x)'
  <2>1. requests[x].pc = "discover" =>
            Ttl[requests[x].slug] - 1 + Flight + Spell(x) \in Int
    BY <1>5, RequestTypes, CacheAssumption
  <2> QED
    BY <1>2, <1>5, <2>1, RequestTypes DEF Good, HeldConfig
<1>7. GoodOutcome(x)'
  <2>1. requests[x].pc = "served" =>
            /\ Ttl[requests[x].slug] - 1 + 2 * Flight \in Int
            /\ Ttl[UrlOf[requests[x].config]] - 1 + Flight \in Int
    BY RequestTypes, CacheAssumption
  <2>2. Flight \in Int /\ Failure \in Answer
    BY CacheAssumption DEF Answer
  <2> QED
    BY <1>2, <2>1, <2>2, RequestTypes DEF Good, GoodOutcome
<1> QED
  BY <1>3, <1>4, <1>6, <1>7 DEF Good

\* An entry stays recent if it and its age stay as they are.
LEMMA EntriesStay ==
    ASSUME TypeOK, CacheTypeOK', EntriesAreRecent, UNCHANGED cache,
           \A k \in Key : \A v \in Answer : age'[k][v] <= age[k][v]
    PROVE  EntriesAreRecent'
<1> SUFFICES ASSUME NEW k \in Key, cache[k] # NoEntry
             PROVE  Within(k, cache[k].value, Flight + Ttl[k] - cache[k].left)'
  BY DEF EntriesAreRecent
<1>1. /\ cache[k].value \in Answer
      /\ cache[k].left \in Nat
  BY EntryTypes DEF TypeOK, Answer
<1>2. /\ age[k][cache[k].value] \in Nat
      /\ age'[k][cache[k].value] \in Nat
      /\ age'[k][cache[k].value] <= age[k][cache[k].value]
  BY <1>1 DEF TypeOK, CacheTypeOK
<1>3. Flight + Ttl[k] - cache[k].left \in Int
  BY <1>1, CacheAssumption
<1>4. age[k][cache[k].value] <= Flight + Ttl[k] - cache[k].left
  BY DEF EntriesAreRecent, Within
<1> QED
  BY <1>2, <1>3, <1>4 DEF Within

----------------------------------------------------------------------------
(* The steps of a request                                                  *)

\* A request that was given an answer for its slug.
LEMMA ResolveGood ==
    ASSUME TypeOK, NEW x \in Request, NEW slug \in Slug,
           NEW answer \in Answer \cup {Lost},
           answer # Lost => /\ <<slug, answer>> \in MayAnswer
                            /\ Within(slug, answer, Ttl[slug] - 1 + Flight),
           answer = Failure => Within(slug, answer, Flight),
           requests' = [requests EXCEPT ![x] = AfterResolve(slug, answer)],
           fetches'[x] = NoFetch, UNCHANGED age
    PROVE  /\ requests' \in [Request ->
                  {Idle} \cup [pc : {"resolve"}, slug : Slug]
                         \cup [pc : {"discover"}, slug : Slug, config : Config]
                         \cup Outcome]
           /\ Good(x)'
<1>1. requests'[x] = AfterResolve(slug, answer)
  BY DEF TypeOK
<1>2. answer \in Config \cup {Failure, Lost}
  BY ProviderAssumption
<1>3. slug \in Key /\ Ttl[slug] - 1 + Flight \in Int
  BY ProviderAssumption, CacheAssumption
<1>4. NoFetch.pc = "none"
  BY DEF NoFetch
<1>5. FreshAnswer(x)' /\ OwnFetch(x)' /\ Spell(x)' = 0
  BY <1>4 DEF FreshAnswer, OwnFetch, Spell
<1>6. CASE answer \in Config
  <2> DEFINE new == [pc |-> "discover", slug |-> slug, config |-> answer]
  <2>1. requests'[x] = new
    BY <1>1, <1>6 DEF AfterResolve
  <2>2. new \in [pc : {"discover"}, slug : Slug, config : Config]
    BY <1>6
  <2>3. new.pc = "discover" /\ new.slug = slug /\ new.config = answer
    OBVIOUS
  <2>4. answer # Lost
    BY <1>6, CacheAssumption, ProviderAssumption DEF Answer
  <2> HIDE DEF new
  <2>5. HeldConfig(x)'
    BY <1>3, <1>5, <2>1, <2>3, <2>4 DEF HeldConfig, Within
  <2>6. GoodOutcome(x)'
    BY <2>1, <2>3 DEF GoodOutcome
  <2> QED
    BY <1>5, <2>1, <2>2, <2>5, <2>6 DEF Good, TypeOK
<1>7. CASE answer \notin Config
  <2> DEFINE new == [pc |-> "refused", slug |-> slug, answer |-> answer]
  <2>1. requests'[x] = new
    BY <1>1, <1>7 DEF AfterResolve
  <2>2. new \in Outcome
    BY <1>2, <1>7 DEF Outcome
  <2>3. new.pc = "refused" /\ new.slug = slug /\ new.answer = answer
    OBVIOUS
  <2> HIDE DEF new
  <2>4. HeldConfig(x)' /\ GoodOutcome(x)'
    BY <2>1, <2>3 DEF HeldConfig, GoodOutcome, Within
  <2> QED
    BY <1>5, <2>1, <2>2, <2>4 DEF Good, TypeOK
<1> QED
  BY <1>6, <1>7

\* A request that was given an answer for its URL.
LEMMA DiscoverGood ==
    ASSUME TypeOK, NEW x \in Request, Good(x), requests[x].pc = "discover",
           NEW answer \in Answer \cup {Lost},
           answer \in Document =>
               Within(UrlOf[requests[x].config], answer,
                      Ttl[UrlOf[requests[x].config]] - 1 + Flight),
           requests' = [requests EXCEPT ![x] = AfterDiscover(requests[x], answer)],
           fetches'[x] = NoFetch, UNCHANGED age
    PROVE  /\ requests' \in [Request ->
                  {Idle} \cup [pc : {"resolve"}, slug : Slug]
                         \cup [pc : {"discover"}, slug : Slug, config : Config]
                         \cup Outcome]
           /\ Good(x)'
<1> DEFINE slug == requests[x].slug
           config == requests[x].config
<1>1. /\ slug \in Slug /\ slug \in Key
      /\ config \in Config /\ config \in Answer
  BY RequestTypes
<1>2. requests'[x] = AfterDiscover(requests[x], answer)
  BY DEF TypeOK
<1>3. NoFetch.pc = "none"
  BY DEF NoFetch
<1>4. FreshAnswer(x)' /\ OwnFetch(x)'
  BY <1>3 DEF FreshAnswer, OwnFetch
<1>5. Within(slug, config, Ttl[slug] - 1 + 2 * Flight)
  <2>1. Spell(x) \in Nat /\ Spell(x) <= Flight
    BY FetchFields, CacheAssumption DEF TypeOK, Spell
  <2>2. age[slug][config] <= Ttl[slug] - 1 + Flight + Spell(x)
    BY DEF Good, HeldConfig, Within
  <2>3. age[slug][config] \in Nat /\ Ttl[slug] \in Nat /\ Flight \in Nat
    BY <1>1, Numbers DEF TypeOK
  <2> QED
    BY <2>1, <2>2, <2>3 DEF Within
<1>6. CASE answer \in Document
  <2> DEFINE new == [pc |-> "served", slug |-> slug, config |-> config, document |-> answer]
  <2>1. requests'[x] = new
    BY <1>2, <1>6 DEF AfterDiscover
  <2>2. new \in Outcome
    BY <1>1, <1>6 DEF Outcome
  <2>3. /\ new.pc = "served" /\ new.slug = slug /\ new.config = config
        /\ new.document = answer
    OBVIOUS
  <2>4. HeldConfig(x)'
    BY <2>1, <2>3 DEF HeldConfig
  <2>5. GoodOutcome(x)'
    BY <1>5, <1>6, <2>1, <2>3 DEF GoodOutcome, Within
  <2> QED
    BY <1>4, <2>1, <2>2, <2>4, <2>5 DEF Good, TypeOK
<1>7. CASE answer \notin Document
  <2> DEFINE new == [pc |-> "refused", slug |-> slug, answer |-> Lost]
  <2>1. requests'[x] = new
    BY <1>2, <1>7 DEF AfterDiscover
  <2>2. new \in Outcome
    BY <1>1 DEF Outcome
  <2>3. new.pc = "refused" /\ new.answer = Lost /\ Lost # Failure
    BY CacheAssumption DEF Answer
  <2> HIDE DEF new
  <2>4. HeldConfig(x)' /\ GoodOutcome(x)'
    BY <2>1, <2>3 DEF HeldConfig, GoodOutcome
  <2> QED
    BY <1>4, <2>1, <2>2, <2>4 DEF Good, TypeOK
<1> QED
  BY <1>6, <1>7

\* A live entry is younger than a fetch and its lifetime.
LEMMA LiveEntry ==
    ASSUME IInv, NEW k \in Key, Live(k)
    PROVE  /\ cache[k].value \in Value
           /\ <<k, cache[k].value>> \in MayAnswer
           /\ Within(k, cache[k].value, Ttl[k] - 1 + Flight)
<1>1. /\ cache[k] # NoEntry
      /\ cache[k].value \in Value
      /\ cache[k].left \in Nat \ {0}
      /\ <<k, cache[k].value>> \in MayAnswer
  BY EntryTypes DEF IInv, TypeOK
<1>2. age[k][cache[k].value] <= Flight + Ttl[k] - cache[k].left
  BY <1>1 DEF IInv, EntriesAreRecent, Within
<1>3. age[k][cache[k].value] \in Nat /\ Ttl[k] \in Nat /\ Flight \in Nat
  BY <1>1, Numbers DEF IInv, TypeOK, Answer
<1> QED
  BY <1>1, <1>2, <1>3 DEF Within

\* The answer a fetch brings back is no older than the fetch.
LEMMA FreshFetch ==
    ASSUME IInv, NEW x \in Request, fetches[x].pc = "answered",
           fetches[x].answer # Lost
    PROVE  /\ fetches[x].key \in Key
           /\ fetches[x].answer \in Answer
           /\ <<fetches[x].key, fetches[x].answer>> \in MayAnswer
           /\ Within(fetches[x].key, fetches[x].answer, Flight)
           /\ Within(fetches[x].key, fetches[x].answer, Ttl[fetches[x].key] - 1 + Flight)
<1> DEFINE k == fetches[x].key
           v == fetches[x].answer
<1>1. /\ k \in Key /\ v \in Answer /\ <<k, v>> \in MayAnswer
      /\ fetches[x].waited \in Nat /\ fetches[x].waited <= Flight
  BY FetchFields DEF IInv, TypeOK, CacheTypeOK
<1>2. age[k][v] <= fetches[x].waited
  BY DEF IInv, Good, FreshAnswer, Within
<1>3. age[k][v] \in Nat /\ Ttl[k] \in Nat \ {0} /\ Flight \in Nat
  BY <1>1, Numbers DEF IInv, TypeOK
<1> QED
  BY <1>1, <1>2, <1>3 DEF Within

\* Storing what a fetch brings back.
LEMMA DeliverEntries ==
    ASSUME IInv, NEW x \in Request, Deliver(x)
    PROVE  EntriesAreRecent'
<1> DEFINE k == fetches[x].key
           v == fetches[x].answer
           new == [value |-> v, left |-> Ttl[k]]
<1> SUFFICES ASSUME NEW j \in Key, cache'[j] # NoEntry
             PROVE  Within(j, cache[j].value, Flight + Ttl[j] - cache[j].left)'
  BY DEF EntriesAreRecent
<1>1. age' = age /\ cache' = Stored(k, v) /\ fetches[x].pc = "answered"
  BY DEF Deliver
<1>2. CASE cache'[j] = cache[j]
  BY <1>1, <1>2 DEF IInv, EntriesAreRecent, Within
<1>3. CASE cache'[j] # cache[j]
  <2>1. v \in Value /\ j = k /\ cache'[j] = new
    BY <1>1, <1>3 DEF Stored, IInv, TypeOK, CacheTypeOK
  <2>2. v # Lost
    BY <2>1, CacheAssumption DEF Answer
  <2>3. Within(k, v, Flight) /\ k \in Key
    BY <1>1, <2>2, FreshFetch
  <2>4. new.value = v /\ new.left = Ttl[k] /\ Ttl[k] \in Nat /\ Flight \in Nat
    BY <2>3, CacheAssumption
  <2>5. Flight + Ttl[k] - Ttl[k] = Flight
    BY <2>4
  <2> HIDE DEF k, v, new
  <2> QED
    BY <1>1, <2>1, <2>3, <2>4, <2>5 DEF Within
<1> QED
  BY <1>2, <1>3

\* Every step of a request keeps the invariant.
LEMMA RequestPreserves ==
    ASSUME IInv, NEW x \in Request, NEW slug \in Slug,
           \/ ResolveFromCache(x, slug)
           \/ Resolve(x, slug)
           \/ Resolved(x)
           \/ DiscoverFromCache(x)
           \/ Discover(x)
           \/ Discovered(x)
    PROVE  IInv'
<1> USE DEF IInv
<1>1. slug \in Key /\ TypeOK /\ CacheTypeOK /\ Good(x)
  BY ProviderAssumption DEF TypeOK
<1>2. \A k \in Key : \A v \in Answer : age[k][v] \in Nat /\ age[k][v] <= age[k][v]
  BY <1>1 DEF CacheTypeOK
\* The other requests.
<1>3. ASSUME CacheTypeOK', UNCHANGED age,
             \A y \in Request : y # x => fetches'[y] = fetches[y] /\ requests'[y] = requests[y]
      PROVE  \A y \in Request : y # x => Good(y)'
  BY <1>1, <1>2, <1>3, Unmoved
<1>4. UNCHANGED cacheVars => CacheTypeOK' /\ UNCHANGED <<age, cache>>
  BY <1>1 DEF cacheVars, CacheTypeOK
<1>5. UNCHANGED <<age, cache>> /\ CacheTypeOK' => EntriesAreRecent'
  BY <1>1, <1>2, EntriesStay
\* What services would answer does not change.
<1> TruthIsNew'
  <2>1. UNCHANGED <<truth, age>>
    BY DEF ResolveFromCache, Resolve, Resolved, DiscoverFromCache, Discover, Discovered,
           Fetch, Deliver, cacheVars
  <2> QED
    BY <2>1 DEF TruthIsNew
<1>6. CASE ResolveFromCache(x, slug)
  <2>1. /\ UNCHANGED cacheVars
        /\ requests' = [requests EXCEPT ![x] = AfterResolve(slug, cache[slug].value)]
        /\ requests[x] = Idle /\ Live(slug)
    BY <1>6 DEF ResolveFromCache
  <2>2. /\ cache[slug].value \in Value
        /\ <<slug, cache[slug].value>> \in MayAnswer
        /\ Within(slug, cache[slug].value, Ttl[slug] - 1 + Flight)
    BY <1>1, <2>1, LiveEntry
  <2>3. /\ cache[slug].value \in Answer
        /\ cache[slug].value # Failure
    BY <2>2, CacheAssumption DEF Answer
  <2>4. fetches'[x] = NoFetch
    BY <1>1, <2>1 DEF Good, OwnFetch, Idle, cacheVars
  <2>5. TypeOK' /\ Good(x)'
    BY <1>1, <1>4, <2>1, <2>2, <2>3, <2>4, ResolveGood DEF TypeOK
  <2>6. \A y \in Request : y # x => fetches'[y] = fetches[y] /\ requests'[y] = requests[y]
    BY <1>1, <2>1 DEF TypeOK, cacheVars
  <2> QED
    BY <1>3, <1>4, <1>5, <2>1, <2>5, <2>6
<1>7. CASE Resolve(x, slug)
  <2> DEFINE new == [pc |-> "resolve", slug |-> slug]
             call == [pc |-> "asked", key |-> slug, waited |-> 0]
  <2>1. /\ Fetch(x, slug)
        /\ UNCHANGED <<age, cache>>
        /\ fetches' = [fetches EXCEPT ![x] = call]
        /\ requests' = [requests EXCEPT ![x] = new]
    BY <1>7 DEF Resolve, Fetch
  <2>2. CacheTypeOK'
    BY <1>1, <2>1, FetchType
  <2>3. /\ new \in [pc : {"resolve"}, slug : Slug]
        /\ new.pc = "resolve" /\ new.slug = slug
        /\ call.pc = "asked" /\ call.key = slug
    OBVIOUS
  <2> HIDE DEF new, call
  <2>4. requests'[x] = new /\ fetches'[x] = call
    BY <1>1, <2>1 DEF TypeOK, CacheTypeOK
  <2>5. TypeOK'
    BY <1>1, <2>1, <2>2, <2>3 DEF TypeOK
  <2>6. Good(x)'
    BY <2>3, <2>4 DEF Good, FreshAnswer, OwnFetch, HeldConfig, GoodOutcome
  <2>7. \A y \in Request : y # x => fetches'[y] = fetches[y] /\ requests'[y] = requests[y]
    BY <1>1, <2>1 DEF TypeOK, CacheTypeOK
  <2> QED
    BY <1>3, <1>5, <2>1, <2>2, <2>5, <2>6, <2>7
<1>8. CASE Resolved(x)
  <2> DEFINE answer == fetches[x].answer
  <2>1. /\ Deliver(x)
        /\ requests[x].pc = "resolve"
        /\ fetches[x].pc = "answered"
        /\ UNCHANGED age
        /\ fetches' = [fetches EXCEPT ![x] = NoFetch]
        /\ requests' = [requests EXCEPT ![x] = AfterResolve(requests[x].slug, answer)]
    BY <1>8 DEF Resolved, Deliver
  <2>2. CacheTypeOK' /\ EntriesAreRecent'
    BY <1>1, <2>1, DeliverType, DeliverEntries
  <2>3. /\ fetches[x].key = requests[x].slug
        /\ requests[x].slug \in Slug
        /\ answer \in Answer \cup {Lost}
        /\ Lost # Failure
    BY <1>1, <2>1, FetchFields, RequestTypes, CacheAssumption
    DEF Good, OwnFetch, TypeOK, Answer
  <2>4. answer # Lost => /\ <<requests[x].slug, answer>> \in MayAnswer
                         /\ Within(requests[x].slug, answer, Flight)
                         /\ Within(requests[x].slug, answer,
                                   Ttl[requests[x].slug] - 1 + Flight)
    BY <2>1, <2>3, FreshFetch
  <2>5. fetches'[x] = NoFetch
    BY <1>1, <2>1 DEF CacheTypeOK
  <2> HIDE DEF answer
  <2>6. TypeOK' /\ Good(x)'
    BY <1>1, <2>1, <2>2, <2>3, <2>4, <2>5, ResolveGood DEF TypeOK
  <2>7. \A y \in Request : y # x => fetches'[y] = fetches[y] /\ requests'[y] = requests[y]
    BY <1>1, <2>1 DEF TypeOK, CacheTypeOK
  <2> QED
    BY <1>3, <2>1, <2>2, <2>6, <2>7
<1>9. CASE DiscoverFromCache(x)
  <2> DEFINE url == UrlOf[requests[x].config]
             answer == cache[url].value
  <2>1. /\ requests[x].pc = "discover"
        /\ fetches[x] = NoFetch
        /\ Live(url)
        /\ requests' = [requests EXCEPT ![x] = AfterDiscover(requests[x], answer)]
        /\ UNCHANGED cacheVars
    BY <1>9 DEF DiscoverFromCache, ReadyToDiscover
  <2>2. url \in Key
    BY <1>1, <2>1, RequestTypes
  <2>3. answer \in Answer /\ Within(url, answer, Ttl[url] - 1 + Flight)
    BY <2>1, <2>2, LiveEntry DEF Answer
  <2>4. fetches' = fetches /\ age' = age
    BY <2>1 DEF cacheVars
  <2> HIDE DEF answer
  <2>5. TypeOK' /\ Good(x)'
    BY <1>1, <1>4, <2>1, <2>3, <2>4, DiscoverGood DEF TypeOK
  <2>6. \A y \in Request : y # x => fetches'[y] = fetches[y] /\ requests'[y] = requests[y]
    BY <1>1, <2>1, <2>4 DEF TypeOK
  <2> QED
    BY <1>3, <1>4, <1>5, <2>1, <2>4, <2>5, <2>6
<1>10. CASE Discover(x)
  <2> DEFINE url == UrlOf[requests[x].config]
             call == [pc |-> "asked", key |-> url, waited |-> 0]
  <2>1. /\ Fetch(x, url)
        /\ fetches[x] = NoFetch
        /\ requests[x].pc = "discover"
        /\ UNCHANGED <<age, cache, requests>>
        /\ fetches' = [fetches EXCEPT ![x] = call]
    BY <1>10 DEF Discover, Fetch, ReadyToDiscover
  <2>2. url \in Key
    BY <1>1, <2>1, RequestTypes
  <2>3. CacheTypeOK'
    BY <1>1, <2>1, <2>2, FetchType
  <2>4. call.pc = "asked" /\ call.key = url /\ call.waited = 0
    OBVIOUS
  <2> HIDE DEF call
  <2>5. fetches'[x] = call
    BY <1>1, <2>1 DEF CacheTypeOK
  <2>6. Spell(x) = 0 /\ Spell(x)' = 0
    BY <2>1, <2>4, <2>5 DEF Spell
  <2>7. Good(x)'
    BY <1>1, <2>1, <2>4, <2>5, <2>6
    DEF Good, FreshAnswer, OwnFetch, HeldConfig, GoodOutcome, Within
  <2>8. \A y \in Request : y # x => fetches'[y] = fetches[y] /\ requests'[y] = requests[y]
    BY <1>1, <2>1 DEF CacheTypeOK
  <2>9. TypeOK'
    BY <1>1, <2>1, <2>3 DEF TypeOK
  <2> QED
    BY <1>3, <1>5, <2>1, <2>3, <2>7, <2>8, <2>9
<1>11. CASE Discovered(x)
  <2> DEFINE answer == fetches[x].answer
             url == UrlOf[requests[x].config]
  <2>1. /\ Deliver(x)
        /\ requests[x].pc = "discover"
        /\ fetches[x].pc = "answered"
        /\ UNCHANGED age
        /\ fetches' = [fetches EXCEPT ![x] = NoFetch]
        /\ requests' = [requests EXCEPT ![x] = AfterDiscover(requests[x], answer)]
    BY <1>11 DEF Discovered, Deliver
  <2>2. CacheTypeOK' /\ EntriesAreRecent'
    BY <1>1, <2>1, DeliverType, DeliverEntries
  <2>3. fetches[x].key = url /\ answer \in Answer \cup {Lost}
    BY <1>1, <2>1, FetchFields DEF Good, OwnFetch
  <2>4. answer \in Document => Within(url, answer, Ttl[url] - 1 + Flight)
    <3>1. answer \in Document => answer # Lost
      BY ProviderAssumption, CacheAssumption DEF Answer
    <3> QED
      BY <2>1, <2>3, <3>1, FreshFetch
  <2>5. fetches'[x] = NoFetch
    BY <1>1, <2>1 DEF CacheTypeOK
  <2> HIDE DEF answer
  <2>6. TypeOK' /\ Good(x)'
    BY <1>1, <2>1, <2>2, <2>3, <2>4, <2>5, DiscoverGood DEF TypeOK
  <2>7. \A y \in Request : y # x => fetches'[y] = fetches[y] /\ requests'[y] = requests[y]
    BY <1>1, <2>1 DEF TypeOK, CacheTypeOK
  <2> QED
    BY <1>3, <2>1, <2>2, <2>6, <2>7
<1> QED
  BY <1>6, <1>7, <1>8, <1>9, <1>10, <1>11

----------------------------------------------------------------------------
(* The steps of the services, the clock and the process                    *)

\* An answer sets out.
LEMMA ReplyPreserves ==
    ASSUME IInv, NEW x \in Request, Serve(x) \/ Lose(x), UNCHANGED requests
    PROVE  IInv'
<1> USE DEF IInv
<1> DEFINE k == fetches[x].key
<1>1. /\ TypeOK /\ CacheTypeOK /\ Good(x) /\ fetches[x].pc = "asked"
      /\ fetches[x] # NoFetch
      /\ k \in Key
  <2>1. CacheTypeOK /\ fetches[x].pc = "asked"
    BY DEF Serve, Lose, Reply, TypeOK
  <2>2. fetches[x] # NoFetch
    BY <2>1 DEF NoFetch
  <2> QED
    BY <2>1, <2>2, FetchFields
<1>2. PICK answer \in Answer \cup {Lost} :
          /\ Reply(x, answer)
          /\ answer # Lost => <<k, answer>> \in MayAnswer /\ age[k][answer] = 0
  <2>1. truth[k] \in Answer /\ <<k, truth[k]>> \in MayAnswer /\ age[k][truth[k]] = 0
    BY <1>1 DEF TruthIsNew, CacheTypeOK
  <2>2. CASE Serve(x)
    BY <2>1, <2>2 DEF Serve
  <2>3. CASE Lose(x)
    BY <2>3 DEF Lose
  <2> QED
    BY <2>2, <2>3
<1> DEFINE new == [pc |-> "answered", key |-> k, waited |-> fetches[x].waited,
                   answer |-> answer]
<1>3. fetches' = [fetches EXCEPT ![x] = new] /\ UNCHANGED <<truth, age, cache>>
  BY <1>2 DEF Reply
<1>4. CacheTypeOK'
  BY <1>1, <1>2, ReplyType
<1>5. TypeOK' /\ TruthIsNew' /\ EntriesAreRecent'
  BY <1>1, <1>3, <1>4 DEF TypeOK, TruthIsNew, EntriesAreRecent, Within
<1>6. /\ new.key = k /\ new.waited = fetches[x].waited /\ new.answer = answer
      /\ fetches[x].waited \in Nat
      /\ fetches'[x] = new
  BY <1>1, <1>3, FetchFields DEF CacheTypeOK
<1>7. new # NoFetch
  <2>1. new.pc = "answered" /\ NoFetch.pc = "none"
    BY DEF NoFetch
  <2> HIDE DEF new
  <2> QED
    BY <2>1
<1> HIDE DEF new
<1>8. Good(x)'
  <2>1. FreshAnswer(x)'
    BY <1>2, <1>3, <1>6 DEF FreshAnswer, Within
  <2>2. OwnFetch(x)'
    BY <1>1, <1>6 DEF Good, OwnFetch
  <2>3. Spell(x)' = Spell(x)
    BY <1>1, <1>6, <1>7 DEF Spell
  <2> QED
    BY <1>1, <1>3, <2>1, <2>2, <2>3 DEF Good, HeldConfig, GoodOutcome, Within
<1>9. ASSUME NEW y \in Request, y # x
      PROVE  Good(y)'
  <2>1. fetches'[y] = fetches[y] /\ Good(y)
    BY <1>1, <1>3, <1>9 DEF CacheTypeOK
  <2>2. \A j \in Key : \A v \in Answer : age[j][v] <= age[j][v]
    BY <1>1 DEF CacheTypeOK
  <2> QED
    BY <1>1, <1>3, <1>4, <2>1, <2>2, Unmoved
<1> QED
  BY <1>5, <1>8, <1>9

\* A service's owner changes an answer: it becomes new, the others stay as old.
LEMMA ChangePreserves ==
    ASSUME IInv, NEW k \in Key, NEW v \in Answer, Change(k, v), UNCHANGED requests
    PROVE  IInv'
<1> USE DEF IInv
<1>1. TypeOK /\ CacheTypeOK /\ CacheTypeOK' /\ UNCHANGED <<cache, fetches>>
  BY ChangeType DEF TypeOK, Change
<1>2. \A j \in Key : \A w \in Answer :
          age'[j][w] = IF j = k /\ w = v THEN 0 ELSE age[j][w]
  BY <1>1 DEF Change, CacheTypeOK
<1>3. \A j \in Key : \A w \in Answer : age'[j][w] <= age[j][w]
  <2>1. \A j \in Key : \A w \in Answer : age[j][w] \in Nat
    BY <1>1 DEF CacheTypeOK
  <2> QED
    BY <1>2, <2>1
<1>4. TypeOK' /\ EntriesAreRecent'
  BY <1>1, <1>3, EntriesStay DEF TypeOK
<1>5. TruthIsNew'
  BY <1>1, <1>2 DEF TruthIsNew, Change, CacheTypeOK
<1>6. \A y \in Request : Good(y)'
  BY <1>1, <1>3, Unmoved
<1> QED
  BY <1>4, <1>5, <1>6

\* A tick.
LEMMA TickPreserves ==
    ASSUME IInv, Tick
    PROVE  IInv'
<1> USE DEF IInv
<1>1. TypeOK /\ CacheTypeOK /\ CacheTypeOK' /\ CacheTick
  BY TickType DEF TypeOK, Tick
<1>2. ASSUME NEW k \in Key, NEW v \in Answer
      PROVE  /\ age[k][v] \in Nat /\ age'[k][v] \in Nat
             /\ age'[k][v] <= age[k][v] + 1
             /\ truth'[k] = v => age'[k][v] = 0
  <2>1. age[k][v] \in Nat /\ age'[k][v] \in Nat
    BY <1>1 DEF CacheTypeOK
  <2>2. age'[k][v] = IF v = truth[k] THEN 0 ELSE Older(age[k][v])
    BY <1>1 DEF CacheTick
  <2> QED
    BY <1>1, <2>1, <2>2 DEF Older, CacheTick
<1>4. TruthIsNew'
  BY <1>1, <1>2 DEF TruthIsNew, CacheTypeOK
<1>5. EntriesAreRecent'
  <2> SUFFICES ASSUME NEW k \in Key, cache'[k] # NoEntry
               PROVE  Within(k, cache[k].value, Flight + Ttl[k] - cache[k].left)'
    BY DEF EntriesAreRecent
  <2> DEFINE v == cache[k].value
             n == cache[k].left
  <2>1. cache'[k] = Aged(cache[k])
    BY <1>1 DEF CacheTick
  <2>2. cache[k] # NoEntry
    BY <2>1 DEF Aged, NoEntry
  <2>3. /\ cache[k] = [value |-> v, left |-> n]
        /\ v \in Answer
        /\ n \in Nat \ {0}
    BY <1>1, <2>2, EntryTypes DEF Answer
  <2>4. age[k][v] <= Flight + Ttl[k] - n
    BY <2>2 DEF EntriesAreRecent, Within
  <2>5. age'[k][v] <= age[k][v] + 1 /\ age'[k][v] \in Nat /\ age[k][v] \in Nat
    BY <1>2, <2>3
  <2> HIDE DEF v, n
  <2>6. age'[k][v] <= Flight + Ttl[k] - (n - 1)
    BY <2>3, <2>4, <2>5, CacheAssumption
  <2>7. cache'[k].value = v /\ cache'[k].left = n - 1
    <3>1. [[value |-> v, left |-> n] EXCEPT !.left = n - 1] = [value |-> v, left |-> n - 1]
      OBVIOUS
    <3> QED
      BY <2>1, <2>3, <3>1 DEF Aged
  <2> QED
    BY <2>6, <2>7 DEF Within
<1>6. TypeOK'
  <2>1. \A x \in Request : requests'[x] = Idle \/ requests'[x] = requests[x]
    BY DEF Tick
  <2>2. requests' = [x \in Request |-> requests'[x]]
    BY DEF Tick
  <2> QED
    BY <1>1, <2>1, <2>2 DEF TypeOK
<1>7. ASSUME NEW x \in Request
      PROVE  Good(x)'
  <2>1. /\ fetches'[x] = Waited(fetches[x])
        /\ requests'[x] = IF requests[x] \in Outcome THEN Idle ELSE requests[x]
        /\ ~ ReadyToDiscover(x)
        /\ Good(x)
    BY DEF Tick, CacheTick
  <2>2. Idle.pc = "idle" /\ NoFetch.pc = "none"
    BY DEF Idle, NoFetch
  <2>3. /\ fetches[x] = NoFetch => fetches'[x] = NoFetch
        /\ fetches[x] # NoFetch =>
              /\ fetches'[x] = [fetches[x] EXCEPT !.waited = fetches[x].waited + 1]
              /\ fetches'[x].key = fetches[x].key
              /\ fetches'[x].waited = fetches[x].waited + 1
              /\ fetches'[x].pc = fetches[x].pc
              /\ fetches[x].pc = "answered" => fetches'[x].answer = fetches[x].answer
    BY <1>1, <2>1, FetchTypes DEF Waited
  <2>4. FreshAnswer(x)'
    <3> SUFFICES ASSUME fetches'[x].pc = "answered", fetches'[x].answer # Lost
                 PROVE  Within(fetches[x].key, fetches[x].answer, fetches[x].waited)'
      BY DEF FreshAnswer
    <3>1. fetches[x] # NoFetch /\ fetches[x].pc = "answered"
      BY <2>2, <2>3
    <3>2. /\ fetches[x].key \in Key
          /\ fetches[x].answer \in Answer
          /\ fetches[x].waited \in Nat
      BY <1>1, <2>3, <3>1, FetchFields
    <3>3. Within(fetches[x].key, fetches[x].answer, fetches[x].waited)
      BY <2>1, <2>3, <3>1 DEF Good, FreshAnswer
    <3>4. age'[fetches[x].key][fetches[x].answer] <= fetches[x].waited + 1
      BY <1>2, <3>2, <3>3 DEF Within
    <3> QED
      BY <2>3, <3>1, <3>4 DEF Within
  <2>5. OwnFetch(x)'
    <3>1. fetches[x] # NoFetch => requests[x] \notin Outcome
      BY <2>1 DEF Good, OwnFetch, Outcome
    <3> QED
      BY <2>1, <2>3, <3>1 DEF Good, OwnFetch
  <2>6. HeldConfig(x)'
    <3> SUFFICES ASSUME requests'[x].pc = "discover"
                 PROVE  HeldConfig(x)'
      BY DEF HeldConfig
    <3>1. requests'[x] = requests[x] /\ requests[x].pc = "discover"
      BY <2>1, <2>2
    <3>2. fetches[x] # NoFetch
      BY <2>1, <3>1 DEF ReadyToDiscover
    <3>3. fetches'[x] # NoFetch
      <4>1. fetches[x].pc \in {"asked", "answered"}
        BY <1>1, <3>2 DEF CacheTypeOK
      <4> QED
        BY <2>2, <2>3, <3>2, <4>1
    <3>4. Spell(x)' = Spell(x) + 1 /\ Spell(x) \in Nat
      BY <1>1, <2>3, <3>2, <3>3, FetchFields DEF Spell
    <3>5. requests[x].slug \in Key /\ requests[x].config \in Answer
      BY <1>1, <3>1, RequestTypes
    <3>6. age[requests[x].slug][requests[x].config]
            <= Ttl[requests[x].slug] - 1 + Flight + Spell(x)
      BY <2>1, <3>1 DEF Good, HeldConfig, Within
    <3>7. age'[requests[x].slug][requests[x].config]
            <= Ttl[requests[x].slug] - 1 + Flight + (Spell(x) + 1)
      BY <1>1, <1>2, <3>4, <3>5, <3>6, Numbers
    <3> QED
      BY <3>1, <3>4, <3>7 DEF HeldConfig, Within
  <2>7. GoodOutcome(x)'
    <3>1. requests'[x] \notin Outcome
      BY <2>1, <2>2 DEF Outcome
    <3>2. requests'[x].pc \notin {"served", "refused"}
      BY <1>6, <2>2, <3>1 DEF TypeOK
    <3> QED
      BY <3>2 DEF GoodOutcome
  <2> QED
    BY <2>4, <2>5, <2>6, <2>7 DEF Good
<1> QED
  BY <1>4, <1>5, <1>6, <1>7

\* A restart.
LEMMA RestartPreserves ==
    ASSUME IInv, Restart
    PROVE  IInv'
<1>1. TypeOK'
  BY RestartType DEF IInv, TypeOK, Restart
<1>2. TruthIsNew' /\ EntriesAreRecent'
  BY DEF IInv, Restart, CacheRestart, TruthIsNew, EntriesAreRecent
<1>3. \A x \in Request : Good(x)'
  BY DEF Restart, CacheRestart, Good, FreshAnswer, OwnFetch, HeldConfig, GoodOutcome,
         Idle, NoFetch
<1> QED
  BY <1>1, <1>2, <1>3 DEF IInv

----------------------------------------------------------------------------
\* The invariant holds initially ...
LEMMA InitIInv == Init => IInv
<1> SUFFICES ASSUME Init
             PROVE  IInv
  OBVIOUS
<1>1. NoFetch.pc = "none" /\ Idle.pc = "idle"
  BY DEF NoFetch, Idle
<1>2. CacheTypeOK
  BY <1>1, CacheAssumption DEF Init, CacheInit, CacheTypeOK
<1>3. TypeOK /\ TruthIsNew /\ EntriesAreRecent
  BY <1>2 DEF Init, CacheInit, TypeOK, TruthIsNew, EntriesAreRecent
<1>4. \A x \in Request : Good(x)
  BY <1>1 DEF Init, CacheInit, Good, FreshAnswer, OwnFetch, HeldConfig, GoodOutcome
<1> QED
  BY <1>3, <1>4 DEF IInv

\* ... and every step keeps it.
LEMMA StepIInv == IInv /\ [Next]_vars => IInv'
<1> SUFFICES ASSUME IInv, [Next]_vars
             PROVE  IInv'
  OBVIOUS
<1>1. CASE RequestStep
  <2>1. PICK x \in Request :
            \/ \E slug \in Slug : ResolveFromCache(x, slug) \/ Resolve(x, slug)
            \/ Resolved(x)
            \/ DiscoverFromCache(x)
            \/ Discover(x)
            \/ Discovered(x)
    BY <1>1 DEF RequestStep
  <2>2. CASE \E slug \in Slug : ResolveFromCache(x, slug) \/ Resolve(x, slug)
    BY <2>2, RequestPreserves
  <2>3. CASE Resolved(x) \/ DiscoverFromCache(x) \/ Discover(x) \/ Discovered(x)
    <3>1. requests[x].slug \in Slug
      BY <2>3, RequestTypes
      DEF IInv, Resolved, DiscoverFromCache, Discover, Discovered, ReadyToDiscover
    <3> QED
      BY <2>3, <3>1, RequestPreserves
  <2> QED
    BY <2>1, <2>2, <2>3
<1>2. CASE Services
  <2>1. ASSUME NEW pair \in MayAnswer, Change(pair[1], pair[2]), UNCHANGED requests
        PROVE  IInv'
    <3>1. pair[1] \in Key /\ pair[2] \in Answer
      BY CacheAssumption
    <3> QED
      BY <2>1, <3>1, ChangePreserves
  <2> QED
    BY <1>2, <2>1, ReplyPreserves DEF Services
<1>3. CASE Tick \/ Restart
  BY <1>3, TickPreserves, RestartPreserves
<1>4. CASE UNCHANGED vars
  BY <1>4 DEF vars, cacheVars, IInv, TypeOK, CacheTypeOK, TruthIsNew, EntriesAreRecent,
              Good, FreshAnswer, OwnFetch, HeldConfig, GoodOutcome, Spell, Within
<1> QED
  BY <1>1, <1>2, <1>3, <1>4 DEF Next

\* Caches, fetches and requests keep their types: failures are never kept, and no
\* entry for longer than its lifetime.
THEOREM TypeCorrect == Spec => []TypeOK
<1>1. IInv => TypeOK
  BY DEF IInv
<1> QED
  BY <1>1, InitIInv, StepIInv, PTL DEF Spec

\* For any lifetimes, any length of a fetch and any number of tenants, requests and
\* IdPs, a configuration that Django has replaced is out of use in time.
THEOREM RecentConfigs == Spec => []ServedConfigsAreRecent
<1>1. IInv => ServedConfigsAreRecent
  BY DEF IInv, Good, GoodOutcome, ServedConfigsAreRecent
<1> QED
  BY <1>1, InitIInv, StepIInv, PTL DEF Spec

\* A secret goes to endpoints that its configuration's own discovery_url named.
THEOREM SecretsGoHome == Spec => []SecretGoesHome
<1>1. IInv => SecretGoesHome
  BY DEF IInv, Good, GoodOutcome, SecretGoesHome
<1> QED
  BY <1>1, InitIInv, StepIInv, PTL DEF Spec

\* No request is refused for a configuration that was fixed before it asked.
THEOREM FreshRefusals == Spec => []RefusalsAreFresh
<1>1. IInv => RefusalsAreFresh
  BY DEF IInv, Good, GoodOutcome, RefusalsAreFresh
<1> QED
  BY <1>1, InitIInv, StepIInv, PTL DEF Spec
=============================================================================
