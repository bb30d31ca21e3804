------------------------------ MODULE SingleUse ------------------------------
(***************************************************************************)
(* What the service promises of everything it hands out to be presented    *)
(* once: a credential is issued, and then claimed by one request or never, *)
(* since it may also lapse.  "Atomically consumes the code: a second call  *)
(* for the same code returns null" (src/src/redis/challenge-store.ts) is   *)
(* this specification; Redemption implements it.                           *)
(***************************************************************************)
CONSTANTS Credential,   \* authorization codes, registration tickets, ...
          Claimant      \* the requests that present them

VARIABLES live,     \* the credentials a claim would find
          spent,    \* those claimed or lapsed
          claims    \* <<x, c>> where request x was granted credential c

vars == <<live, spent, claims>>

Init == /\ live = {}
        /\ spent = {}
        /\ claims = {}

Issue(c) == /\ c \notin live \cup spent
            /\ live' = live \cup {c}
            /\ UNCHANGED <<spent, claims>>

Claim(x, c) == /\ c \in live
               /\ \A p \in claims : p[1] # x
               /\ live' = live \ {c}
               /\ spent' = spent \cup {c}
               /\ claims' = claims \cup {<<x, c>>}

Lapse(c) == /\ c \in live
            /\ live' = live \ {c}
            /\ spent' = spent \cup {c}
            /\ UNCHANGED claims

Next == \/ \E c \in Credential : Issue(c) \/ Lapse(c)
        \/ \E x \in Claimant, c \in Credential : Claim(x, c)

Spec == Init /\ [][Next]_vars

\* No credential is granted to two requests.
AtMostOnce == \A p, q \in claims : p[2] = q[2] => p = q
=============================================================================
