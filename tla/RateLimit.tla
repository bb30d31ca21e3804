------------------------------ MODULE RateLimit ------------------------------
(***************************************************************************)
(* RateLimiter.check (src/src/security/rate-limit.ts) for one scope and    *)
(* one caller: a Lua script increments a counter and, when that made it,   *)
(* has it expire after the window.  Counters of other scopes and callers   *)
(* are other keys.                                                         *)
(*                                                                         *)
(* The script's answer may be lost.  The Redis client then sends it again, *)
(* which counts the request twice, or gives up and the request fails.      *)
(*                                                                         *)
(* Time is counted in ticks from the present: `ttl` counts down to the     *)
(* key's expiry, and `passed` and `counted` say how long ago the latest    *)
(* requests were let through, or only counted; ages of a window and more   *)
(* are all alike.  So are counts above Limit: the counter stops at         *)
(* Limit + 1.                                                              *)
(***************************************************************************)
EXTENDS Integers

CONSTANTS Limit, Window

ASSUME PolicyAssumption == Limit \in Nat \ {0} /\ Window \in Nat \ {0}

VARIABLES counter,  \* the key: its value and time to live; 0 and 0 without it
          passed,   \* passed[i]: age of the i-th last INCR of a request let through
          counted   \* counted[i]: age of the i-th last INCR up to Limit, heard or not

vars == <<counter, passed, counted>>

\* One more request than two windows' limits, and as many as one limit.
Latest == 1..(2 * Limit + 1)
Counts == 1..Limit

TypeOK == /\ counter \in [count : 0..(Limit + 1), ttl : 0..Window]
          /\ counter.count = 0 <=> counter.ttl = 0
          /\ passed \in [Latest -> 0..Window]
          /\ counted \in [Counts -> 0..Window]

NoKey == [count |-> 0, ttl |-> 0]

Init == /\ counter = NoKey
        /\ passed = [i \in Latest |-> Window]
        /\ counted = [i \in Counts |-> Window]

\* The ages with that of one more INCR, which runs now.
OneMore(ages) == [i \in DOMAIN ages |-> IF i = 1 THEN 0 ELSE ages[i - 1]]

Older(ages) == [i \in DOMAIN ages |-> IF ages[i] < Window THEN ages[i] + 1 ELSE Window]

----------------------------------------------------------------------------
Incremented == IF counter.count > Limit THEN counter.count ELSE counter.count + 1

\* Mutants of Expiry: every call renews it; the process stops between an INCR
\* and an EXPIRE of its own.
ExpiryRenewed == Window

ExpiryMissing == counter.ttl

\* EXPIRE, only for a counter that INCR has just made.
Expiry == IF Incremented = 1 THEN Window ELSE counter.ttl

\* Mutants of Allowed: off by one, either way.
AllowedOneMore == Incremented <= Limit + 1

AllowedOneLess == Incremented < Limit

Allowed == Incremented <= Limit

Count == /\ counter' = [count |-> Incremented, ttl |-> Expiry]
         /\ counted' = IF Allowed THEN OneMore(counted) ELSE counted

\* The script runs and its answer arrives.
Check == /\ Count
         /\ passed' = IF Allowed THEN OneMore(passed) ELSE passed

\* The script runs and its answer is lost: one more Check, Unheard or, when the
\* client gives up, nothing follows.
Unheard == Count /\ UNCHANGED passed

Tick == /\ counter' = IF counter.ttl > 1 THEN [counter EXCEPT !.ttl = counter.ttl - 1]
                      ELSE IF counter.ttl = 1 THEN NoKey
                      ELSE counter
        /\ passed' = Older(passed)
        /\ counted' = Older(counted)

Next == Check \/ Unheard \/ Tick

Spec == Init /\ [][Next]_vars

\* Time passes, whatever the callers do.
FairSpec == Spec /\ WF_vars(Tick)

----------------------------------------------------------------------------
\* "Up to ~2x `limit` requests through across a window boundary": and never
\* more, in any interval as long as the window.  Of 2 * Limit + 1 requests let
\* through in a row, the first was counted a whole window before the last.
AtMostTwice == passed[2 * Limit + 1] = Window

\* Whenever a request would be turned away, be it the first or one of many, the
\* script has counted to the limit within the window: a counter never outlives
\* it.  What it counted need not have been let through: an answer that is lost
\* uses up the limit like one that is heard.
LimitedForCause == ~ Allowed => counted[Limit] < Window

\* "A permanent lockout, which this single script can't do": a caller who is
\* turned away will be let through again, even one who never stops asking.
LockoutEnds == (counter.count > Limit) ~> (counter.count = 0)
=============================================================================
