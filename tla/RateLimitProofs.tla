---------------------------- MODULE RateLimitProofs ----------------------------
(***************************************************************************)
(* Proofs about RateLimit, for every limit and window.                     *)
(***************************************************************************)
EXTENDS RateLimit, TLAPS

\* How many INCRs of the present counter came out at Limit or below.
Within == IF counter.count > Limit THEN Limit ELSE counter.count

\* They ran after the counter was made, ...
CountedSince == \A i \in Counts : i <= Within => counted[i] <= Window - counter.ttl

\* ... and of the requests let through, all but as many came before.
OthersBefore ==
    \A i \in Latest : i > Within /\ counter.count > 0 => passed[i] >= Window - counter.ttl

\* The counter before it let Limit through at most, and every counter before
\* that was gone when that one was made, or is a window old by now.
EarlierAreOld == \A i \in Latest : i > Within + Limit => passed[i] = Window

IInv == TypeOK /\ CountedSince /\ OthersBefore /\ EarlierAreOld

----------------------------------------------------------------------------
\* The fields of the counter are numbers in range.
LEMMA CounterFields ==
    ASSUME TypeOK
    PROVE  /\ Limit \in Nat /\ Limit > 0
           /\ Window \in Nat /\ Window > 0
           /\ counter = [count |-> counter.count, ttl |-> counter.ttl]
           /\ counter.count \in 0..(Limit + 1)
           /\ counter.ttl \in 0..Window
           /\ Within \in 0..Limit
           /\ \A i \in Latest : i \in Nat /\ i >= 1 /\ passed[i] \in 0..Window
           /\ \A i \in Counts : i \in Nat /\ i >= 1 /\ counted[i] \in 0..Window
  BY PolicyAssumption DEF TypeOK, Within, Latest, Counts

\* What one more INCR does to N ages.
LEMMA AgesShift ==
    ASSUME NEW N \in Nat, NEW ages \in [1..N -> 0..Window]
    PROVE  /\ OneMore(ages) \in [1..N -> 0..Window]
           /\ \A i \in 1..N : i = 1 => OneMore(ages)[i] = 0
           /\ \A i \in 1..N : i > 1 => /\ i - 1 \in 1..N
                                      /\ OneMore(ages)[i] = ages[i - 1]
  BY PolicyAssumption DEF OneMore

\* What a tick does to them.
LEMMA AgesGrow ==
    ASSUME NEW N \in Nat, NEW ages \in [1..N -> 0..Window]
    PROVE  /\ Older(ages) \in [1..N -> 0..Window]
           /\ \A i \in 1..N : \/ ages[i] < Window /\ Older(ages)[i] = ages[i] + 1
                              \/ ages[i] = Window /\ Older(ages)[i] = Window
  BY PolicyAssumption DEF Older

\* What a run of the script does to the two histories.
LEMMA Shifts ==
    ASSUME TypeOK, Count, Allowed, passed' \in {OneMore(passed), passed}
    PROVE  /\ passed' \in [Latest -> 0..Window]
           /\ counted' \in [Counts -> 0..Window]
           /\ \A i \in Counts : i = 1 => counted'[i] = 0
           /\ \A i \in Counts : i > 1 => i - 1 \in Counts /\ counted'[i] = counted[i - 1]
           /\ \/ passed' = passed
              \/ \A i \in Latest : i > 1 => i - 1 \in Latest /\ passed'[i] = passed[i - 1]
<1>1. 2 * Limit + 1 \in Nat /\ Limit \in Nat
  BY PolicyAssumption
<1>2. /\ OneMore(passed) \in [Latest -> 0..Window]
      /\ \A i \in Latest : i > 1 => i - 1 \in Latest /\ OneMore(passed)[i] = passed[i - 1]
  BY <1>1, AgesShift DEF TypeOK, Latest
<1>3. /\ OneMore(counted) \in [Counts -> 0..Window]
      /\ \A i \in Counts : i = 1 => OneMore(counted)[i] = 0
      /\ \A i \in Counts : i > 1 => i - 1 \in Counts /\ OneMore(counted)[i] = counted[i - 1]
  BY <1>1, AgesShift DEF TypeOK, Counts
<1> QED
  BY <1>2, <1>3 DEF Count, TypeOK

\* One more request may be let through, or not, of those that have been counted.
LEMMA CountStep == IInv /\ Count /\ passed' \in {OneMore(passed), passed}
                     /\ (~ Allowed => passed' = passed) => IInv'
<1> SUFFICES ASSUME IInv, Count, passed' \in {OneMore(passed), passed},
                    ~ Allowed => passed' = passed
             PROVE  IInv'
  OBVIOUS
<1> USE DEF IInv
<1>1. counter' = [count |-> Incremented, ttl |-> Expiry]
  BY DEF Count
<1>2. CASE counter.count = 0
  <2>1. /\ Incremented = 1 /\ Expiry = Window /\ Allowed
        /\ counter'.count = 1 /\ counter'.ttl = Window /\ Within = 0 /\ Within' = 1
    BY <1>1, <1>2, CounterFields DEF Incremented, Expiry, Allowed, Within
  <2>2. TypeOK'
    BY <1>1, <2>1, Shifts, CounterFields DEF TypeOK
  <2>3. CountedSince'
    BY <2>1, Shifts, CounterFields DEF CountedSince
  <2>4. OthersBefore'
    BY <2>1, Shifts, CounterFields DEF OthersBefore
  <2>5. EarlierAreOld'
    BY <2>1, Shifts, CounterFields DEF EarlierAreOld
  <2> QED
    BY <2>2, <2>3, <2>4, <2>5
<1>3. CASE counter.count > 0 /\ counter.count < Limit
  <2>1. /\ Incremented = counter.count + 1 /\ Expiry = counter.ttl /\ Allowed
        /\ counter'.count = counter.count + 1 /\ counter'.ttl = counter.ttl
        /\ Within' = Within + 1 /\ counter.ttl > 0
    BY <1>1, <1>3, CounterFields DEF Incremented, Expiry, Allowed, Within, TypeOK
  <2>2. TypeOK'
    BY <1>1, <1>3, <2>1, Shifts, CounterFields DEF TypeOK
  <2>3. CountedSince'
    BY <2>1, Shifts, CounterFields DEF CountedSince
  <2>4. OthersBefore'
    BY <1>3, <2>1, Shifts, CounterFields DEF OthersBefore
  <2>5. EarlierAreOld'
    BY <2>1, Shifts, CounterFields DEF EarlierAreOld
  <2> QED
    BY <2>2, <2>3, <2>4, <2>5
<1>4. CASE counter.count >= Limit
  <2>1. /\ Incremented = Limit + 1 /\ Expiry = counter.ttl /\ ~ Allowed
        /\ counter'.count = Limit + 1 /\ counter'.ttl = counter.ttl
        /\ Within' = Limit /\ Within = Limit /\ counter.ttl > 0
        /\ passed' = passed /\ counted' = counted
    BY <1>1, <1>4, CounterFields
    DEF Incremented, Expiry, Allowed, Within, Count, TypeOK
  <2>2. TypeOK'
    BY <1>1, <2>1, CounterFields DEF TypeOK
  <2> QED
    BY <1>4, <2>1, <2>2, CounterFields DEF CountedSince, OthersBefore, EarlierAreOld
<1> QED
  BY <1>2, <1>3, <1>4, CounterFields

\* A tick makes everything one older and the counter's life one shorter.
LEMMA TickStep == IInv /\ Tick => IInv'
<1> SUFFICES ASSUME IInv, Tick
             PROVE  IInv'
  OBVIOUS
<1> USE DEF IInv
<1>1. /\ passed' \in [Latest -> 0..Window]
      /\ counted' \in [Counts -> 0..Window]
      /\ \A i \in Latest : \/ passed[i] < Window /\ passed'[i] = passed[i] + 1
                           \/ passed[i] = Window /\ passed'[i] = Window
      /\ \A i \in Counts : \/ counted[i] < Window /\ counted'[i] = counted[i] + 1
                           \/ counted[i] = Window /\ counted'[i] = Window
  <2>1. 2 * Limit + 1 \in Nat /\ Limit \in Nat
    BY PolicyAssumption
  <2>2. /\ passed' = Older(passed) /\ passed \in [1..(2 * Limit + 1) -> 0..Window]
        /\ counted' = Older(counted) /\ counted \in [1..Limit -> 0..Window]
    BY DEF Tick, TypeOK, Latest, Counts
  <2>3. /\ passed' \in [Latest -> 0..Window]
        /\ \A i \in Latest : \/ passed[i] < Window /\ passed'[i] = passed[i] + 1
                             \/ passed[i] = Window /\ passed'[i] = Window
    BY <2>1, <2>2, AgesGrow DEF Latest
  <2>4. /\ counted' \in [Counts -> 0..Window]
        /\ \A i \in Counts : \/ counted[i] < Window /\ counted'[i] = counted[i] + 1
                             \/ counted[i] = Window /\ counted'[i] = Window
    BY <2>1, <2>2, AgesGrow DEF Counts
  <2> QED
    BY <2>3, <2>4
<1>2. CASE counter.ttl > 1
  <2>1. /\ counter \in [count : 0..(Limit + 1), ttl : 0..Window]
        /\ counter' = [counter EXCEPT !.ttl = counter.ttl - 1]
    BY <1>2 DEF Tick, TypeOK
  <2>2. /\ counter' = [count |-> counter.count, ttl |-> counter.ttl - 1]
        /\ counter'.count = counter.count /\ counter'.ttl = counter.ttl - 1
        /\ Within' = Within /\ counter.count > 0
    <3>1. counter' = [count |-> counter.count, ttl |-> counter.ttl - 1]
      BY <2>1
    <3> QED
      BY <1>2, <3>1, CounterFields DEF TypeOK, Within
  <2>3. TypeOK'
    BY <1>1, <1>2, <2>2, CounterFields DEF TypeOK
  <2>4. CountedSince'
    BY <1>1, <2>2, CounterFields DEF CountedSince
  <2>5. OthersBefore'
    BY <1>1, <1>2, <2>2, CounterFields DEF OthersBefore
  <2>6. EarlierAreOld'
    BY <1>1, <2>2, CounterFields DEF EarlierAreOld
  <2> QED
    BY <2>3, <2>4, <2>5, <2>6
<1>3. CASE counter.ttl = 1
  <2>1. /\ counter' = NoKey /\ counter'.count = 0 /\ counter'.ttl = 0
        /\ Within' = 0 /\ counter.count > 0
    BY <1>3, CounterFields DEF Tick, NoKey, TypeOK, Within
  <2>2. TypeOK'
    BY <1>1, <2>1, CounterFields DEF TypeOK, NoKey
  <2>3. \A i \in Latest : i > Limit => passed'[i] = Window
    BY <1>1, <1>3, <2>1, CounterFields DEF OthersBefore
  <2> QED
    BY <2>1, <2>2, <2>3, CounterFields DEF CountedSince, OthersBefore, EarlierAreOld
<1>4. CASE counter.ttl = 0
  <2>1. counter' = counter /\ counter.count = 0 /\ Within = 0 /\ Within' = 0
    BY <1>4, CounterFields DEF Tick, TypeOK, Within
  <2>2. TypeOK'
    BY <1>1, <2>1 DEF TypeOK
  <2> QED
    BY <1>1, <2>1, <2>2, CounterFields DEF CountedSince, OthersBefore, EarlierAreOld
<1> QED
  BY <1>2, <1>3, <1>4, CounterFields

LEMMA CheckStep == IInv /\ (Check \/ Unheard) => IInv'
  BY CountStep DEF Check, Unheard

LEMMA Invariance == Spec => []IInv
<1>1. Init => IInv
  <2> SUFFICES ASSUME Init
               PROVE  IInv
    OBVIOUS
  <2>1. counter.count = 0 /\ counter.ttl = 0 /\ Within = 0
    BY PolicyAssumption DEF Init, NoKey, Within
  <2>2. /\ \A i \in Latest : i \in Nat /\ i >= 1 /\ passed[i] = Window
        /\ \A i \in Counts : i \in Nat /\ i >= 1
    BY PolicyAssumption DEF Init, Latest, Counts
  <2>3. TypeOK
    BY <2>1, PolicyAssumption DEF Init, NoKey, TypeOK
  <2> QED
    BY <2>1, <2>2, <2>3, PolicyAssumption
    DEF IInv, CountedSince, OthersBefore, EarlierAreOld
<1>2. IInv /\ UNCHANGED vars => IInv'
  BY DEF IInv, TypeOK, CountedSince, OthersBefore, EarlierAreOld, Within, vars
<1>3. IInv /\ [Next]_vars => IInv'
  BY <1>2, CheckStep, TickStep DEF Next
<1> QED
  BY <1>1, <1>3, PTL DEF Spec

----------------------------------------------------------------------------
\* The counter and the histories keep their types; a counter without a time to live,
\* the lockout the script is written against, does not exist.
THEOREM TypeCorrect == Spec => []TypeOK
<1>1. IInv => TypeOK
  BY DEF IInv
<1> QED
  BY <1>1, Invariance, PTL

\* No interval as long as the window has more than twice the limit, for every
\* limit and window.
THEOREM TwiceAtMost == Spec => []AtMostTwice
<1>1. IInv => AtMostTwice
  <2> SUFFICES ASSUME IInv
               PROVE  AtMostTwice
    OBVIOUS
  <2>1. 2 * Limit + 1 \in Latest /\ 2 * Limit + 1 > Within + Limit
    BY CounterFields DEF IInv, Latest
  <2> QED
    BY <2>1 DEF IInv, EarlierAreOld, AtMostTwice
<1> QED
  BY <1>1, Invariance, PTL

\* A caller who is turned away had Limit requests counted within the window.
THEOREM LimitsHaveCause == Spec => []LimitedForCause
<1>1. IInv => LimitedForCause
  <2> SUFFICES ASSUME IInv, ~ Allowed
               PROVE  counted[Limit] < Window
    BY DEF LimitedForCause
  <2>1. counter.count >= Limit /\ counter.ttl > 0 /\ Within = Limit
    BY CounterFields DEF IInv, Allowed, Incremented, TypeOK, Within
  <2>2. Limit \in Counts
    BY PolicyAssumption DEF Counts
  <2> QED
    BY <2>1, <2>2, CounterFields DEF IInv, CountedSince
<1> QED
  BY <1>1, Invariance, PTL

\* A key that is there came closer to its expiry.
Closer == counter'.ttl < counter.ttl

\* The safety part of LockoutEnds: no request puts off the expiry of a counter
\* that is there, and every tick brings it closer or drops the counter.
THEOREM LockoutsRunDown ==
    Spec => [][counter.count > 0 => /\ Count => counter'.ttl = counter.ttl
                                    /\ Tick => Closer]_vars
<1>1. TypeOK /\ counter.count > 0 /\ Count => counter'.ttl = counter.ttl
  <2>1. TypeOK /\ counter.count > 0 => Incremented # 1
    BY CounterFields DEF Incremented
  <2> QED
    BY <2>1 DEF Count, Expiry
<1>2. TypeOK /\ counter.count > 0 /\ Tick => Closer
  <2> SUFFICES ASSUME TypeOK, counter.count > 0, Tick
               PROVE  Closer
    OBVIOUS
  <2>1. counter.ttl \in Nat /\ counter.ttl > 0
    BY CounterFields DEF TypeOK
  <2>2. CASE counter.ttl > 1
    BY <2>1, <2>2, CounterFields DEF Tick, Closer
  <2>3. CASE counter.ttl = 1
    BY <2>1, <2>3 DEF Tick, Closer, NoKey
  <2> QED
    BY <2>1, <2>2, <2>3
<1> QED
  BY <1>1, <1>2, TypeCorrect, PTL DEF Spec
=============================================================================
