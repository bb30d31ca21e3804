------------------------ MODULE InternalSigningProofs ------------------------
(***************************************************************************)
(* Proofs about InternalSigning: when a process may accept a request again.*)
(***************************************************************************)
EXTENDS InternalSigning, TLAPS

\* A time lies in its second.
LEMMA SecondsBound ==
    ASSUME NEW n \in Nat
    PROVE  /\ Seconds(n) \in Nat
           /\ Ticks(Seconds(n)) <= n
           /\ n < Ticks(Seconds(n) + 1)
BY SecondsHaveTicks DEF Seconds, Ticks

LEMMA TicksNat ==
    ASSUME NEW n \in Nat
    PROVE  /\ Ticks(n) \in Nat
           /\ n > 0 => Ticks(n) > 0
BY SecondsHaveTicks DEF Ticks

LEMMA TicksSum ==
    ASSUME NEW m \in Nat, NEW n \in Nat
    PROVE  Ticks(m + n) = Ticks(m) + Ticks(n)
BY SecondsHaveTicks DEF Ticks

LEMMA TicksGrow ==
    ASSUME NEW m \in Nat, NEW n \in Nat, m <= n
    PROVE  Ticks(m) <= Ticks(n)
<1>1. n - m \in Nat /\ m + (n - m) = n
  OBVIOUS
<1>2. Ticks(n) = Ticks(m) + Ticks(n - m)
  BY <1>1, TicksSum
<1> QED
  BY <1>1, <1>2, TicksNat

\* What was accepted was accepted in this life or an earlier one, not after
\* now, and with its timestamp in the window.
AcceptedBefore ==
    \A a \in accepted :
        /\ a.life <= life[a.process]
        /\ a.at <= now
        /\ Seconds(a.checked) - Stamp[a.msg] <= Skew

\* A call that is under way found its timestamp in the window.
CallsInTime ==
    \A p \in Process : \A c \in calls[p] : Seconds(c.checked) - Stamp[c.msg] <= Skew

\* Since then the process has kept the nonce, or Skew seconds have passed.
NonceKept ==
    \A a \in accepted :
        a.life = life[a.process] =>
            \/ now >= a.at + Ticks(Skew)
            \/ \E e \in nonceCache[a.process] :
                   e.msg = a.msg /\ e.expiresAt >= a.at + Ticks(Skew)

IInv == TypeOK /\ AcceptedBefore /\ CallsInTime /\ NonceKept /\ SkewApart /\ NonceMeansAccepted

\* Clock, caches and acceptances keep their types.
THEOREM TypeCorrect == Spec => []TypeOK
<1>1. Init => TypeOK
  BY DEF Init, TypeOK
<1>2. TypeOK /\ [Next]_vars => TypeOK'
  <2> SUFFICES ASSUME TypeOK, [Next]_vars
               PROVE  TypeOK'
    OBVIOUS
  <2> USE DEF TypeOK
  <2>1. ASSUME NEW p \in Process
        PROVE  /\ \A m \in Message : NonceEntry(m) \in Entry
               /\ Swept(p) \subseteq Entry
    <3>1. Ticks(Skew) \in Nat /\ now \in Nat
      BY ClockAssumption, TicksNat
    <3> QED
      BY <3>1 DEF NonceEntry, Swept, Entry
  <2>2. ASSUME NEW p \in Process, NEW c \in calls[p], Accept(p, c)
        PROVE  TypeOK'
    <3> DEFINE a == [msg |-> c.msg, checked |-> c.checked,
                     process |-> p, life |-> life[p], at |-> now]
               cache == Swept(p) \cup {NonceEntry(c.msg)}
    <3>1. c.msg \in Message /\ a \in Acceptance
      BY DEF Acceptance, Call
    <3>2. cache \in SUBSET Entry
      BY <2>1, <3>1
    <3>3. /\ now' = now /\ life' = life
          /\ calls' = [calls EXCEPT ![p] = {}]
          /\ nonceCache' = [nonceCache EXCEPT ![p] = cache]
          /\ accepted' = accepted \cup {a}
      BY <2>2 DEF Accept
    <3> HIDE DEF a, cache
    <3> QED
      BY <3>1, <3>2, <3>3
  <2>3. ASSUME NEW p \in Process, NEW c \in calls[p], TurnDown(p, c)
        PROVE  TypeOK'
    <3> DEFINE cache == Swept(p)
    <3>1. cache \in SUBSET Entry
      BY <2>1
    <3>2. /\ UNCHANGED <<now, life, accepted>>
          /\ calls' = [calls EXCEPT ![p] = {}]
          /\ nonceCache' = [nonceCache EXCEPT ![p] = cache]
      BY <2>3 DEF TurnDown, CacheAfterMismatch
    <3> HIDE DEF cache
    <3> QED
      BY <3>1, <3>2
  <2>4. ASSUME NEW p \in Process, Restart(p)
        PROVE  TypeOK'
    BY <2>4 DEF Restart
  <2>5. CASE Tick
    BY <2>5 DEF Tick
  <2>6. CASE UNCHANGED vars
    BY <2>6 DEF vars
  <2>7. ASSUME NEW p \in Process, NEW m \in Message, Arrive(p, m)
        PROVE  TypeOK'
    <3>1. [msg |-> m, checked |-> now] \in Call
      BY DEF Call
    <3> QED
      BY <2>7, <3>1 DEF Arrive
  <2> QED
    BY <2>2, <2>3, <2>4, <2>5, <2>6, <2>7 DEF Next
<1> QED
  BY <1>1, <1>2, PTL DEF Spec

\* The sweep drops an entry only when its time is over.
LEMMA SweepKeeps ==
    ASSUME IInv, NEW a \in accepted, a.life = life[a.process]
    PROVE  \/ now >= a.at + Ticks(Skew)
           \/ \E e \in Swept(a.process) :
                  e.msg = a.msg /\ e.expiresAt >= a.at + Ticks(Skew)
<1>1. CASE now >= a.at + Ticks(Skew)
  BY <1>1
<1>2. ASSUME NEW e \in nonceCache[a.process],
             e.msg = a.msg, e.expiresAt >= a.at + Ticks(Skew)
      PROVE  \/ now >= a.at + Ticks(Skew)
             \/ e \in Swept(a.process)
  <2>1. /\ now \in Nat /\ a.at \in Nat /\ a.process \in Process
        /\ Ticks(Skew) \in Nat
    BY ClockAssumption, TicksNat DEF IInv, TypeOK, Acceptance
  <2>2. e.expiresAt \in Nat
    BY <2>1 DEF IInv, TypeOK, Entry
  <2> QED
    BY <1>2, <2>1, <2>2 DEF Swept
<1> QED
  BY <1>1, <1>2 DEF IInv, NonceKept

\* A process that knows no nonce of a request has not accepted it within the
\* last Skew seconds.
LEMMA AcceptedLongAgo ==
    ASSUME IInv, NEW p \in Process, NEW m \in Message, ~ Known(p, m),
           NEW a \in accepted, a.process = p, a.msg = m, a.life = life[p]
    PROVE  now >= a.at + Ticks(Skew)
BY SweepKeeps DEF Known

LEMMA Inductive == IInv /\ TypeOK' /\ [Next]_vars => IInv'
<1> SUFFICES ASSUME IInv, TypeOK', [Next]_vars
             PROVE  /\ AcceptedBefore' /\ CallsInTime' /\ NonceKept'
                    /\ SkewApart' /\ NonceMeansAccepted'
  BY DEF IInv
<1>0. /\ now \in Nat
      /\ calls \in [Process -> SUBSET Call]
      /\ Ticks(Skew) \in Nat
      /\ \A a \in accepted : /\ a.at \in Nat /\ a.life \in Nat
                             /\ a.process \in Process /\ a.msg \in Message
      /\ \A p \in Process : life[p] \in Nat
  BY ClockAssumption, TicksNat DEF IInv, TypeOK, Acceptance
<1>1. ASSUME NEW p \in Process, NEW c \in calls[p], Accept(p, c)
      PROVE  /\ AcceptedBefore' /\ CallsInTime' /\ NonceKept'
             /\ SkewApart' /\ NonceMeansAccepted'
  <2> DEFINE m == c.msg
             b == [msg |-> m, checked |-> c.checked, process |-> p,
                   life |-> life[p], at |-> now]
  <2>1. /\ now' = now /\ life' = life
        /\ m \in Message
        /\ \A q \in Process : calls'[q] \subseteq calls[q]
        /\ accepted' = accepted \cup {b}
        /\ nonceCache'[p] = Swept(p) \cup {NonceEntry(m)}
        /\ \A q \in Process \ {p} : nonceCache'[q] = nonceCache[q]
        /\ ~ Known(p, m)
    BY <1>0, <1>1 DEF Accept, IInv, TypeOK, Call
  <2>2. /\ b.msg = m /\ b.process = p /\ b.life = life[p] /\ b.at = now
        /\ Seconds(b.checked) - Stamp[b.msg] <= Skew
    BY DEF IInv, CallsInTime
  <2> HIDE DEF b, m
  <2>3. AcceptedBefore' /\ CallsInTime'
    BY <1>0, <2>1, <2>2 DEF IInv, AcceptedBefore, CallsInTime
  <2>4. NonceKept'
    <3>1. NonceEntry(m).msg = m /\ NonceEntry(m).expiresAt = now + Ticks(Skew)
      BY DEF NonceEntry
    <3>2. ASSUME NEW a \in accepted, a.life = life[a.process]
          PROVE  \/ now >= a.at + Ticks(Skew)
                 \/ \E e \in nonceCache'[a.process] :
                        e.msg = a.msg /\ e.expiresAt >= a.at + Ticks(Skew)
      <4>1. CASE a.process = p
        BY <2>1, <3>2, <4>1, SweepKeeps
      <4>2. CASE a.process # p
        BY <1>0, <2>1, <3>2, <4>2 DEF IInv, NonceKept
      <4> QED
        BY <4>1, <4>2
    <3> QED
      BY <1>0, <2>1, <2>2, <3>1, <3>2 DEF NonceKept
  <2>5. SkewApart'
    <3>1. ASSUME NEW a \in accepted,
                 a.msg = m, a.process = p, a.life = life[p]
          PROVE  now >= a.at + Ticks(Skew)
      BY <2>1, <3>1, AcceptedLongAgo
    <3> QED
      BY <2>1, <2>2, <3>1 DEF IInv, SkewApart, Twice
  <2>6. NonceMeansAccepted'
    <3>1. NonceEntry(m).msg = m
      BY DEF NonceEntry
    <3> QED
      BY <2>1, <2>2, <3>1 DEF IInv, NonceMeansAccepted, Swept
  <2> QED
    BY <2>3, <2>4, <2>5, <2>6
<1>2. ASSUME NEW p \in Process, NEW c \in calls[p], TurnDown(p, c)
      PROVE  /\ AcceptedBefore' /\ CallsInTime' /\ NonceKept'
             /\ SkewApart' /\ NonceMeansAccepted'
  <2>1. /\ now' = now /\ life' = life /\ accepted' = accepted
        /\ nonceCache'[p] = Swept(p)
        /\ \A q \in Process \ {p} : nonceCache'[q] = nonceCache[q]
        /\ \A q \in Process : calls'[q] \subseteq calls[q]
    BY <1>2 DEF TurnDown, CacheAfterMismatch, IInv, TypeOK
  <2>2. NonceKept'
    <3> SUFFICES ASSUME NEW a \in accepted, a.life = life[a.process]
                 PROVE  \/ now >= a.at + Ticks(Skew)
                        \/ \E e \in nonceCache'[a.process] :
                              e.msg = a.msg /\ e.expiresAt >= a.at + Ticks(Skew)
      BY <2>1 DEF NonceKept
    <3>1. CASE a.process = p
      BY <2>1, <3>1, SweepKeeps
    <3>2. CASE a.process # p
      BY <1>0, <2>1, <3>2 DEF IInv, NonceKept
    <3> QED
      BY <3>1, <3>2
  <2>3. NonceMeansAccepted'
    BY <2>1 DEF IInv, NonceMeansAccepted, Swept
  <2> QED
    BY <2>1, <2>2, <2>3 DEF IInv, AcceptedBefore, CallsInTime, SkewApart, Twice
<1>3. ASSUME NEW p \in Process, Restart(p)
      PROVE  /\ AcceptedBefore' /\ CallsInTime' /\ NonceKept'
             /\ SkewApart' /\ NonceMeansAccepted'
  <2>1. /\ now' = now /\ accepted' = accepted
        /\ nonceCache'[p] = {} /\ life'[p] = life[p] + 1
        /\ \A q \in Process \ {p} : /\ nonceCache'[q] = nonceCache[q]
                                    /\ life'[q] = life[q]
        /\ \A q \in Process : calls'[q] \subseteq calls[q]
    BY <1>3 DEF Restart, IInv, TypeOK
  <2>2. AcceptedBefore' /\ CallsInTime'
    BY <1>0, <2>1 DEF IInv, AcceptedBefore, CallsInTime
  <2>3. \A a \in accepted : a.process = p => a.life # life'[p]
    BY <1>0, <2>1 DEF IInv, AcceptedBefore
  <2>4. NonceKept'
    BY <1>0, <2>1, <2>3 DEF IInv, NonceKept
  <2>5. NonceMeansAccepted'
    BY <2>1 DEF IInv, NonceMeansAccepted
  <2> QED
    BY <2>1, <2>2, <2>4, <2>5 DEF IInv, SkewApart, Twice
<1>4. CASE Tick
  <2>1. /\ now' = now + 1
        /\ UNCHANGED <<calls, nonceCache, life, accepted>>
    BY <1>4 DEF Tick
  <2>2. AcceptedBefore' /\ CallsInTime' /\ NonceKept'
    BY <1>0, <2>1 DEF IInv, AcceptedBefore, CallsInTime, NonceKept
  <2> QED
    BY <2>1, <2>2 DEF IInv, SkewApart, Twice, NonceMeansAccepted
<1>5. CASE UNCHANGED vars
  BY <1>5 DEF vars, IInv, AcceptedBefore, CallsInTime, NonceKept, SkewApart, Twice,
              NonceMeansAccepted
<1>6. ASSUME NEW p \in Process, NEW m \in Message, Arrive(p, m)
      PROVE  /\ AcceptedBefore' /\ CallsInTime' /\ NonceKept'
             /\ SkewApart' /\ NonceMeansAccepted'
  <2>1. /\ UNCHANGED <<now, nonceCache, life, accepted>>
        /\ calls'[p] = {[msg |-> m, checked |-> now]}
        /\ \A q \in Process \ {p} : calls'[q] = calls[q]
        /\ Seconds(now) - Stamp[m] <= Skew
    BY <1>0, <1>6 DEF Arrive, InWindow
  <2> QED
    BY <2>1 DEF IInv, AcceptedBefore, CallsInTime, NonceKept, SkewApart, Twice,
                NonceMeansAccepted
<1> QED
  BY <1>1, <1>2, <1>3, <1>4, <1>5, <1>6 DEF Next

LEMMA Invariance == Spec => []IInv
<1>1. Init => IInv
  BY DEF Init, IInv, TypeOK, AcceptedBefore, CallsInTime, NonceKept, SkewApart, Twice,
         NonceMeansAccepted
<1> QED
  BY <1>1, Inductive, TypeCorrect, PTL DEF Spec

\* Between restarts a process accepts a request again only Skew seconds later.
THEOREM Apart == Spec => []SkewApart
<1>1. IInv => SkewApart
  BY DEF IInv
<1> QED
  BY <1>1, Invariance, PTL

\* Only the nonces of accepted requests are in a cache.
THEOREM NoncesAreUsed == Spec => []NonceMeansAccepted
<1>1. IInv => NonceMeansAccepted
  BY DEF IInv
<1> QED
  BY <1>1, Invariance, PTL

\* A request whose timestamp is in the past by the clock of the process that
\* accepts it is accepted again, between restarts, only by a call during which its
\* window closes.
THEOREM OldAtEdge == Spec => []OldRequestAtEdge
<1>1. IInv => OldRequestAtEdge
  <2> SUFFICES ASSUME IInv, NEW a \in accepted, NEW b \in accepted,
                      Twice(a, b), a.at <= b.at, Stamp[a.msg] < Seconds(a.at)
               PROVE  b.checked < Closed(b.msg) /\ Closed(b.msg) <= b.at
    BY DEF OldRequestAtEdge
  <2> DEFINE s == Seconds(a.at)
             t == Seconds(b.checked)
             end == Stamp[a.msg] + Skew + 1
  <2>1. /\ a.at \in Nat /\ b.at \in Nat /\ b.checked \in Nat
        /\ Stamp[a.msg] \in Nat
        /\ b.msg = a.msg
        /\ Skew \in Nat /\ Skew > 0
        /\ Ticks(Skew) \in Nat /\ Ticks(Skew) > 0
    BY ClockAssumption, TicksNat DEF IInv, TypeOK, Acceptance, Twice
  <2>2. b.at >= a.at + Ticks(Skew)
    BY <2>1 DEF IInv, SkewApart
  <2>3. /\ s \in Nat /\ Ticks(s) <= a.at
        /\ t \in Nat /\ b.checked < Ticks(t + 1)
    BY <2>1, SecondsBound
  <2>4. t - Stamp[b.msg] <= Skew
    BY DEF IInv, AcceptedBefore
  <2>5. t + 1 <= end /\ end <= s + Skew /\ end \in Nat
    BY <2>1, <2>3, <2>4
  <2>6. Closed(b.msg) = Ticks(end)
    BY <2>1 DEF Closed
  <2> HIDE DEF s, t, end
  <2>7. /\ Ticks(t + 1) <= Ticks(end)
        /\ Ticks(end) <= Ticks(s + Skew)
        /\ Ticks(s + Skew) = Ticks(s) + Ticks(Skew)
        /\ Ticks(s) \in Nat /\ Ticks(t + 1) \in Nat /\ Ticks(end) \in Nat
    <3>1. t + 1 \in Nat /\ s + Skew \in Nat
      BY <2>1, <2>3
    <3> QED
      BY <2>1, <2>3, <2>5, <3>1, TicksGrow, TicksSum, TicksNat
  <2> QED
    BY <2>1, <2>2, <2>3, <2>6, <2>7
<1> QED
  BY <1>1, Invariance, PTL
=============================================================================
