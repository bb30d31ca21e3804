--------------------------- MODULE LinkTicketProofs ---------------------------
(***************************************************************************)
(* Proofs about LinkTicket: a claimed nonce key outlives its ticket.       *)
(***************************************************************************)
EXTENDS LinkTicket, TLAPS

\* A time lies in its second.
LEMMA SecondsBound ==
    ASSUME NEW n \in Nat
    PROVE  /\ Seconds(n) \in Nat
           /\ Ticks(Seconds(n)) <= n
           /\ n < Ticks(Seconds(n) + 1)
BY SecondsHaveTicks DEF Seconds, Ticks

LEMMA TicksNat ==
    ASSUME NEW n \in Nat
    PROVE  /\ Ticks(n) \in Nat
           /\ n > 0 => Ticks(n) > 0
BY SecondsHaveTicks DEF Ticks

LEMMA TicksSum ==
    ASSUME NEW m \in Nat, NEW n \in Nat
    PROVE  Ticks(m + n) = Ticks(m) + Ticks(n)
BY SecondsHaveTicks DEF Ticks

\* A SET under way will make a key that outlives its ticket ...
ClaimsSuffice ==
    \A r \in Request :
        requests[r].pc = "claim" =>
            now + Ticks(requests[r].ttl) >= Ticks(Exp[requests[r].ticket])

\* ... as the key of an accepted ticket does, even one set again later.
KeysOutlive ==
    \A r \in Request :
        requests[r].pc = "ok" =>
            /\ requests[r].at <= now
            /\ keys[requests[r].ticket] >= Ticks(Exp[requests[r].ticket])

IInv == TypeOK /\ ClaimsSuffice /\ KeysOutlive /\ OncePerLifetime

\* What is left of a ticket that has not passed its exp, in ticks.
LEMMA TtlSuffices ==
    ASSUME TypeOK, NEW t \in Ticket, ~ (Exp[t] <= Seconds(now))
    PROVE  /\ RemainingTtl(t) \in Nat \ {0}
           /\ now + Ticks(RemainingTtl(t)) >= Ticks(Exp[t])
           /\ now < Ticks(Exp[t])
<1> DEFINE s == Seconds(now)
<1>1. /\ now \in Nat
      /\ Exp[t] \in Nat
      /\ s \in Nat
      /\ Ticks(s) <= now
      /\ now < Ticks(s + 1)
  BY SecondsBound, TimeIsDiscrete DEF TypeOK
<1>2. /\ RemainingTtl(t) = Exp[t] - s
      /\ Exp[t] - s \in Nat \ {0}
      /\ Exp[t] - (s + 1) \in Nat
      /\ s + (Exp[t] - s) = Exp[t]
      /\ (s + 1) + (Exp[t] - (s + 1)) = Exp[t]
      /\ s + 1 \in Nat
  BY <1>1 DEF RemainingTtl
<1>3. Ticks(Exp[t]) = Ticks(s) + Ticks(RemainingTtl(t))
  BY <1>1, <1>2, TicksSum
<1>4. Ticks(Exp[t]) = Ticks(s + 1) + Ticks(Exp[t] - (s + 1))
  BY <1>1, <1>2, TicksSum
<1>5. /\ Ticks(s) \in Nat
      /\ Ticks(s + 1) \in Nat
      /\ Ticks(RemainingTtl(t)) \in Nat
      /\ Ticks(Exp[t] - (s + 1)) \in Nat
  BY <1>1, <1>2, TicksNat
<1> HIDE DEF s
<1> QED
  BY <1>1, <1>2, <1>3, <1>4, <1>5

\* The types of a request's fields, by how far it is.
LEMMA RequestTypes ==
    ASSUME TypeOK, NEW r \in Request
    PROVE  /\ requests[r].pc # "idle" => requests[r].ticket \in Ticket
           /\ requests[r].pc = "claim" => requests[r].ttl \in Nat \ {0}
           /\ requests[r].pc = "ok" => requests[r].at \in Nat
<1>1. requests[r] \in {Idle}
                     \cup [pc : {"claim"}, ticket : Ticket, ttl : Nat \ {0}]
                     \cup [pc : {"expired", "already_used", "failed"}, ticket : Ticket]
                     \cup [pc : {"ok"}, ticket : Ticket, at : Nat]
  BY DEF TypeOK
<1> QED
  BY <1>1 DEF Idle

\* A SET NX replaces no key before its time, so what it writes is no earlier
\* than what was there.
LEMMA KeysGrow ==
    ASSUME TypeOK, NEW r \in Request, requests[r].pc = "claim",
           Free(requests[r].ticket)
    PROVE  /\ Claimed(r) \in [Ticket -> Nat]
           /\ \A t \in Ticket : Claimed(r)[t] >= keys[t]
           /\ Claimed(r)[requests[r].ticket] = now + Ticks(requests[r].ttl)
<1>1. /\ requests[r].ticket \in Ticket
      /\ requests[r].ttl \in Nat
      /\ Ticks(requests[r].ttl) \in Nat
      /\ now \in Nat
      /\ keys \in [Ticket -> Nat]
  BY RequestTypes, TicksNat DEF TypeOK
<1> QED
  BY <1>1 DEF Claimed, Free

LEMMA TypeStep == TypeOK /\ [Next]_vars => TypeOK'
<1> SUFFICES ASSUME TypeOK, [Next]_vars
             PROVE  TypeOK'
  OBVIOUS
<1> USE DEF TypeOK
<1>1. ASSUME NEW r \in Request, NEW t \in Ticket, Check(r, t)
      PROVE  TypeOK'
  BY <1>1, TtlSuffices DEF Check
<1>2. ASSUME NEW r \in Request, Claim(r)
      PROVE  TypeOK'
  <2>1. requests[r].ticket \in Ticket
    BY <1>2, RequestTypes DEF Claim
  <2>2. CASE Free(requests[r].ticket)
    BY <1>2, <2>1, <2>2, KeysGrow DEF Claim
  <2>3. CASE ~ Free(requests[r].ticket)
    BY <1>2, <2>1, <2>3 DEF Claim
  <2> QED
    BY <2>2, <2>3
<1>3. ASSUME NEW r \in Request, Fail(r)
      PROVE  TypeOK'
  BY <1>3, RequestTypes DEF Fail
<1>4. ASSUME NEW r \in Request, LoseReply(r)
      PROVE  TypeOK'
  BY <1>4, RequestTypes, KeysGrow DEF LoseReply
<1>5. CASE Tick
  BY <1>5 DEF Tick
<1>6. CASE UNCHANGED vars
  BY <1>6 DEF vars
<1> QED
  BY <1>1, <1>2, <1>3, <1>4, <1>5, <1>6 DEF Next, Step

\* A ticket that somebody was granted is not free before its exp.
LEMMA Inductive == IInv /\ TypeOK' /\ [Next]_vars => IInv'
<1> SUFFICES ASSUME IInv, TypeOK', [Next]_vars
             PROVE  ClaimsSuffice' /\ KeysOutlive' /\ OncePerLifetime'
  BY DEF IInv
<1> USE DEF IInv
<1>0. \A t \in Ticket : Exp[t] \in Nat /\ Ticks(Exp[t]) \in Nat
  BY TimeIsDiscrete, TicksNat
<1>1. ASSUME NEW r \in Request, NEW t \in Ticket, Check(r, t)
      PROVE  ClaimsSuffice' /\ KeysOutlive' /\ OncePerLifetime'
  <2>1. /\ now' = now /\ keys' = keys
        /\ \A m \in Request \ {r} : requests'[m] = requests[m]
        /\ requests'[r].pc # "ok"
    BY <1>1 DEF Check, TypeOK
  <2>2. requests'[r].pc = "claim" =>
            /\ requests'[r].ticket = t
            /\ now + Ticks(requests'[r].ttl) >= Ticks(Exp[t])
    BY <1>1, TtlSuffices DEF Check, TypeOK
  <2> QED
    BY <2>1, <2>2 DEF ClaimsSuffice, KeysOutlive, OncePerLifetime
<1>2. ASSUME NEW r \in Request, Claim(r)
      PROVE  ClaimsSuffice' /\ KeysOutlive' /\ OncePerLifetime'
  <2> DEFINE t == requests[r].ticket
  <2>1. /\ now' = now
        /\ t \in Ticket
        /\ requests[r].pc = "claim"
        /\ \A m \in Request \ {r} : requests'[m] = requests[m]
        /\ requests'[r].pc # "claim"
    BY <1>2, RequestTypes DEF Claim, TypeOK
  <2>2. ClaimsSuffice'
    BY <2>1 DEF ClaimsSuffice
  <2>3. CASE Free(t)
    <3>1. /\ keys' = Claimed(r)
          /\ requests'[r] = [pc |-> "ok", ticket |-> t, at |-> now]
      BY <1>2, <2>3 DEF Claim, TypeOK
    <3>2. /\ keys' \in [Ticket -> Nat]
          /\ keys \in [Ticket -> Nat]
          /\ now \in Nat
          /\ \A x \in Ticket : keys'[x] >= keys[x]
          /\ keys'[t] = now + Ticks(requests[r].ttl)
      BY <2>1, <2>3, <3>1, KeysGrow DEF TypeOK
    <3>3. keys'[t] >= Ticks(Exp[t])
      BY <2>1, <3>2 DEF ClaimsSuffice
    <3>4. KeysOutlive'
      <4>1. SUFFICES ASSUME NEW m \in Request, requests'[m].pc = "ok"
                     PROVE  /\ requests'[m].at <= now'
                            /\ keys'[requests'[m].ticket]
                                  >= Ticks(Exp[requests'[m].ticket])
        BY DEF KeysOutlive
      <4>2. CASE m = r
        BY <2>1, <3>1, <3>2, <3>3, <4>2
      <4>3. CASE m # r
        <5>1. /\ requests[m].pc = "ok"
              /\ requests'[m] = requests[m]
              /\ requests[m].ticket \in Ticket
          BY <2>1, <4>1, <4>3, RequestTypes
        <5> QED
          BY <1>0, <2>1, <3>2, <5>1 DEF KeysOutlive
      <4> QED
        BY <4>2, <4>3
    <3>5. ASSUME NEW m \in Request \ {r}, requests'[m].pc = "ok",
                 requests'[m].ticket = t
          PROVE  ~ (now < Ticks(Exp[t]))
      <4>1. requests[m].pc = "ok" /\ requests[m].ticket = t
        BY <2>1, <3>5
      <4>2. keys[t] >= Ticks(Exp[t]) /\ now >= keys[t]
        BY <2>3, <4>1 DEF KeysOutlive, Free
      <4> QED
        BY <1>0, <2>1, <3>2, <4>2
    <3>6. OncePerLifetime'
      BY <2>1, <3>1, <3>5 DEF OncePerLifetime
    <3> QED
      BY <2>2, <3>4, <3>6
  <2>4. CASE ~ Free(t)
    <3>1. keys' = keys /\ requests'[r].pc = "already_used"
      BY <1>2, <2>4 DEF Claim, TypeOK
    <3> QED
      BY <2>1, <2>2, <3>1 DEF KeysOutlive, OncePerLifetime
  <2> QED
    BY <2>3, <2>4
<1>3. ASSUME NEW r \in Request, Fail(r)
      PROVE  ClaimsSuffice' /\ KeysOutlive' /\ OncePerLifetime'
  <2>1. /\ now' = now /\ keys' = keys
        /\ \A m \in Request \ {r} : requests'[m] = requests[m]
        /\ requests'[r].pc = "failed"
    BY <1>3 DEF Fail, TypeOK
  <2> QED
    BY <2>1 DEF ClaimsSuffice, KeysOutlive, OncePerLifetime
<1>4. ASSUME NEW r \in Request, LoseReply(r)
      PROVE  ClaimsSuffice' /\ KeysOutlive' /\ OncePerLifetime'
  <2>1. /\ now' = now /\ now \in Nat /\ keys \in [Ticket -> Nat]
        /\ requests' = requests
        /\ keys' \in [Ticket -> Nat]
        /\ \A x \in Ticket : keys'[x] >= keys[x]
    BY <1>4, KeysGrow DEF LoseReply, TypeOK
  <2>2. KeysOutlive'
    <3> SUFFICES ASSUME NEW m \in Request, requests'[m].pc = "ok"
                 PROVE  /\ requests'[m].at <= now'
                        /\ keys'[requests'[m].ticket]
                              >= Ticks(Exp[requests'[m].ticket])
      BY DEF KeysOutlive
    <3>1. /\ requests[m].pc = "ok"
          /\ requests'[m] = requests[m]
          /\ requests[m].ticket \in Ticket
      BY <2>1, RequestTypes
    <3> QED
      BY <1>0, <2>1, <3>1 DEF KeysOutlive
  <2> QED
    BY <2>1, <2>2 DEF ClaimsSuffice, OncePerLifetime
<1>5. CASE Tick
  <2>1. /\ now' = now + 1 /\ now \in Nat /\ keys' = keys /\ requests' = requests
    BY <1>5 DEF Tick, TypeOK
  <2>2. \A r \in Request :
          /\ requests[r].pc = "claim" => /\ Ticks(requests[r].ttl) \in Nat
                                         /\ Ticks(Exp[requests[r].ticket]) \in Nat
          /\ requests[r].pc = "ok" => requests[r].at \in Nat
    BY <1>0, RequestTypes, TicksNat
  <2> QED
    BY <2>1, <2>2 DEF ClaimsSuffice, KeysOutlive, OncePerLifetime
<1>6. CASE UNCHANGED vars
  BY <1>6 DEF vars, ClaimsSuffice, KeysOutlive, OncePerLifetime
<1> QED
  BY <1>1, <1>2, <1>3, <1>4, <1>5, <1>6 DEF Next, Step

LEMMA InitHolds == Init => IInv
BY DEF Init, IInv, TypeOK, ClaimsSuffice, KeysOutlive, OncePerLifetime, Idle

\* Clock, keys and calls keep their types.
THEOREM TypeCorrect == Spec => []TypeOK
<1>1. Init => TypeOK
  BY InitHolds DEF IInv
<1> QED
  BY <1>1, TypeStep, PTL DEF Spec

\* However late the SETs run, a link ticket is accepted once before its exp.
THEOREM Once == Spec => []OncePerLifetime
<1>1. IInv => OncePerLifetime
  BY DEF IInv
<1>2. Spec => []IInv
  BY InitHolds, Inductive, TypeCorrect, PTL DEF Spec
<1> QED
  BY <1>1, <1>2, PTL

----------------------------------------------------------------------------
\* Without delays a SET runs before the ticket's exp.
PromptInv ==
    \A r \in Request :
        /\ requests[r].pc = "claim" => now < Ticks(Exp[requests[r].ticket])
        /\ requests[r].pc = "ok" => requests[r].at < Ticks(Exp[requests[r].ticket])

LEMMA PromptStep == TypeOK /\ PromptInv /\ [Step \/ PromptTick]_vars => PromptInv'
<1> SUFFICES ASSUME TypeOK, PromptInv, [Step \/ PromptTick]_vars
             PROVE  PromptInv'
  OBVIOUS
<1> USE DEF PromptInv
<1>1. ASSUME NEW r \in Request, NEW t \in Ticket, Check(r, t)
      PROVE  PromptInv'
  <2>1. /\ now' = now
        /\ \A m \in Request \ {r} : requests'[m] = requests[m]
        /\ requests'[r].pc # "ok"
        /\ requests'[r].pc = "claim" => /\ requests'[r].ticket = t
                                        /\ now < Ticks(Exp[t])
    BY <1>1, TtlSuffices DEF Check, TypeOK
  <2> QED
    BY <2>1
<1>2. ASSUME NEW r \in Request, Claim(r)
      PROVE  PromptInv'
  <2>1. /\ now' = now
        /\ \A m \in Request \ {r} : requests'[m] = requests[m]
        /\ requests[r].pc = "claim"
        /\ \/ requests'[r] = [pc |-> "ok", ticket |-> requests[r].ticket, at |-> now]
           \/ requests'[r].pc = "already_used"
    BY <1>2 DEF Claim, TypeOK
  <2> QED
    BY <2>1
<1>3. ASSUME NEW r \in Request, Fail(r)
      PROVE  PromptInv'
  <2>1. /\ now' = now
        /\ \A m \in Request \ {r} : requests'[m] = requests[m]
        /\ requests'[r].pc = "failed"
    BY <1>3 DEF Fail, TypeOK
  <2> QED
    BY <2>1
<1>6. ASSUME NEW r \in Request, LoseReply(r)
      PROVE  PromptInv'
  BY <1>6 DEF LoseReply
<1>4. CASE PromptTick
  BY <1>4 DEF PromptTick, Tick
<1>5. CASE UNCHANGED vars
  BY <1>5 DEF vars
<1> QED
  BY <1>1, <1>2, <1>3, <1>4, <1>5, <1>6 DEF Step

\* Without delays a link ticket is consumed once.
THEOREM PromptOnce == PromptSpec => []ConsumedOnce
<1>1. IInv /\ PromptInv => ConsumedOnce
  BY DEF IInv, PromptInv, OncePerLifetime, ConsumedOnce
<1>2. Init => PromptInv
  BY DEF Init, PromptInv, Idle
<1>3. [Step \/ PromptTick]_vars => [Next]_vars
  BY DEF PromptTick, Next
<1>4. IInv /\ PromptInv /\ [Step \/ PromptTick]_vars => IInv' /\ PromptInv'
  BY <1>3, TypeStep, Inductive, PromptStep DEF IInv
<1> QED
  BY <1>1, <1>2, <1>4, InitHolds, PTL DEF PromptSpec

\* A call that has set the key of ticket t.
Setter(m, t) == /\ requests[m].pc = "ok" \/ m \in lost
                /\ requests[m] # Idle
                /\ requests[m].ticket = t

\* A key that was ever set was set by a call.
KeysHaveSetters ==
    \A t \in Ticket : keys[t] # 0 => \E m \in Request : Setter(m, t)

UsedInv == KeysHaveSetters /\ UsedForCause /\ \A m \in lost : requests[m] # Idle

LEMMA UsedStep == TypeOK /\ UsedInv /\ [Next]_vars => UsedInv'
<1> SUFFICES ASSUME TypeOK, UsedInv, [Next]_vars
             PROVE  UsedInv'
  OBVIOUS
<1> USE DEF UsedInv
\* A call keeps its ticket, one that has ended its outcome, too.
<1>1. ASSUME NEW m \in Request, requests[m] # Idle
      PROVE  /\ requests'[m] # Idle
             /\ requests'[m].ticket = requests[m].ticket
             /\ requests[m].pc # "claim" => requests'[m] = requests[m]
  BY <1>1 DEF Next, Step, Check, Claim, Fail, LoseReply, Tick, vars, TypeOK, Idle
<1>2. lost \subseteq lost' /\ \A m \in lost' : requests'[m] # Idle
  <2>1. \A m \in lost' : m \in lost \/ LoseReply(m)
    BY DEF Next, Step, Check, Claim, Fail, LoseReply, Tick, vars
  <2>2. \A m \in Request : LoseReply(m) => requests[m] # Idle /\ requests' = requests
    BY DEF LoseReply, Idle
  <2>3. lost \subseteq lost' /\ lost' \subseteq Request
    BY DEF Next, Step, Check, Claim, Fail, LoseReply, Tick, vars, TypeOK
  <2> QED
    BY <1>1, <2>1, <2>2, <2>3 DEF TypeOK
<1>3. \A m \in Request, t \in Ticket : Setter(m, t) => Setter(m, t)'
  BY <1>1, <1>2 DEF Setter
<1>4. ASSUME NEW r \in Request, Claim(r) \/ LoseReply(r), Free(requests[r].ticket)
      PROVE  \A t \in Ticket : keys'[t] # keys[t] => Setter(r, t)'
  <2>1. requests[r].pc = "claim" /\ requests[r].ticket \in Ticket
    BY <1>4, RequestTypes DEF Claim, LoseReply
  <2>2. \A t \in Ticket : t # requests[r].ticket => keys'[t] = keys[t]
    BY <1>4, <2>1 DEF Claim, LoseReply, Claimed, TypeOK
  <2>3. requests'[r].pc = "ok" \/ r \in lost'
    BY <1>4, <2>1 DEF Claim, LoseReply, TypeOK
  <2>4. requests[r] # Idle
    BY <2>1 DEF Idle
  <2> QED
    BY <1>1, <2>2, <2>3, <2>4 DEF Setter
<1>5. KeysHaveSetters'
  <2>1. CASE keys' = keys
    BY <1>3, <2>1 DEF KeysHaveSetters
  <2>2. CASE keys' # keys
    <3>1. PICK r \in Request : /\ Claim(r) \/ LoseReply(r)
                               /\ Free(requests[r].ticket)
      BY <2>2 DEF Next, Step, Check, Claim, Fail, LoseReply, Tick, vars
    <3> QED
      BY <1>3, <1>4, <3>1 DEF KeysHaveSetters
  <2> QED
    BY <2>1, <2>2
<1>6. UsedForCause'
  <2> SUFFICES ASSUME NEW r \in Request, requests'[r].pc = "already_used"
               PROVE  \E m \in Request : /\ requests'[m].pc = "ok" \/ m \in lost'
                                         /\ requests'[m].ticket = requests'[r].ticket
    BY DEF UsedForCause
  <2>1. CASE requests[r].pc = "already_used"
    <3>1. requests[r] # Idle
      BY <2>1 DEF Idle
    <3>2. requests'[r] = requests[r] /\ requests[r].ticket \in Ticket
      BY <1>1, <2>1, <3>1, RequestTypes
    <3>3. PICK m \in Request : /\ requests[m].pc = "ok" \/ m \in lost
                               /\ requests[m].ticket = requests[r].ticket
      BY <2>1 DEF UsedForCause
    <3>4. Setter(m, requests[r].ticket)
      BY <3>3 DEF Setter, Idle
    <3> QED
      BY <1>3, <3>2, <3>4 DEF Setter
  <2>2. CASE requests[r].pc # "already_used"
    <3> DEFINE t == requests[r].ticket
    <3>1. Claim(r) /\ ~ Free(t)
      BY <2>2 DEF Next, Step, Check, Claim, Fail, LoseReply, Tick, vars, TypeOK
    <3>2. t \in Ticket /\ requests'[r].ticket = t
      BY <3>1, RequestTypes DEF Claim, TypeOK
    <3>3. keys[t] # 0
      BY <3>1, <3>2 DEF Free, TypeOK
    <3>4. PICK m \in Request : Setter(m, t)
      BY <3>2, <3>3 DEF KeysHaveSetters
    <3> QED
      BY <1>3, <3>2, <3>4 DEF Setter
  <2> QED
    BY <2>1, <2>2
<1> QED
  BY <1>2, <1>5, <1>6

\* already_used is never said of a ticket whose key no call has set.
THEOREM UsedIsReal == Spec => []UsedForCause
<1>1. Init => UsedInv
  BY DEF Init, UsedInv, KeysHaveSetters, UsedForCause, Idle
<1>2. UsedInv => UsedForCause
  BY DEF UsedInv
<1> QED
  BY <1>1, <1>2, UsedStep, TypeCorrect, PTL DEF Spec
=============================================================================
