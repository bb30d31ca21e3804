------------------------------ MODULE LinkTicket ------------------------------
(***************************************************************************)
(* LinkTicketService.verifyAndConsume (src/src/security/link-ticket.ts):   *)
(* the expiry of a link ticket is compared with the clock, then its nonce  *)
(* is claimed by a SET NX whose key lives as long as the ticket had left.  *)
(*                                                                         *)
(* Time is counted in ticks, as Redis counts milliseconds; a ticket's exp, *)
(* Date.now() / 1000 and EX are in seconds.  The clocks of the service and *)
(* of Redis advance together.  A SET may run late, and more than once: a   *)
(* client that lost its connection keeps its commands until it is back,    *)
(* and sends again those whose answers it has not seen.                    *)
(*                                                                         *)
(* A malformed or badly signed ticket changes nothing: a stuttering step.  *)
(***************************************************************************)
EXTENDS Clock

CONSTANTS Ticket,
          Request,          \* calls of verifyAndConsume
          Exp,              \* exp of each ticket, in seconds
          Horizon           \* bound of TLC's runs: time stops there

ASSUME TimeIsDiscrete == /\ Exp \in [Ticket -> Nat]
                         /\ Horizon \in Nat

VARIABLES now,
          keys,         \* keys[t]: when the nonce key of t lapses, 0 if never set
          requests,     \* requests[r]: how far call r is
          lost          \* the calls that set a key and lost the answer

vars == <<now, keys, requests, lost>>

Idle == [pc |-> "idle"]

TypeOK == /\ now \in Nat
          /\ keys \in [Ticket -> Nat]
          /\ requests \in
                [Request -> {Idle}
                            \cup [pc : {"claim"}, ticket : Ticket, ttl : Nat \ {0}]
                            \cup [pc : {"expired", "already_used", "failed"},
                                  ticket : Ticket]
                            \cup [pc : {"ok"}, ticket : Ticket, at : Nat]]
          /\ lost \subseteq Request

Init == /\ now = 0
        /\ keys = [t \in Ticket |-> 0]
        /\ requests = [r \in Request |-> Idle]
        /\ lost = {}

----------------------------------------------------------------------------
\* Mutants of RemainingTtl: nothing keeps it above 0; the clock is rounded to the
\* next second.
TtlUnbounded(t) == Exp[t] - (Seconds(now) + 1)

TtlRoundedDown(t) == LET left == Exp[t] - (Seconds(now) + 1)
                     IN  IF left < 1 THEN 1 ELSE left

\* Redis takes no EX 0.
RemainingTtl(t) == LET left == Exp[t] - Seconds(now)
                   IN  IF left < 1 THEN 1 ELSE left

Check(r, t) ==
    /\ requests[r] = Idle
    /\ requests' = [requests EXCEPT ![r] =
                       IF Exp[t] <= Seconds(now)
                         THEN [pc |-> "expired", ticket |-> t]
                         ELSE [pc |-> "claim", ticket |-> t, ttl |-> RemainingTtl(t)]]
    /\ UNCHANGED <<now, keys, lost>>

\* The nonce key of ticket t is not in Redis.
Free(t) == now >= keys[t]

\* Mutant of Claimed: the key does not name the nonce.
ClaimedForAll(r) == [t \in Ticket |-> now + Ticks(requests[r].ttl)]

\* The keys after the SET NX of request r.
Claimed(r) == [keys EXCEPT ![requests[r].ticket] = now + Ticks(requests[r].ttl)]

Claim(r) ==
    /\ requests[r].pc = "claim"
    /\ LET t == requests[r].ticket
       IN  IF Free(t)
             THEN /\ keys' = Claimed(r)
                  /\ requests' = [requests EXCEPT ![r] =
                                     [pc |-> "ok", ticket |-> t, at |-> now]]
             ELSE /\ requests' = [requests EXCEPT ![r] =
                                     [pc |-> "already_used", ticket |-> t]]
                  /\ UNCHANGED keys
    /\ UNCHANGED <<now, lost>>

\* The client gives up, or the process stops.
Fail(r) ==
    /\ requests[r].pc = "claim"
    /\ requests' = [requests EXCEPT ![r] =
                       [pc |-> "failed", ticket |-> requests[r].ticket]]
    /\ UNCHANGED <<now, keys, lost>>

\* The SET runs and its answer is lost: it will be sent again, or Fail follows.
LoseReply(r) ==
    /\ requests[r].pc = "claim"
    /\ Free(requests[r].ticket)
    /\ keys' = Claimed(r)
    /\ lost' = lost \cup {r}
    /\ UNCHANGED <<now, requests>>

Tick == /\ now < Horizon
        /\ now' = now + 1
        /\ UNCHANGED <<keys, requests, lost>>

Step == \/ \E r \in Request, t \in Ticket : Check(r, t)
        \/ \E r \in Request : Claim(r) \/ Fail(r) \/ LoseReply(r)

Next == Step \/ Tick

Spec == Init /\ [][Next]_vars

\* No SET is late: time stands still while one is under way.
PromptTick == Tick /\ \A r \in Request : requests[r].pc # "claim"

PromptSpec == Init /\ [][Step \/ PromptTick]_vars

----------------------------------------------------------------------------
\* A ticket is accepted once before its exp, however late the SETs of other
\* calls run and whatever was lost: the key of the first is there till then.
OncePerLifetime ==
    \A r1, r2 \in Request :
        (/\ requests[r1].pc = "ok" /\ requests[r2].pc = "ok"
         /\ requests[r1].ticket = requests[r2].ticket
         /\ requests[r1].at < Ticks(Exp[requests[r1].ticket])
         /\ requests[r2].at < Ticks(Exp[requests[r2].ticket]))
        => r1 = r2

\* "The same ticket can never be consumed twice" (link-ticket.ts).
ConsumedOnce ==
    \A r1, r2 \in Request :
        (/\ requests[r1].pc = "ok" /\ requests[r2].pc = "ok"
         /\ requests[r1].ticket = requests[r2].ticket)
        => r1 = r2

\* already_used is never said of a ticket whose key nobody set: some call was
\* told ok, or lost the answer to the SET that made the key.  It may be the
\* refused call itself, whose SET was sent again and met its own key.
UsedForCause ==
    \A r \in Request :
        requests[r].pc = "already_used" =>
            \E m \in Request : /\ requests[m].pc = "ok" \/ m \in lost
                               /\ requests[m].ticket = requests[r].ticket
=============================================================================
