--------------------------- MODULE InternalSigning ---------------------------
(***************************************************************************)
(* verifyInternalSignature (src/src/security/internal-signing.ts): a       *)
(* signed request of Django is accepted if its timestamp is within a       *)
(* window around the clock and its nonce is not in the cache of this       *)
(* process, where an accepted one stays for as long as the window's half.  *)
(*                                                                         *)
(* Time is counted in ticks, as Date.now() counts milliseconds, and a      *)
(* timestamp in seconds.  The function has no await, so a process is in    *)
(* one call at a time, but it reads the clock twice: for the window, and   *)
(* then for the sweep and the nonce's expiry.  Any time may pass in        *)
(* between; the clock does not go back.  The same request may arrive       *)
(* again, at the same process or another, whole or damaged; a timestamp    *)
(* may be ahead of the clock, as Django has its own.  Missing headers      *)
(* change nothing.                                                         *)
(***************************************************************************)
EXTENDS Clock

CONSTANTS Message,          \* signed requests; each stands for its nonce
          Stamp,            \* the timestamp of each, in seconds
          Process,          \* instances of the service
          Skew,             \* max(30, maxSkewSeconds)
          MaxRestarts,      \* bound of TLC's runs: restarts of each process
          Horizon           \* bound of TLC's runs: time stops there

ASSUME ClockAssumption == /\ Stamp \in [Message -> Nat]
                          /\ Skew \in Nat \ {0}
                          /\ MaxRestarts \in Nat
                          /\ Horizon \in Nat

VARIABLES now,
          calls,        \* calls[p]: the call p is in, if its timestamp was in the window
          nonceCache,   \* nonceCache[p]: the entries of p's cache
          life,         \* how often each process was restarted
          accepted      \* the acceptances so far

vars == <<now, calls, nonceCache, life, accepted>>

Entry == [msg : Message, expiresAt : Nat]

\* A call, and when it read the clock first.
Call == [msg : Message, checked : Nat]

\* `at` is the second reading.
Acceptance == [msg : Message, checked : Nat, process : Process, life : Nat, at : Nat]

TypeOK == /\ now \in Nat
          /\ calls \in [Process -> SUBSET Call]
          /\ \A p \in Process : \A c, d \in calls[p] : c = d
          /\ nonceCache \in [Process -> SUBSET Entry]
          /\ life \in [Process -> Nat]
          /\ accepted \subseteq Acceptance

Init == /\ now = 0
        /\ calls = [p \in Process |-> {}]
        /\ nonceCache = [p \in Process |-> {}]
        /\ life = [p \in Process |-> 0]
        /\ accepted = {}

----------------------------------------------------------------------------
InWindow(m) == /\ Seconds(now) - Stamp[m] <= Skew
               /\ Stamp[m] - Seconds(now) <= Skew

\* The first reading of the clock finds the timestamp in the window; the others
\* are refused and change nothing.
Arrive(p, m) ==
    /\ calls[p] = {}
    /\ InWindow(m)
    /\ calls' = [calls EXCEPT ![p] = {[msg |-> m, checked |-> now]}]
    /\ UNCHANGED <<now, nonceCache, life, accepted>>

\* The loop that runs at the second reading.
Swept(p) == {e \in nonceCache[p] : e.expiresAt > now}

\* Mutant of Known: the cache is not asked.
NeverKnown(p, m) == FALSE

Known(p, m) == \E e \in Swept(p) : e.msg = m

\* Mutants of NonceEntry: no expiry; the skew is taken for milliseconds.
EntryForever(m) == [msg |-> m]

EntryTooShort(m) == [msg |-> m, expiresAt |-> now + Skew]

NonceEntry(m) == [msg |-> m, expiresAt |-> now + Ticks(Skew)]

Accept(p, c) ==
    /\ ~ Known(p, c.msg)
    /\ nonceCache' = [nonceCache EXCEPT ![p] = Swept(p) \cup {NonceEntry(c.msg)}]
    /\ accepted' = accepted \cup {[msg |-> c.msg, checked |-> c.checked,
                                   process |-> p, life |-> life[p], at |-> now]}
    /\ calls' = [calls EXCEPT ![p] = {}]
    /\ UNCHANGED <<now, life>>

\* Mutant of CacheAfterMismatch: the nonce is kept before the signature is
\* compared.
KeptBeforeCheck(p, m) == Swept(p) \cup {NonceEntry(m)}

\* A damaged copy of a request leaves no nonce behind.
CacheAfterMismatch(p, m) == Swept(p)

\* replayed_nonce, or signature_mismatch.
TurnDown(p, c) ==
    /\ nonceCache' = [nonceCache EXCEPT ![p] =
                         IF Known(p, c.msg) THEN Swept(p) ELSE CacheAfterMismatch(p, c.msg)]
    /\ calls' = [calls EXCEPT ![p] = {}]
    /\ UNCHANGED <<now, life, accepted>>

Restart(p) ==
    /\ life[p] < MaxRestarts
    /\ life' = [life EXCEPT ![p] = life[p] + 1]
    /\ nonceCache' = [nonceCache EXCEPT ![p] = {}]
    /\ calls' = [calls EXCEPT ![p] = {}]
    /\ UNCHANGED <<now, accepted>>

Tick == /\ now < Horizon
        /\ now' = now + 1
        /\ UNCHANGED <<calls, nonceCache, life, accepted>>

Next == \/ \E p \in Process, m \in Message : Arrive(p, m)
        \/ \E p \in Process : \E c \in calls[p] : Accept(p, c) \/ TurnDown(p, c)
        \/ \E p \in Process : Restart(p)
        \/ Tick

Spec == Init /\ [][Next]_vars

----------------------------------------------------------------------------
\* Two acceptances of one request by one process between restarts.
Twice(a, b) == /\ a \in accepted /\ b \in accepted /\ a # b
               /\ a.msg = b.msg /\ a.process = b.process /\ a.life = b.life

\* A process that accepted a request does not accept it again before Skew
\* seconds have passed, to the millisecond.
SkewApart ==
    \A a, b \in accepted :
        Twice(a, b) => \/ b.at >= a.at + Ticks(Skew)
                       \/ a.at >= b.at + Ticks(Skew)

\* The second after the last in which a timestamp is in the window.
Closed(m) == Ticks(Stamp[m] + Skew + 1)

\* A request that is at least a second old when a process accepts it can be
\* accepted again only by a call during which its window closes: one that found
\* the timestamp in the window and swept the nonce after it, its two readings of
\* the clock being on either side of that moment.
OldRequestAtEdge ==
    \A a, b \in accepted :
        (Twice(a, b) /\ a.at <= b.at /\ Stamp[a.msg] < Seconds(a.at)) =>
            b.checked < Closed(b.msg) /\ Closed(b.msg) <= b.at

\* A nonce in the cache is one of an accepted request: a damaged copy does not
\* have the whole one turned away as replayed.
NonceMeansAccepted ==
    \A p \in Process : \A e \in nonceCache[p] :
        \E a \in accepted : a.msg = e.msg /\ a.process = p /\ a.life = life[p]

\* "Rejects a replayed nonce even when otherwise valid"
\* (internal-signing.spec.ts): one process, never restarted, accepts a request
\* once.
AcceptedOnce == \A a, b \in accepted : ~ Twice(a, b)
=============================================================================
