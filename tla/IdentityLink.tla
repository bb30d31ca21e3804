----------------------------- MODULE IdentityLink -----------------------------
(***************************************************************************)
(* IdentityService.link (src/src/identity/identity.service.ts), called by  *)
(* the OAuth callback of a "link" session and by Django's POST             *)
(* /internal/v1/identity/link, possibly at once and for the same pair.     *)
(*                                                                         *)
(* link() is a SELECT, then by its result an UPDATE or an INSERT; other    *)
(* callers' statements run between the two, so each statement is an        *)
(* action.  A caller retries by making a new call: the calls are the       *)
(* elements of Linker and their number bounds the model.                   *)
(***************************************************************************)
EXTENDS IdentityTable

CONSTANT Linker     \* calls of link()

VARIABLES identities,   \* the auth_identity table
          links         \* links[l]: how far call l is, and for which pair

linkVars == <<identities, links>>

Idle == [pc |-> "idle"]

Call == [pc : {"select", "update", "insert", "ok", "refused", "failed"},
         key : Key, user : User]

TypeOK == /\ identities \in Table
          /\ links \in [Linker -> {Idle} \cup Call]

\* Every table the two UNIQUE constraints allow.
Init == /\ identities \in Table
        /\ OneIdentityPerUser(identities)
        /\ links = [l \in Linker |-> Idle]

----------------------------------------------------------------------------
\* A caller asks for identity k to be linked to KIS user u.
Begin(l, k, u) ==
    /\ links[l] = Idle
    /\ links' = [links EXCEPT ![l] = [pc |-> "select", key |-> k, user |-> u]]
    /\ UNCHANGED identities

Select(l) ==
    /\ links[l].pc = "select"
    /\ links' = [links EXCEPT ![l].pc =
                     LET next == AfterSelect(identities, links[l].key, links[l].user)
                     IN  IF next = "conflict" THEN "refused" ELSE next]
    /\ UNCHANGED identities

\* The UPDATE writes the e-mail and last_authenticated_at only.
Update(l) ==
    /\ links[l].pc = "update"
    /\ links' = [links EXCEPT ![l].pc = "ok"]
    /\ UNCHANGED identities

\* The INSERT, with error 23505 turned into already_linked.
Insert(l) ==
    /\ links[l].pc = "insert"
    /\ IF UniqueViolation(identities, links[l].key, links[l].user)
         THEN /\ links' = [links EXCEPT ![l].pc = "refused"]
              /\ UNCHANGED identities
         ELSE /\ links' = [links EXCEPT ![l].pc = "ok"]
              /\ identities' = InsertRow(identities, links[l].key, links[l].user)

\* A statement fails, or the process stops, with nothing written: the caller
\* gets a 500 or no answer.
Fail(l) ==
    /\ links[l].pc \in {"select", "update", "insert"}
    /\ links' = [links EXCEPT ![l].pc = "failed"]
    /\ UNCHANGED identities

\* The INSERT commits and its answer is lost.
LoseReply(l) ==
    /\ links[l].pc = "insert"
    /\ ~ UniqueViolation(identities, links[l].key, links[l].user)
    /\ links' = [links EXCEPT ![l].pc = "failed"]
    /\ identities' = InsertRow(identities, links[l].key, links[l].user)

\* No code of the repository writes `status`: an operator revokes an identity.
Revoke(k) ==
    /\ identities[k] # NoRow
    /\ identities[k].status = "active"
    /\ identities' = [identities EXCEPT ![k].status = "revoked"]
    /\ UNCHANGED links

Step(l) == \/ Select(l)
           \/ Update(l)
           \/ Insert(l)
           \/ Fail(l)
           \/ LoseReply(l)

Next == \/ \E l \in Linker : Step(l)
        \/ \E l \in Linker, k \in Key, u \in User : Begin(l, k, u)
        \/ \E k \in Key : Revoke(k)

Spec == Init /\ [][Next]_linkVars

\* A statement that was sent is answered or fails.
Fairness == \A l \in Linker : WF_linkVars(Step(l))

FairSpec == Spec /\ Fairness

----------------------------------------------------------------------------
\* A call that answered ok tells the truth for good: its identity is linked to
\* its user, however many other calls ran between its SELECT and its write.
OkMeansBound ==
    \A l \in Linker :
        links[l].pc = "ok" => Bound(identities, links[l].key, links[l].user)

\* link() and its callers never move an identity to another user, never lose
\* one, and a retried link does not bring a revoked one back to active.
BindingStable ==
    [][ \A k \in Key :
          identities[k] # NoRow =>
              /\ identities'[k] # NoRow
              /\ identities'[k].user = identities[k].user
              /\ identities[k].status = "revoked" => identities'[k].status = "revoked"
      ]_linkVars

\* Another call made the same request and may have inserted the row.
SameRequest(l, m) ==
    /\ m # l
    /\ links[m].pc \in {"ok", "failed"}
    /\ links[m].key = links[l].key
    /\ links[m].user = links[l].user

\* already_linked is never a false alarm: the identity belongs to someone else,
\* the user has another identity, or a call for the very same pair won a race
\* or committed before its answer was lost (the comment of link() allows that
\* last case).
RefusalIsReal ==
    \A l \in Linker :
        links[l].pc = "refused" =>
            \/ \E v \in User \ {links[l].user} : Bound(identities, links[l].key, v)
            \/ \E k \in Key \ {links[l].key} : Bound(identities, k, links[l].user)
            \/ \E m \in Linker : SameRequest(l, m)

\* A retry of a link that is already in the table completes: it is not refused,
\* the case the comment above the SELECT is about ("permanently strands the
\* one account that could ever legitimately retry").
RetrySucceeds ==
    \A l \in Linker :
        (/\ links[l].pc = "select"
         /\ Bound(identities, links[l].key, links[l].user))
        ~> links[l].pc \in {"ok", "failed"}

=============================================================================
