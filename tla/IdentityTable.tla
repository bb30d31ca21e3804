---------------------------- MODULE IdentityTable ----------------------------
(***************************************************************************)
(* The auth_identity table and the statements IdentityService runs on it   *)
(* (src/src/identity/identity.service.ts, src/src/db/migrations).          *)
(*                                                                         *)
(* A key stands for a (provider, provider_subject) pair.  That pair is     *)
(* UNIQUE and no statement of the service deletes a row or changes its     *)
(* pair, so a row is identified with its key: the uuid `id` that           *)
(* findById takes and the pair that findByProviderSubject takes name the   *)
(* same entry of a table.  E-mail and last_authenticated_at are left out:  *)
(* nothing the service decides reads them.                                 *)
(***************************************************************************)
CONSTANTS Key,    \* (provider, provider_subject) pairs
          User,   \* KIS user ids
          NoRow   \* what a SELECT with no match returns

Row == [user : User, status : {"active", "revoked"}]

ASSUME NoRowIsNoRow == NoRow \notin Row

Table == [Key -> Row \cup {NoRow}]

\* No KIS user is linked to two identities: UNIQUE (kis_user_id).
OneIdentityPerUser(table) ==
    \A k1, k2 \in Key :
        /\ table[k1] # NoRow
        /\ table[k2] # NoRow
        /\ table[k1].user = table[k2].user
        => k1 = k2

\* Some identity is linked to KIS user u.
HasIdentity(table, u) ==
    \E k \in Key : table[k] # NoRow /\ table[k].user = u

\* The identity k is linked to the KIS user u.
Bound(table, k, u) == table[k] # NoRow /\ table[k].user = u

\* Mutants of UniqueViolation: only one of the two constraints exists.
NoUserConstraint(table, k, u) == table[k] # NoRow

NoPairConstraint(table, k, u) == HasIdentity(table, u)

\* The two UNIQUE constraints an INSERT of (k, u) can break.
UniqueViolation(table, k, u) == table[k] # NoRow \/ HasIdentity(table, u)

\* Mutant of InsertRow: status has no DEFAULT.
InsertWithoutStatus(table, k, u) == [table EXCEPT ![k] = [user |-> u]]

\* The table after that INSERT; status takes its DEFAULT.
InsertRow(table, k, u) ==
    [table EXCEPT ![k] = [user |-> u, status |-> "active"]]

\* Mutants of AfterSelect: an existing row is not compared with the user; an
\* existing row is always a conflict.
SelectWithoutUserCheck(table, k, u) ==
    IF table[k] = NoRow THEN "insert" ELSE "update"

RetryRefused(table, k, u) ==
    IF table[k] = NoRow THEN "insert" ELSE "conflict"

\* What link() goes on to do, given the row its SELECT returned.
AfterSelect(table, k, u) ==
    CASE table[k] = NoRow    -> "insert"
      [] Bound(table, k, u)  -> "update"
      [] OTHER               -> "conflict"

\* Mutant of ActiveFor: the status is not read again.
LinkedFor(table, k, u) == Bound(table, k, u)

\* The row findById hands to the exchange is one it accepts.
ActiveFor(table, k, u) == Bound(table, k, u) /\ table[k].status = "active"
=============================================================================
