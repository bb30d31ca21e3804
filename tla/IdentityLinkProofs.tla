-------------------------- MODULE IdentityLinkProofs --------------------------
(***************************************************************************)
(* Theorems about IdentityLink, for any number of calls, identities and    *)
(* users.                                                                  *)
(***************************************************************************)
EXTENDS IdentityLink, TLAPS

\* A call that its SELECT sent to the UPDATE saw the link it asked for.
UpdateMeansBound ==
    \A l \in Linker :
        links[l].pc = "update" => Bound(identities, links[l].key, links[l].user)

IInv == TypeOK /\ UpdateMeansBound /\ OkMeansBound

\* The table with the row that a permitted INSERT adds is a table, has that
\* link, and every link it had.
LEMMA InsertAdds ==
    ASSUME identities \in Table, NEW k \in Key, NEW u \in User,
           ~ UniqueViolation(identities, k, u)
    PROVE  /\ InsertRow(identities, k, u) \in Table
           /\ Bound(InsertRow(identities, k, u), k, u)
           /\ \A j \in Key : identities[j] # NoRow =>
                  InsertRow(identities, k, u)[j] = identities[j]
<1>1. [user |-> u, status |-> "active"] \in Row
  BY DEF Row
<1> QED
  BY <1>1, NoRowIsNoRow DEF InsertRow, UniqueViolation, Bound, Table

\* What one call's step does to its record and to the table.
LEMMA StepEffect ==
    ASSUME TypeOK, NEW l \in Linker, Step(l)
    PROVE  /\ links[l] \in Call
           /\ links'[l] \in Call
           /\ links'[l].key = links[l].key
           /\ links'[l].user = links[l].user
           /\ \A m \in Linker \ {l} : links'[m] = links[m]
           /\ identities' \in Table
           /\ \A j \in Key : identities[j] # NoRow => identities'[j] = identities[j]
<1> USE DEF TypeOK
<1>1. links[l] \in Call
  BY DEF Step, Select, Update, Insert, Fail, LoseReply, Idle
<1>2. links[l].key \in Key /\ links[l].user \in User
  BY <1>1 DEF Call
<1>3. CASE Select(l)
  <2>1. AfterSelect(identities, links[l].key, links[l].user)
            \in {"insert", "update", "conflict"}
    BY DEF AfterSelect
  <2> QED
    BY <1>1, <1>3, <2>1 DEF Select, Call
<1>4. CASE Update(l)
  BY <1>1, <1>4 DEF Update, Call
<1>5. CASE Insert(l)
  BY <1>1, <1>2, <1>5, InsertAdds DEF Insert, Call
<1>6. CASE Fail(l)
  BY <1>1, <1>6 DEF Fail, Call
<1>7. CASE LoseReply(l)
  BY <1>1, <1>2, <1>7, InsertAdds DEF LoseReply, Call
<1> QED
  BY <1>3, <1>4, <1>5, <1>6, <1>7 DEF Step

\* An operator's revocation keeps every link.
LEMMA RevokeEffect ==
    ASSUME TypeOK, NEW k \in Key, Revoke(k)
    PROVE  /\ identities' \in Table
           /\ \A j \in Key : identities[j] # NoRow =>
                 /\ identities'[j] # NoRow
                 /\ identities'[j].user = identities[j].user
                 /\ identities[j].status = "revoked" =>
                        identities'[j].status = "revoked"
<1>1. identities[k] \in Row
  BY DEF TypeOK, Table, Revoke
<1>2. [identities[k] EXCEPT !.status = "revoked"] \in Row
  BY <1>1 DEF Row
<1>3. identities' = [identities EXCEPT ![k] = [identities[k] EXCEPT !.status = "revoked"]]
  BY DEF Revoke
<1>4. identities' \in Table
  BY <1>2, <1>3 DEF TypeOK, Table
<1> QED
  BY <1>1, <1>2, <1>3, <1>4, NoRowIsNoRow DEF TypeOK, Table, Row

\* Links are kept by every step, whoever takes it.
LEMMA LinksKept ==
    ASSUME TypeOK, [Next]_linkVars, NEW j \in Key, identities[j] # NoRow
    PROVE  /\ identities'[j] # NoRow
           /\ identities'[j].user = identities[j].user
           /\ identities[j].status = "revoked" => identities'[j].status = "revoked"
<1>1. ASSUME NEW l \in Linker, Step(l)
      PROVE  identities'[j] = identities[j]
  BY <1>1, StepEffect
<1>2. ASSUME NEW l \in Linker, NEW k \in Key, NEW u \in User, Begin(l, k, u)
      PROVE  identities'[j] = identities[j]
  BY <1>2 DEF Begin
<1>3. CASE UNCHANGED linkVars
  BY <1>3 DEF linkVars
<1> QED
  BY <1>1, <1>2, <1>3, RevokeEffect DEF Next

LEMMA Inductive == IInv /\ [Next]_linkVars => IInv'
<1> SUFFICES ASSUME IInv, [Next]_linkVars
             PROVE  IInv'
  OBVIOUS
<1> USE DEF IInv
<1>1. ASSUME NEW l \in Linker, links[l].pc \in {"update", "ok"},
             links'[l].key = links[l].key, links'[l].user = links[l].user
      PROVE  Bound(identities', links'[l].key, links'[l].user)
  <2>1. links[l] \in Call
    BY <1>1 DEF TypeOK, Idle
  <2>2. links[l].key \in Key /\ Bound(identities, links[l].key, links[l].user)
    BY <1>1, <2>1 DEF Call, UpdateMeansBound, OkMeansBound
  <2> QED
    BY <1>1, <2>2, LinksKept DEF Bound
<1>2. ASSUME NEW l \in Linker, Step(l)
      PROVE  IInv'
  <2>1. TypeOK'
    BY <1>2, StepEffect DEF TypeOK, Step, Select, Update, Insert, Fail, LoseReply
  <2>2. ASSUME NEW m \in Linker, links'[m].pc \in {"update", "ok"}
        PROVE  Bound(identities', links'[m].key, links'[m].user)
    <3>1. CASE m # l
      BY <1>1, <1>2, <2>2, <3>1, StepEffect
    <3>2. CASE m = l
      <4>1. links[l] \in Call /\ links[l].key \in Key /\ links[l].user \in User
        BY <1>2, StepEffect DEF Call
      <4>2. CASE Select(l)
        <5>1. AfterSelect(identities, links[l].key, links[l].user) = "update"
          BY <2>2, <3>2, <4>1, <4>2 DEF Select, TypeOK, Call, AfterSelect
        <5>2. Bound(identities, links[l].key, links[l].user)
          BY <5>1 DEF AfterSelect
        <5> QED
          BY <1>2, <3>2, <4>2, <5>2, StepEffect DEF Select
      <4>3. CASE Update(l)
        BY <1>1, <1>2, <3>2, <4>3, StepEffect DEF Update
      <4>4. CASE Insert(l)
        BY <1>2, <2>2, <3>2, <4>1, <4>4, StepEffect, InsertAdds
        DEF Insert, TypeOK, Call
      <4>5. CASE Fail(l) \/ LoseReply(l)
        BY <2>2, <3>2, <4>1, <4>5 DEF Fail, LoseReply, TypeOK, Call
      <4> QED
        BY <1>2, <4>2, <4>3, <4>4, <4>5 DEF Step
    <3> QED
      BY <3>1, <3>2
  <2> QED
    BY <2>1, <2>2 DEF UpdateMeansBound, OkMeansBound
<1>3. ASSUME NEW l \in Linker, NEW k \in Key, NEW u \in User, Begin(l, k, u)
      PROVE  IInv'
  <2>1. [pc |-> "select", key |-> k, user |-> u] \in Call
    BY DEF Call
  <2>2. TypeOK'
    BY <1>3, <2>1 DEF Begin, TypeOK
  <2>3. \A m \in Linker : links'[m].pc \in {"update", "ok"} => links'[m] = links[m]
    BY <1>3 DEF Begin, TypeOK
  <2>4. identities' = identities
    BY <1>3 DEF Begin
  <2> QED
    BY <2>2, <2>3, <2>4 DEF UpdateMeansBound, OkMeansBound
<1>4. ASSUME NEW k \in Key, Revoke(k)
      PROVE  IInv'
  <2>1. TypeOK'
    BY <1>4, RevokeEffect DEF Revoke, TypeOK
  <2>2. links' = links
    BY <1>4 DEF Revoke
  <2> QED
    BY <1>1, <2>1, <2>2 DEF UpdateMeansBound, OkMeansBound
<1>5. CASE UNCHANGED linkVars
  BY <1>5 DEF linkVars, TypeOK, UpdateMeansBound, OkMeansBound
<1> QED
  BY <1>2, <1>3, <1>4, <1>5 DEF Next

LEMMA Invariance == Spec => []IInv
<1>1. Init => IInv
  BY DEF Init, IInv, TypeOK, UpdateMeansBound, OkMeansBound, Idle
<1> QED
  BY <1>1, Inductive, PTL DEF Spec

\* The table and the calls keep their types.
THEOREM TypeCorrect == Spec => []TypeOK
<1>1. IInv => TypeOK
  BY DEF IInv
<1> QED
  BY <1>1, Invariance, PTL

\* link() that answered ok has linked the pair, for good.
THEOREM OkIsTrue == Spec => []OkMeansBound
<1>1. IInv => OkMeansBound
  BY DEF IInv
<1> QED
  BY <1>1, Invariance, PTL

\* No interleaving of link() calls moves or loses an identity, or reactivates a
\* revoked one.
THEOREM BindingsAreStable == Spec => BindingStable
<1> DEFINE Kept == \A k \in Key :
             identities[k] # NoRow =>
                 /\ identities'[k] # NoRow
                 /\ identities'[k].user = identities[k].user
                 /\ identities[k].status = "revoked" => identities'[k].status = "revoked"
<1>1. IInv /\ [Next]_linkVars => Kept
  BY LinksKept DEF IInv
<1> QED
  BY <1>1, Invariance, PTL DEF Spec, BindingStable

\* A call whose SELECT found no row, and that has since been overtaken by the
\* very link it asks for, was overtaken by a call for the same pair.
OvertakenBySame ==
    \A l \in Linker :
        /\ links[l].pc = "insert"
        /\ Bound(identities, links[l].key, links[l].user)
        => \E m \in Linker : SameRequest(l, m)

RefusedInv == OvertakenBySame /\ RefusalIsReal

LEMMA RefusedStep == TypeOK /\ RefusedInv /\ [Next]_linkVars => RefusedInv'
<1> SUFFICES ASSUME TypeOK, RefusedInv, [Next]_linkVars
             PROVE  RefusedInv'
  OBVIOUS
<1> USE DEF RefusedInv
<1>0. ASSUME NEW l \in Linker, links'[l] # links[l]
      PROVE  Step(l) \/ links'[l].pc = "select"
  <2>1. ASSUME NEW m \in Linker, Step(m)
        PROVE  Step(l)
    BY <1>0, <2>1, StepEffect
  <2>2. ASSUME NEW m \in Linker, NEW k \in Key, NEW u \in User, Begin(m, k, u)
        PROVE  links'[l].pc = "select"
    BY <1>0, <2>2 DEF Begin, TypeOK
  <2> QED
    BY <1>0, <2>1, <2>2 DEF Next, Revoke, linkVars
\* A call past its start keeps its pair, and its result.
<1>1. ASSUME NEW l \in Linker, links[l] # Idle
      PROVE  /\ links'[l].key = links[l].key
             /\ links'[l].user = links[l].user
             /\ links[l].pc \in {"ok", "failed", "refused"} => links'[l] = links[l]
  <2>1. ASSUME NEW m \in Linker, Step(m)
        PROVE  /\ links'[l].key = links[l].key
               /\ links'[l].user = links[l].user
               /\ links[l].pc \in {"ok", "failed", "refused"} => links'[l] = links[l]
    <3>1. m = l => links[l].pc \notin {"ok", "failed", "refused"}
      BY <2>1 DEF Step, Select, Update, Insert, Fail, LoseReply
    <3> QED
      BY <2>1, <3>1, StepEffect
  <2>2. ASSUME NEW m \in Linker, NEW k \in Key, NEW u \in User, Begin(m, k, u)
        PROVE  links'[l] = links[l]
    BY <1>1, <2>2 DEF Begin, TypeOK
  <2> QED
    BY <2>1, <2>2 DEF Next, Revoke, linkVars
<1>2. ASSUME NEW l \in Linker, NEW m \in Linker, SameRequest(l, m), links[l] # Idle
      PROVE  SameRequest(l, m)'
  <2>1. links[m] # Idle
    BY <1>2 DEF SameRequest, Idle
  <2> QED
    BY <1>1, <1>2, <2>1 DEF SameRequest
\* Rows keep their users.
<1>3. \A k \in Key, u \in User : Bound(identities, k, u) => Bound(identities, k, u)'
  BY LinksKept DEF Bound
<1>4. ASSUME NEW l \in Linker, links[l].pc \in {"insert", "refused", "select"}
      PROVE  links[l] # Idle /\ links[l].key \in Key /\ links[l].user \in User
  BY <1>4 DEF TypeOK, Idle, Call
\* A row that was not there was inserted by a call that is over.
<1>5. ASSUME NEW l \in Linker, links[l].pc = "insert", links'[l].pc = "insert",
             ~ Bound(identities, links[l].key, links[l].user),
             Bound(identities, links[l].key, links[l].user)'
      PROVE  \E m \in Linker : SameRequest(l, m)'
  <2> DEFINE k == links[l].key
             u == links[l].user
  <2>1. k \in Key /\ u \in User /\ links'[l].key = k /\ links'[l].user = u
    BY <1>1, <1>4, <1>5
  <2>2. PICK m \in Linker : /\ Insert(m) \/ LoseReply(m)
                            /\ identities' # identities
    <3>1. ASSUME NEW j \in Key, Revoke(j)
          PROVE  FALSE
      BY <1>5, <2>1, <3>1 DEF Revoke, Bound, TypeOK, Table, Row
    <3> QED
      BY <1>5, <2>1, <3>1
      DEF Next, Step, Select, Update, Insert, Fail, LoseReply, Begin, linkVars, Bound
  <2>3. /\ links[m] \in Call
        /\ links'[m].pc \in {"ok", "failed"}
        /\ identities' = InsertRow(identities, links[m].key, links[m].user)
    BY <2>2 DEF Insert, LoseReply, TypeOK, Call, Idle
  <2>4. links[m].key = k /\ links[m].user = u
    BY <1>5, <2>1, <2>3 DEF InsertRow, Bound, TypeOK, Table, Call
  <2>5. links'[m].key = k /\ links'[m].user = u /\ m # l
    BY <1>1, <1>5, <2>3, <2>4 DEF Call, Idle
  <2> QED
    BY <2>1, <2>3, <2>5 DEF SameRequest
<1>6. OvertakenBySame'
  <2> SUFFICES ASSUME NEW l \in Linker, links'[l].pc = "insert",
                      Bound(identities, links[l].key, links[l].user)'
               PROVE  \E m \in Linker : SameRequest(l, m)'
    BY DEF OvertakenBySame
  <2>1. CASE links[l].pc = "insert"
    <3>1. links'[l].key = links[l].key /\ links'[l].user = links[l].user
      BY <1>1, <1>4, <2>1
    <3>2. CASE Bound(identities, links[l].key, links[l].user)
      BY <1>2, <1>4, <2>1, <3>2 DEF OvertakenBySame
    <3> QED
      BY <1>5, <2>1, <3>1, <3>2
  <2>2. CASE links[l].pc # "insert"
    <3>1. Select(l)
      <4>1. Step(l) /\ links[l] \in Call
        BY <1>0, <2>2, StepEffect
      <4> QED
        BY <2>2, <4>1 DEF Step, Update, Insert, Fail, LoseReply, TypeOK, Call
    <3>2. identities[links[l].key] = NoRow /\ identities' = identities
      BY <2>2, <3>1 DEF Select, AfterSelect, TypeOK
    <3>3. links'[l].key = links[l].key
      BY <1>1, <1>4, <3>1 DEF Select
    <3> QED
      BY <3>2, <3>3 DEF Bound
  <2> QED
    BY <2>1, <2>2
<1>7. RefusalIsReal'
  <2> DEFINE Real(l) ==
               \/ \E v \in User \ {links[l].user} : Bound(identities, links[l].key, v)
               \/ \E k \in Key \ {links[l].key} : Bound(identities, k, links[l].user)
               \/ \E m \in Linker : SameRequest(l, m)
  <2> SUFFICES ASSUME NEW l \in Linker, links'[l].pc = "refused"
               PROVE  Real(l)'
    BY DEF RefusalIsReal
  <2>1. ASSUME links[l].pc \in {"select", "insert", "refused"}, Real(l)
        PROVE  Real(l)'
    <3>1. /\ links[l] # Idle
          /\ links[l].key \in Key /\ links[l].user \in User
          /\ links'[l].key = links[l].key
          /\ links'[l].user = links[l].user
      BY <1>1, <1>4, <2>1
    <3> QED
      BY <1>2, <1>3, <2>1, <3>1
  <2>2. CASE links[l].pc = "refused"
    BY <2>1, <2>2 DEF RefusalIsReal
  <2>3. CASE links[l].pc # "refused"
    <3>1. Select(l) \/ Insert(l)
      <4>1. Step(l) /\ links[l] \in Call
        BY <1>0, <2>3, StepEffect
      <4> QED
        BY <2>3, <4>1 DEF Step, Update, Fail, LoseReply, TypeOK, Call
    <3>2. links[l].pc \in {"select", "insert"}
      BY <3>1 DEF Select, Insert
    <3>3. links[l].key \in Key /\ links[l].user \in User
      BY <1>4, <3>2
    <3>4. CASE Select(l)
      <4>1. AfterSelect(identities, links[l].key, links[l].user) = "conflict"
        BY <2>3, <3>4 DEF Select, AfterSelect, TypeOK
      <4>2. /\ identities[links[l].key] # NoRow
            /\ ~ Bound(identities, links[l].key, links[l].user)
        BY <4>1 DEF AfterSelect
      <4>3. identities[links[l].key] \in Row
        BY <3>3, <4>2 DEF TypeOK, Table
      <4>4. Real(l)
        BY <3>3, <4>2, <4>3 DEF Bound, Row
      <4> QED
        BY <2>1, <3>2, <4>4
    <3>5. CASE Insert(l)
      <4>1. UniqueViolation(identities, links[l].key, links[l].user)
        <5>1. links[l] \in Call
          BY <3>5, StepEffect DEF Step
        <5> QED
          BY <3>5, <5>1 DEF Insert, TypeOK, Call
      <4>2. CASE Bound(identities, links[l].key, links[l].user)
        BY <2>1, <3>2, <3>5, <4>2 DEF OvertakenBySame, Insert
      <4>3. CASE ~ Bound(identities, links[l].key, links[l].user)
        <5>1. CASE identities[links[l].key] # NoRow
          <6>1. identities[links[l].key] \in Row
            BY <3>3, <5>1 DEF TypeOK, Table
          <6>2. Real(l)
            BY <3>3, <4>3, <5>1, <6>1 DEF Bound, Row
          <6> QED
            BY <2>1, <3>2, <6>2
        <5>2. CASE identities[links[l].key] = NoRow
          <6>1. Real(l)
            BY <4>1, <5>2 DEF UniqueViolation, HasIdentity, Bound
          <6> QED
            BY <2>1, <3>2, <6>1
        <5> QED
          BY <5>1, <5>2
      <4> QED
        BY <4>2, <4>3
    <3> QED
      BY <3>1, <3>4, <3>5
  <2> QED
    BY <2>2, <2>3
<1> QED
  BY <1>6, <1>7

\* already_linked has a cause, for any number of concurrent calls.
THEOREM RefusalsAreReal == Spec => []RefusalIsReal
<1>1. Init => RefusedInv
  BY DEF Init, RefusedInv, OvertakenBySame, RefusalIsReal, Idle
<1>2. RefusedInv => RefusalIsReal
  BY DEF RefusedInv
<1> QED
  BY <1>1, <1>2, RefusedStep, TypeCorrect, PTL DEF Spec

----------------------------------------------------------------------------
\* Call l asks again for a link that is in the table.
IsRetry(l) ==
    /\ links[l].pc = "select"
    /\ Bound(identities, links[l].key, links[l].user)

\* It can only end well, or without an answer.
OnItsWay(l) ==
    /\ links[l].pc \in {"select", "update", "ok", "failed"}
    /\ Bound(identities, links[l].key, links[l].user)

LEMMA RetryStep ==
    ASSUME NEW l \in Linker
    PROVE  TypeOK /\ OnItsWay(l) /\ [Next]_linkVars => OnItsWay(l)'
<1> SUFFICES ASSUME TypeOK, OnItsWay(l), [Next]_linkVars
             PROVE  OnItsWay(l)'
  OBVIOUS
<1>1. links[l] \in Call /\ links[l].key \in Key
  BY DEF TypeOK, OnItsWay, Idle, Call
<1>2. \A u \in User : Bound(identities, links[l].key, u) => Bound(identities', links[l].key, u)
  BY <1>1, LinksKept DEF Bound
<1>3. CASE links'[l] = links[l]
  BY <1>1, <1>2, <1>3 DEF OnItsWay, Call
<1>4. CASE Step(l)
  <2>1. links'[l].key = links[l].key /\ links'[l].user = links[l].user
    BY <1>4, StepEffect
  <2>2. links'[l].pc \in {"select", "update", "ok", "failed"}
    <3>1. AfterSelect(identities, links[l].key, links[l].user) = "update"
      BY NoRowIsNoRow DEF OnItsWay, AfterSelect, Bound
    <3> QED
      BY <1>1, <1>4, <3>1
      DEF Step, Select, Update, Insert, Fail, LoseReply, TypeOK, OnItsWay, Call
  <2> QED
    BY <1>1, <1>2, <2>1, <2>2 DEF OnItsWay, Call
<1>5. links'[l] = links[l] \/ Step(l)
  <2>1. ASSUME NEW m \in Linker, NEW k \in Key, NEW u \in User, Begin(m, k, u)
        PROVE  links'[l] = links[l]
    BY <1>1, <2>1 DEF Begin, TypeOK, Idle, Call
  <2>2. ASSUME NEW m \in Linker \ {l}, Step(m)
        PROVE  links'[l] = links[l]
    BY <2>2, StepEffect
  <2> QED
    BY <2>1, <2>2 DEF Next, Revoke, linkVars
<1> QED
  BY <1>3, <1>4, <1>5

\* The safety part of RetrySucceeds: a retry of a link that is in the table is
\* never refused, whatever runs between its statements.
THEOREM RetriesAreNotRefused ==
    \A l \in Linker : Spec => [](IsRetry(l) => [](links[l].pc # "refused"))
<1> SUFFICES ASSUME NEW l \in Linker
             PROVE  Spec => [](IsRetry(l) => [](links[l].pc # "refused"))
  OBVIOUS
<1>1. IsRetry(l) => OnItsWay(l)
  BY DEF IsRetry, OnItsWay
<1>2. OnItsWay(l) => links[l].pc # "refused"
  BY DEF OnItsWay
<1>3. TypeOK /\ OnItsWay(l) /\ [Next]_linkVars => OnItsWay(l)'
  BY RetryStep
<1> QED
  BY <1>1, <1>2, <1>3, TypeCorrect, PTL DEF Spec
=============================================================================
