--------------------------- MODULE RedemptionProofs ---------------------------
(***************************************************************************)
(* Theorems about Redemption, for any number of grants, requests, clients  *)
(* and identities.                                                         *)
(***************************************************************************)
EXTENDS Redemption, TLAPS

\* A request that took a grant out of Redis left it spent.
ClaimedIsSpent ==
    \A e \in Exchange : exchanges[e] # Idle => grants[exchanges[e].grant] = Spent

\* No grant was taken out of Redis by two requests.
OneClaimPerGrant ==
    \A e, f \in Exchange :
        /\ exchanges[e] # Idle
        /\ exchanges[f] # Idle
        /\ exchanges[e].grant = exchanges[f].grant
        => e = f

\* Every token is the one its request signs, from the payload it took.
TokensAreSigned ==
    \A t \in tokens :
        /\ t.jti \in Exchange
        /\ exchanges[t.jti].pc = "minted"
        /\ t = TokenFor(t.jti, exchanges[t.jti].payload)

IInv == TypeOK /\ ClaimedIsSpent /\ OneClaimPerGrant /\ TokensAreSigned

----------------------------------------------------------------------------
\* Redis, the requests and the table keep their types.
LEMMA TypeInvariant == Spec => []TypeOK
<1>1. Init => TypeOK
  BY DEF Init, TypeOK
<1>2. TypeOK /\ [Next]_vars => TypeOK'
  <2> SUFFICES ASSUME TypeOK, [Next]_vars
               PROVE  TypeOK'
    OBVIOUS
  <2> USE DEF TypeOK
  <2>1. ASSUME NEW g \in Grant, NEW p \in Payload, Issue(g, p)
        PROVE  TypeOK'
    BY <2>1 DEF Issue
  <2>2. ASSUME NEW g \in Grant, ExpireGrant(g)
        PROVE  TypeOK'
    BY <2>2 DEF ExpireGrant
  <2>3. ASSUME NEW e \in Exchange, NEW g \in Grant, NEW kind \in {"code", "ticket"},
               NEW client \in Client, NEW uri \in RedirectUri,
               Redeem(e, g, kind, client, uri)
        PROVE  TypeOK'
    <3>1. grants[g] \in Payload
      BY <2>3 DEF Redeem, Redeemable
    <3>2. grants[g].kind \in {"code", "ticket"}
      BY <3>1 DEF Payload
    <3>3. AfterConsume(grants[g], client, uri) \in {"mismatch", "lookup", "sign"}
      BY <3>2 DEF AfterConsume
    <3>4. [pc |-> AfterConsume(grants[g], client, uri), grant |-> g,
           payload |-> grants[g]] \in Taken
      BY <3>1, <3>3 DEF Taken
    <3> QED
      BY <2>3, <3>4 DEF Redeem, Consume
  <2>4. ASSUME NEW e \in Exchange, Lookup(e)
        PROVE  TypeOK'
    <3>1. exchanges[e] \in Taken
      BY <2>4 DEF Lookup, Idle
    <3> QED
      BY <2>4, <3>1 DEF Lookup, Taken
  <2>5. ASSUME NEW e \in Exchange, Sign(e)
        PROVE  TypeOK'
    <3>1. exchanges[e] \in Taken
      BY <2>5 DEF Sign, Idle
    <3>2. TokenFor(e, exchanges[e].payload) \in Token
      BY <3>1 DEF TokenFor, Token, Taken, Payload
    <3> QED
      BY <2>5, <3>1, <3>2 DEF Sign, Taken
  <2>6. ASSUME NEW e \in Exchange, Abort(e)
        PROVE  TypeOK'
    <3>1. exchanges[e] \in Taken
      BY <2>6 DEF Abort, Idle
    <3> QED
      BY <2>6, <3>1 DEF Abort, Taken
  <2>7. ASSUME NEW k \in Key, NEW u \in User, LinkIdentity(k, u)
        PROVE  TypeOK'
    BY <2>7 DEF LinkIdentity, InsertRow, Table, Row
  <2>8. ASSUME NEW k \in Key, Revoke(k)
        PROVE  TypeOK'
    <3>1. identities[k] \in Row
      BY <2>8 DEF Revoke, Table
    <3> QED
      BY <2>8, <3>1 DEF Revoke, Table, Row
  <2>9. CASE UNCHANGED vars
    BY <2>9 DEF vars
  <2> QED
    BY <2>1, <2>2, <2>3, <2>4, <2>5, <2>6, <2>7, <2>8, <2>9 DEF Next
<1> QED
  BY <1>1, <1>2, PTL DEF Spec

\* Taking a grant out of Redis spends it, and nothing puts it back, so two
\* requests never hold the same grant and a token is signed once.
LEMMA Inductive == IInv /\ TypeOK' /\ [Next]_vars => IInv'
<1> SUFFICES ASSUME IInv, TypeOK', [Next]_vars
             PROVE  ClaimedIsSpent' /\ OneClaimPerGrant' /\ TokensAreSigned'
  BY DEF IInv
<1> USE DEF IInv, ClaimedIsSpent, OneClaimPerGrant, TokensAreSigned
<1>1. ASSUME NEW g \in Grant, NEW p \in Payload, Issue(g, p)
      PROVE  ClaimedIsSpent' /\ OneClaimPerGrant' /\ TokensAreSigned'
  <2>1. \A e \in Exchange : exchanges[e] # Idle => exchanges[e].grant # g
    BY <1>1, GrantMarksDiffer DEF Issue
  <2> QED
    BY <1>1, <2>1 DEF Issue, TypeOK
<1>2. ASSUME NEW g \in Grant, ExpireGrant(g)
      PROVE  ClaimedIsSpent' /\ OneClaimPerGrant' /\ TokensAreSigned'
  BY <1>2 DEF ExpireGrant, TypeOK
<1>3. ASSUME NEW e \in Exchange, NEW g \in Grant, NEW kind \in {"code", "ticket"},
             NEW client \in Client, NEW uri \in RedirectUri,
             Redeem(e, g, kind, client, uri)
      PROVE  ClaimedIsSpent' /\ OneClaimPerGrant' /\ TokensAreSigned'
  <2>1. grants[g] \in Payload /\ grants[g] # Spent
    BY <1>3, GrantMarksDiffer DEF Redeem, Redeemable
  <2>2. \A f \in Exchange : exchanges[f] # Idle => exchanges[f].grant # g
    BY <2>1
  <2>3. /\ exchanges'[e].grant = g
        /\ \A f \in Exchange \ {e} : exchanges'[f] = exchanges[f]
        /\ grants' = [grants EXCEPT ![g] = Spent]
    BY <1>3 DEF Redeem, Consume, TypeOK
  <2>4. \A t \in tokens : t.jti # e
    BY <1>3 DEF Redeem, Idle
  <2> QED
    BY <1>3, <2>2, <2>3, <2>4 DEF Redeem, TypeOK
<1>4. ASSUME NEW e \in Exchange, Lookup(e) \/ Abort(e)
      PROVE  ClaimedIsSpent' /\ OneClaimPerGrant' /\ TokensAreSigned'
  <2>1. exchanges[e] \in Taken /\ exchanges[e].pc \in {"lookup", "sign"}
    BY <1>4 DEF Lookup, Abort, TypeOK, Idle
  <2>2. /\ exchanges'[e].grant = exchanges[e].grant
        /\ \A f \in Exchange \ {e} : exchanges'[f] = exchanges[f]
    BY <1>4, <2>1 DEF Lookup, Abort, TypeOK, Taken
  <2>3. exchanges[e] # Idle
    BY <2>1 DEF Idle
  <2>4. \A t \in tokens : t.jti # e
    BY <2>1
  <2> QED
    BY <1>4, <2>2, <2>3, <2>4 DEF Lookup, Abort, TypeOK
<1>5. ASSUME NEW e \in Exchange, Sign(e)
      PROVE  ClaimedIsSpent' /\ OneClaimPerGrant' /\ TokensAreSigned'
  <2>1. exchanges[e] \in Taken /\ exchanges[e] # Idle
    BY <1>5 DEF Sign, TypeOK, Idle
  <2>2. /\ exchanges'[e].grant = exchanges[e].grant
        /\ exchanges'[e].payload = exchanges[e].payload
        /\ exchanges'[e].pc = "minted"
        /\ \A f \in Exchange \ {e} : exchanges'[f] = exchanges[f]
    BY <1>5, <2>1 DEF Sign, TypeOK, Taken
  <2>3. TokenFor(e, exchanges[e].payload).jti = e
    BY DEF TokenFor
  <2>4. \A t \in tokens : t.jti # e
    BY <1>5 DEF Sign
  <2>5. ClaimedIsSpent' /\ OneClaimPerGrant'
    BY <1>5, <2>1, <2>2 DEF Sign
  <2>6. ASSUME NEW t \in tokens'
        PROVE  /\ t.jti \in Exchange
               /\ exchanges'[t.jti].pc = "minted"
               /\ t = TokenFor(t.jti, exchanges'[t.jti].payload)
    <3>1. CASE t \in tokens
      BY <2>2, <2>4, <3>1
    <3>2. CASE t = TokenFor(e, exchanges[e].payload)
      BY <2>2, <2>3, <3>2
    <3> QED
      BY <1>5, <2>6, <3>1, <3>2 DEF Sign
  <2> QED
    BY <2>5, <2>6
<1>6. ASSUME NEW k \in Key, NEW u \in User, LinkIdentity(k, u)
      PROVE  ClaimedIsSpent' /\ OneClaimPerGrant' /\ TokensAreSigned'
  BY <1>6 DEF LinkIdentity
<1>7. ASSUME NEW k \in Key, Revoke(k)
      PROVE  ClaimedIsSpent' /\ OneClaimPerGrant' /\ TokensAreSigned'
  BY <1>7 DEF Revoke
<1>8. CASE UNCHANGED vars
  BY <1>8 DEF vars
<1> QED
  BY <1>1, <1>2, <1>3, <1>4, <1>5, <1>6, <1>7, <1>8 DEF Next

LEMMA Invariance == Spec => []IInv
<1>1. Init => IInv
  BY DEF Init, IInv, TypeOK, ClaimedIsSpent, OneClaimPerGrant, TokensAreSigned
<1> QED
  BY <1>1, Inductive, TypeInvariant, PTL DEF Spec

\* No authorization code or registration ticket yields two tokens.
THEOREM OneToken == Spec => []OneTokenPerGrant
<1>1. IInv => OneTokenPerGrant
  BY DEF IInv, OneTokenPerGrant, TokensAreSigned, OneClaimPerGrant, Idle
<1> QED
  BY <1>1, Invariance, PTL

----------------------------------------------------------------------------
\* Codes and tickets keep the promise of SingleUse: each is claimed by one
\* request, even one that goes on to fail, or lapses.
THEOREM Refinement == Spec => ImplementsSingleUse
<1> DEFINE live == {g \in Grant : grants[g] \in Payload}
           spent == {g \in Grant : grants[g] = Spent}
           claims == {<<e, exchanges[e].grant>> :
                         e \in {x \in Exchange : exchanges[x] # Idle}}
<1>1. Init => Promise!Init
  BY GrantMarksDiffer DEF Init, Promise!Init
<1>2. IInv /\ [Next]_vars => [Promise!Next]_(Promise!vars)
  <2> SUFFICES ASSUME IInv, [Next]_vars
               PROVE  Promise!Next \/ UNCHANGED <<live, spent, claims>>
    BY DEF Promise!vars
  <2> USE DEF IInv, TypeOK
  <2>1. ASSUME NEW g \in Grant, NEW p \in Payload, Issue(g, p)
        PROVE  Promise!Issue(g)
    <3>1. g \notin live \cup spent
      BY <2>1, GrantMarksDiffer DEF Issue
    <3>2. live' = live \cup {g} /\ spent' = spent
      BY <2>1, GrantMarksDiffer DEF Issue
    <3>3. claims' = claims
      BY <2>1 DEF Issue
    <3> QED
      BY <3>1, <3>2, <3>3 DEF Promise!Issue
  <2>2. ASSUME NEW g \in Grant, ExpireGrant(g)
        PROVE  Promise!Lapse(g)
    <3>1. g \in live
      BY <2>2 DEF ExpireGrant
    <3>2. live' = live \ {g} /\ spent' = spent \cup {g}
      BY <2>2, GrantMarksDiffer DEF ExpireGrant
    <3>3. claims' = claims
      BY <2>2 DEF ExpireGrant
    <3> QED
      BY <3>1, <3>2, <3>3 DEF Promise!Lapse
  <2>3. ASSUME NEW e \in Exchange, NEW g \in Grant, NEW kind \in {"code", "ticket"},
               NEW client \in Client, NEW uri \in RedirectUri,
               Redeem(e, g, kind, client, uri)
        PROVE  Promise!Claim(e, g)
    <3>1. g \in live
      BY <2>3 DEF Redeem, Redeemable
    <3>2. live' = live \ {g} /\ spent' = spent \cup {g}
      BY <2>3, GrantMarksDiffer DEF Redeem, Consume
    <3>3. /\ exchanges'[e] # Idle
          /\ exchanges'[e].grant = g
          /\ \A f \in Exchange \ {e} : exchanges'[f] = exchanges[f]
      <4>1. exchanges'[e] = [pc |-> AfterConsume(grants[g], client, uri),
                             grant |-> g, payload |-> grants[g]]
        BY <2>3 DEF Redeem
      <4> QED
        BY <2>3, <4>1 DEF Redeem, Idle
    <3>4. exchanges[e] = Idle
      BY <2>3 DEF Redeem
    <3>5. \A p \in claims : p[1] # e
      BY <3>4
    <3>6. claims' = claims \cup {<<e, g>>}
      BY <3>3, <3>4
    <3> QED
      BY <3>1, <3>2, <3>5, <3>6 DEF Promise!Claim
  <2>4. ASSUME NEW e \in Exchange, Lookup(e) \/ Sign(e) \/ Abort(e)
        PROVE  UNCHANGED <<live, spent, claims>>
    <3>1. exchanges[e] \in Taken /\ exchanges[e] # Idle
      BY <2>4 DEF Lookup, Sign, Abort, Idle
    <3>2. /\ exchanges'[e] # Idle
          /\ exchanges'[e].grant = exchanges[e].grant
          /\ \A f \in Exchange \ {e} : exchanges'[f] = exchanges[f]
      BY <2>4, <3>1 DEF Lookup, Sign, Abort, Taken, Idle
    <3>3. claims' = claims
      BY <3>1, <3>2
    <3> QED
      BY <2>4, <3>3 DEF Lookup, Sign, Abort
  <2>5. ASSUME NEW k \in Key, NEW u \in User, LinkIdentity(k, u)
        PROVE  UNCHANGED <<live, spent, claims>>
    BY <2>5 DEF LinkIdentity
  <2>6. ASSUME NEW k \in Key, Revoke(k)
        PROVE  UNCHANGED <<live, spent, claims>>
    BY <2>6 DEF Revoke
  <2>7. CASE UNCHANGED vars
    BY <2>7 DEF vars
  <2> QED
    BY <2>1, <2>2, <2>3, <2>4, <2>5, <2>6, <2>7 DEF Next, Promise!Next
<1> QED
  BY <1>1, <1>2, Invariance, PTL DEF Spec, ImplementsSingleUse, Promise!Spec

----------------------------------------------------------------------------
\* A linked identity stays its user's, and a revoked one stays revoked.
LEMMA RowsStay ==
    ASSUME TypeOK, [Next]_vars, NEW k \in Key
    PROVE  /\ \A u \in User : Bound(identities, k, u) => Bound(identities', k, u)
           /\ (identities[k] # NoRow /\ identities[k].status = "revoked")
                => (identities'[k] # NoRow /\ identities'[k].status = "revoked")
<1> USE DEF Bound
<1>1. ASSUME NEW j \in Key, NEW u \in User, LinkIdentity(j, u)
      PROVE  identities[k] # NoRow => identities'[k] = identities[k]
  BY <1>1 DEF LinkIdentity, UniqueViolation, InsertRow, TypeOK, Table
<1>2. ASSUME NEW j \in Key, Revoke(j), identities[k] # NoRow
      PROVE  /\ identities'[k] # NoRow
             /\ identities'[k].user = identities[k].user
             /\ identities[k].status = "revoked" => identities'[k].status = "revoked"
  <2>1. identities[k] \in Row /\ identities[j] \in Row
    BY <1>2 DEF Revoke, TypeOK, Table
  <2>2. identities'[k] \in Row
    BY <1>2, <2>1 DEF Revoke, TypeOK, Table, Row
  <2> QED
    BY <1>2, <2>1, <2>2, NoRowIsNoRow DEF Revoke, TypeOK, Table, Row
<1>3. CASE UNCHANGED identities
  BY <1>3
<1> QED
  BY <1>1, <1>2, <1>3
  DEF Next, vars, Issue, ExpireGrant, Redeem, Lookup, Sign, Abort

\* The code or ticket g is out of Redis and no request can turn it into a token.
Over(g) ==
    /\ grants[g] = Spent
    /\ \A e \in Exchange :
          exchanges[e] # Idle /\ exchanges[e].grant = g =>
              exchanges[e].pc \in {"mismatch", "inactive", "aborted"}

NoTokenOf(g) == \A t \in tokens : exchanges[t.jti].grant # g

\* Once the identity of a code that nobody looked up is revoked, the code
\* stays worthless.
LEMMA DeadStaysDead ==
    ASSUME IInv, IInv', [Next]_vars, NEW g \in Grant, Doomed(g) \/ Over(g)
    PROVE  Doomed(g)' \/ Over(g)'
<1> USE DEF IInv, TypeOK
<1>1. \A p \in Payload : IsRevoked(p) => IsRevoked(p)'
  <2> TAKE p \in Payload
  <2>1. p.key \in Key
    BY DEF Payload
  <2> QED
    BY <2>1, RowsStay DEF IsRevoked
<1>2. CASE Redeemable(g, "code") /\ IsRevoked(grants[g])
  <2>1. \A e \in Exchange : exchanges[e] # Idle => exchanges[e].grant # g
    BY <1>2, GrantMarksDiffer DEF Redeemable, ClaimedIsSpent
  <2>2. CASE grants'[g] = grants[g]
    BY <1>1, <1>2, <2>2 DEF Redeemable, Doomed
  <2>3. ASSUME ExpireGrant(g)
        PROVE  Over(g)'
    BY <2>1, <2>3 DEF ExpireGrant, Over
  <2>4. ASSUME NEW e \in Exchange, NEW kind \in {"code", "ticket"},
               NEW client \in Client, NEW uri \in RedirectUri,
               Redeem(e, g, kind, client, uri)
        PROVE  Doomed(g)' \/ Over(g)'
    <3>1. /\ exchanges'[e] = [pc |-> AfterConsume(grants[g], client, uri),
                              grant |-> g, payload |-> grants[g]]
          /\ \A f \in Exchange \ {e} : exchanges'[f] = exchanges[f]
          /\ grants'[g] = Spent
          /\ identities' = identities
      BY <2>4 DEF Redeem, Consume
    <3>2. AfterConsume(grants[g], client, uri) \in {"mismatch", "lookup"}
      BY <1>2 DEF AfterConsume, Redeemable
    <3>3. CASE AfterConsume(grants[g], client, uri) = "lookup"
      BY <1>1, <1>2, <3>1, <3>3 DEF Doomed, Redeemable
    <3>4. CASE AfterConsume(grants[g], client, uri) = "mismatch"
      BY <2>1, <3>1, <3>4 DEF Over
    <3> QED
      BY <3>2, <3>3, <3>4
  <2> QED
    BY <1>2, <2>2, <2>3, <2>4, GrantMarksDiffer
    DEF Next, vars, Issue, ExpireGrant, Redeem, Consume, Redeemable, Lookup, Sign,
        Abort, LinkIdentity, Revoke
<1>3. ASSUME NEW e \in Exchange, exchanges[e].pc = "lookup", exchanges[e].grant = g,
             IsRevoked(exchanges[e].payload)
      PROVE  Doomed(g)' \/ Over(g)'
  <2>1. exchanges[e] \in Taken /\ exchanges[e] # Idle
    BY <1>3 DEF Idle
  <2>2. grants[g] = Spent
    BY <1>3, <2>1 DEF ClaimedIsSpent
  <2>3. IsRevoked(exchanges[e].payload)'
            \/ exchanges'[e] # exchanges[e]
    BY <1>1, <1>3, <2>1 DEF Taken, IsRevoked
  <2>4. CASE exchanges'[e] = exchanges[e]
    BY <1>3, <2>3, <2>4 DEF Doomed
  <2>5. CASE Lookup(e) \/ Abort(e)
    <3>1. exchanges[e].payload.key \in Key
      BY <2>1 DEF Taken, Payload
    <3>2. ~ ActiveFor(identities, exchanges[e].payload.key, exchanges[e].payload.user)
      BY <1>3 DEF ActiveFor, Bound, IsRevoked
    <3>3. exchanges'[e].pc \in {"inactive", "aborted"}
      BY <2>1, <2>5, <3>2 DEF Lookup, Abort, Taken
    <3>4. exchanges'[e].grant = g /\ exchanges'[e] # Idle
      BY <1>3, <2>1, <2>5, <3>3 DEF Lookup, Abort, Taken, Idle
    <3>5. \A f \in Exchange : exchanges'[f] # Idle /\ exchanges'[f].grant = g => f = e
      BY <3>4 DEF OneClaimPerGrant
    <3>6. grants'[g] = Spent
      BY <2>2, <2>5 DEF Lookup, Abort
    <3> QED
      BY <3>3, <3>5, <3>6 DEF Over
  <2> QED
    BY <1>3, <2>1, <2>4, <2>5
    DEF Next, vars, Issue, ExpireGrant, Redeem, Lookup, Sign, Abort, LinkIdentity,
        Revoke
<1>4. CASE Over(g)
  <2>1. grants'[g] = Spent
    BY <1>4, GrantMarksDiffer
    DEF Over, Next, vars, Issue, ExpireGrant, Redeem, Consume, Redeemable, Lookup,
        Sign, Abort, LinkIdentity, Revoke
  <2>2. ASSUME NEW e \in Exchange, exchanges'[e] # Idle, exchanges'[e].grant = g
        PROVE  exchanges'[e].pc \in {"mismatch", "inactive", "aborted"}
    <3>1. ASSUME exchanges'[e] = exchanges[e]
          PROVE  exchanges[e].pc \in {"mismatch", "inactive", "aborted"}
      BY <1>4, <2>2, <3>1 DEF Over
    <3>2. ASSUME NEW h \in Grant, NEW kind \in {"code", "ticket"},
                 NEW client \in Client, NEW uri \in RedirectUri,
                 Redeem(e, h, kind, client, uri)
          PROVE  FALSE
      <4>1. h = g
        BY <2>2, <3>2 DEF Redeem
      <4> QED
        BY <1>4, <3>2, <4>1, GrantMarksDiffer DEF Over, Redeem, Redeemable
    <3>3. ASSUME Lookup(e) \/ Sign(e) \/ Abort(e)
          PROVE  FALSE
      <4>1. exchanges[e] \in Taken /\ exchanges[e] # Idle
        BY <3>3 DEF Lookup, Sign, Abort, Idle
      <4>2. exchanges[e].grant = g
        BY <2>2, <3>3, <4>1 DEF Lookup, Sign, Abort, Taken
      <4> QED
        BY <1>4, <3>3, <4>1, <4>2 DEF Over, Lookup, Sign, Abort
    <3> QED
      BY <3>1, <3>2, <3>3
      DEF Next, vars, Issue, ExpireGrant, Redeem, Lookup, Sign, Abort, LinkIdentity,
          Revoke
  <2> QED
    BY <2>1, <2>2 DEF Over
<1> QED
  BY <1>2, <1>3, <1>4 DEF Doomed

\* A code whose identity is revoked before a redemption looks yields no token.
THEOREM RevokedCode == Spec => RevokedCodeIsDead
<1>1. ASSUME NEW g \in Grant
      PROVE  Spec => [](Doomed(g) => []NoTokenOf(g))
  <2>1. IInv /\ (Doomed(g) \/ Over(g)) => NoTokenOf(g)
    BY GrantMarksDiffer
    DEF IInv, Doomed, Over, NoTokenOf, TokensAreSigned, ClaimedIsSpent,
        OneClaimPerGrant, Redeemable, Idle
  <2>2. IInv /\ IInv' /\ [Next]_vars /\ (Doomed(g) \/ Over(g))
            => (Doomed(g) \/ Over(g))'
    BY DeadStaysDead
  <2> QED
    BY <2>1, <2>2, Invariance, PTL DEF Spec
<1> QED
  BY <1>1 DEF RevokedCodeIsDead, NoTokenOf

----------------------------------------------------------------------------
\* Payload p is a code's, and names an identity and the user it is linked to.
BoundCode(p) == p.kind = "code" /\ Bound(identities, p.key, p.user)

CodesAreBound ==
    \A g \in Grant : Redeemable(g, "code") => BoundCode(grants[g])

TakenCodesAreBound ==
    \A e \in Exchange :
        exchanges[e].pc \in {"lookup", "inactive"} => BoundCode(exchanges[e].payload)

BoundInv == CodesAreBound /\ TakenCodesAreBound /\ InactiveMeansRevoked

\* Codes are issued for linked identities, and neither a link nor a revocation
\* is ever undone.
LEMMA BoundStep == TypeOK /\ BoundInv /\ [Next]_vars => BoundInv'
<1> SUFFICES ASSUME TypeOK, BoundInv, [Next]_vars
             PROVE  BoundInv'
  OBVIOUS
<1> USE DEF TypeOK, BoundInv
<1>1. ASSUME NEW p \in Payload
      PROVE  /\ BoundCode(p) => BoundCode(p)'
             /\ BoundCode(p) /\ IsRevoked(p) => IsRevoked(p)'
  <2>1. p.key \in Key
    BY DEF Payload
  <2>2. p.kind = "code" => p.user \in User
    BY DEF Payload
  <2> QED
    BY <2>1, <2>2, RowsStay DEF BoundCode, IsRevoked
<1>2. ASSUME NEW e \in Exchange, exchanges[e] # Idle
      PROVE  exchanges[e] \in Taken /\ exchanges[e].payload \in Payload
  BY <1>2 DEF Taken
<1>3. CodesAreBound'
  <2> SUFFICES ASSUME NEW g \in Grant, Redeemable(g, "code")'
               PROVE  BoundCode(grants[g])'
    BY DEF CodesAreBound
  <2>1. CASE grants'[g] = grants[g]
    BY <1>1, <2>1 DEF CodesAreBound, Redeemable, BoundCode
  <2>2. ASSUME NEW p \in Payload, Issue(g, p)
        PROVE  BoundCode(p)'
    BY <2>2 DEF Issue, Redeemable, BoundCode
  <2> QED
    BY <2>1, <2>2, GrantMarksDiffer
    DEF Next, vars, Issue, ExpireGrant, Redeem, Consume, Redeemable, Lookup, Sign,
        Abort, LinkIdentity, Revoke, BoundCode
<1>4. TakenCodesAreBound' /\ InactiveMeansRevoked'
  <2> DEFINE Good(e) ==
        /\ exchanges[e].pc \in {"lookup", "inactive"} => BoundCode(exchanges[e].payload)
        /\ exchanges[e].pc = "inactive" => IsRevoked(exchanges[e].payload)
  <2> SUFFICES ASSUME NEW e \in Exchange
               PROVE  Good(e)'
    BY DEF TakenCodesAreBound, InactiveMeansRevoked, BoundCode
  <2>1. Good(e)
    BY DEF TakenCodesAreBound, InactiveMeansRevoked
  <2>2. CASE exchanges'[e] = exchanges[e]
    <3>1. CASE exchanges[e] = Idle
      BY <2>2, <3>1 DEF Idle
    <3>2. CASE exchanges[e] # Idle
      BY <1>1, <1>2, <2>1, <2>2, <3>2 DEF BoundCode, IsRevoked
    <3> QED
      BY <3>1, <3>2
  <2>3. ASSUME NEW g \in Grant, NEW kind \in {"code", "ticket"},
               NEW client \in Client, NEW uri \in RedirectUri,
               Redeem(e, g, kind, client, uri)
        PROVE  Good(e)'
    <3>1. /\ exchanges'[e] = [pc |-> AfterConsume(grants[g], client, uri),
                              grant |-> g, payload |-> grants[g]]
          /\ grants[g] \in Payload
          /\ identities' = identities
      BY <2>3 DEF Redeem, Redeemable
    <3>2. grants[g].kind \in {"code", "ticket"}
      BY <3>1 DEF Payload
    <3>3. /\ AfterConsume(grants[g], client, uri) # "inactive"
          /\ AfterConsume(grants[g], client, uri) = "lookup" => grants[g].kind = "code"
      BY <3>2 DEF AfterConsume
    <3> QED
      BY <3>1, <3>3 DEF CodesAreBound, Redeemable, BoundCode
  <2>4. CASE Lookup(e)
    <3>1. exchanges[e] \in Taken /\ exchanges[e].payload \in Payload
      BY <1>2, <2>4 DEF Lookup, Idle
    <3>2. /\ exchanges'[e].payload = exchanges[e].payload
          /\ identities' = identities
          /\ exchanges'[e].pc = "inactive" =>
                ~ ActiveFor(identities, exchanges[e].payload.key,
                                        exchanges[e].payload.user)
      BY <2>4, <3>1 DEF Lookup, Taken
    <3>3. BoundCode(exchanges[e].payload)
      BY <2>1, <2>4 DEF Lookup
    <3>4. exchanges[e].payload.key \in Key
      BY <3>1 DEF Payload
    <3>5. exchanges'[e].pc = "inactive" => IsRevoked(exchanges[e].payload)
      BY <3>2, <3>3, <3>4 DEF ActiveFor, Bound, BoundCode, IsRevoked, Table, Row
    <3> QED
      BY <3>2, <3>3, <3>5 DEF BoundCode, IsRevoked
  <2>5. CASE Sign(e) \/ Abort(e)
    <3>1. exchanges[e] \in Taken
      BY <1>2, <2>5 DEF Sign, Abort, Idle
    <3>2. exchanges'[e].pc \in {"minted", "aborted"}
      BY <2>5, <3>1 DEF Sign, Abort, Taken
    <3> QED
      BY <3>2
  <2> QED
    BY <2>2, <2>3, <2>4, <2>5
    DEF Next, vars, Issue, ExpireGrant, Redeem, Lookup, Sign, Abort, LinkIdentity,
        Revoke
<1> QED
  BY <1>3, <1>4

\* A code that is refused for its identity is refused because it was revoked.
THEOREM InactiveIsRevoked == Spec => []InactiveMeansRevoked
<1>1. Init => BoundInv
  BY GrantMarksDiffer
  DEF Init, BoundInv, CodesAreBound, TakenCodesAreBound, InactiveMeansRevoked,
      Redeemable, Idle
<1>2. BoundInv => InactiveMeansRevoked
  BY DEF BoundInv
<1> QED
  BY <1>1, <1>2, BoundStep, TypeInvariant, PTL DEF Spec

----------------------------------------------------------------------------
\* A code that some request took out of Redis is still bound, however the
\* request goes on.
HeldCodesAreBound ==
    \A e \in Exchange :
        exchanges[e] # Idle /\ exchanges[e].payload.kind = "code"
            => BoundCode(exchanges[e].payload)

LEMMA HeldStep ==
    TypeOK /\ CodesAreBound /\ HeldCodesAreBound /\ [Next]_vars => HeldCodesAreBound'
<1> SUFFICES ASSUME TypeOK, CodesAreBound, HeldCodesAreBound, [Next]_vars,
                    NEW e \in Exchange, exchanges'[e] # Idle,
                    exchanges'[e].payload.kind = "code"
             PROVE  BoundCode(exchanges[e].payload)'
  BY DEF HeldCodesAreBound
<1> USE DEF TypeOK
<1>1. ASSUME NEW p \in Payload, p.kind = "code", BoundCode(p)
      PROVE  BoundCode(p)'
  <2>1. p.key \in Key
    BY DEF Payload
  <2>2. p.user \in User
    BY <1>1 DEF Payload
  <2> QED
    BY <1>1, <2>1, <2>2, RowsStay DEF BoundCode
<1>2. CASE exchanges[e] # Idle
  <2>1. exchanges[e] \in Taken /\ exchanges[e].payload \in Payload
    BY <1>2 DEF Taken
  <2>2. exchanges'[e].payload = exchanges[e].payload
    BY <1>2, <2>1
    DEF Next, vars, Issue, ExpireGrant, Redeem, Lookup, Sign, Abort, LinkIdentity,
        Revoke, Taken
  <2> QED
    BY <1>1, <1>2, <2>1, <2>2 DEF HeldCodesAreBound, BoundCode
<1>3. CASE exchanges[e] = Idle
  <2>1. PICK g \in Grant :
            /\ Redeemable(g, "code")
            /\ exchanges'[e].payload = grants[g]
            /\ identities' = identities
    <3>1. PICK g \in Grant, kind \in {"code", "ticket"}, client \in Client,
               uri \in RedirectUri : Redeem(e, g, kind, client, uri)
      BY <1>3
      DEF Next, vars, Issue, ExpireGrant, Redeem, Lookup, Sign, Abort, LinkIdentity,
          Revoke, Idle
    <3>2. exchanges'[e].payload = grants[g]
      BY <3>1 DEF Redeem
    <3> QED
      BY <3>1, <3>2 DEF Redeem, Redeemable
  <2> QED
    BY <2>1 DEF CodesAreBound, BoundCode
<1> QED
  BY <1>2, <1>3

\* The user that a token names has the identity it names, then and ever after.
THEOREM TokensNameTheirOwners == Spec => []TokensNameOwners
<1>1. Init => BoundInv /\ HeldCodesAreBound
  BY GrantMarksDiffer
  DEF Init, BoundInv, CodesAreBound, TakenCodesAreBound, InactiveMeansRevoked,
      HeldCodesAreBound, Redeemable, Idle
<1>2. TypeOK /\ BoundInv /\ HeldCodesAreBound /\ [Next]_vars
          => (BoundInv /\ HeldCodesAreBound)'
  BY BoundStep, HeldStep DEF BoundInv
<1>3. IInv /\ HeldCodesAreBound => TokensNameOwners
  <2> SUFFICES ASSUME IInv, HeldCodesAreBound,
                      NEW t \in tokens, "sub" \in DOMAIN t
               PROVE  Bound(identities, t.key, t.sub)
    BY DEF TokensNameOwners
  <2> DEFINE p == exchanges[t.jti].payload
  <2>1. /\ t.jti \in Exchange
        /\ exchanges[t.jti] # Idle
        /\ t = TokenFor(t.jti, p)
    BY DEF IInv, TokensAreSigned, Idle
  <2>2. p.kind = "code" /\ t.key = p.key /\ t.sub = p.user
    BY <2>1 DEF TokenFor
  <2> QED
    BY <2>1, <2>2 DEF HeldCodesAreBound, BoundCode
<1> QED
  BY <1>1, <1>2, <1>3, Invariance, TypeInvariant, PTL DEF Spec
=============================================================================
