--------------------------- MODULE SingleUseProofs ---------------------------
(***************************************************************************)
(* The promise of SingleUse is what its name says.                         *)
(***************************************************************************)
EXTENDS SingleUse, TLAPS

\* What has been claimed was spent by the claim and can be claimed no more.
Inv == /\ AtMostOnce
       /\ live \cap spent = {}
       /\ \A p \in claims : p[2] \in spent

\* A credential is granted to one request at most, for any number of both.
THEOREM GrantedOnce == Spec => []AtMostOnce
<1>1. Init => Inv
  BY DEF Init, Inv, AtMostOnce
<1>2. Inv /\ [Next]_vars => Inv'
  <2> SUFFICES ASSUME Inv, [Next]_vars
               PROVE  Inv'
    OBVIOUS
  <2> USE DEF Inv, AtMostOnce
  <2>1. ASSUME NEW c \in Credential, Issue(c)
        PROVE  Inv'
    BY <2>1 DEF Issue
  <2>2. ASSUME NEW c \in Credential, Lapse(c)
        PROVE  Inv'
    BY <2>2 DEF Lapse
  <2>3. ASSUME NEW x \in Claimant, NEW c \in Credential, Claim(x, c)
        PROVE  Inv'
    <3>1. \A p \in claims : p[2] # c
      BY <2>3 DEF Claim
    <3>2. \A p \in claims' : p \in claims \/ (p = <<x, c>> /\ p[2] = c)
      BY <2>3 DEF Claim
    <3>3. AtMostOnce'
      BY <3>1, <3>2
    <3>4. live' \cap spent' = {}
      BY <2>3 DEF Claim
    <3>5. \A p \in claims' : p[2] \in spent'
      BY <2>3, <3>2 DEF Claim
    <3> QED
      BY <3>3, <3>4, <3>5
  <2>4. CASE UNCHANGED vars
    BY <2>4 DEF vars
  <2> QED
    BY <2>1, <2>2, <2>3, <2>4 DEF Next
<1>3. Inv => AtMostOnce
  BY DEF Inv
<1> QED
  BY <1>1, <1>2, <1>3, PTL DEF Spec
=============================================================================
