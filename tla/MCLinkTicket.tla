----------------------------- MODULE MCLinkTicket -----------------------------
(***************************************************************************)
(* Values for the constants of LinkTicket: two tickets that lapse one      *)
(* second apart.                                                           *)
(***************************************************************************)
EXTENDS LinkTicket, TLC

CONSTANTS t1, t2

MCExp == (t1 :> 1) @@ (t2 :> 2)

Symmetry == Permutations(Request)
=============================================================================
