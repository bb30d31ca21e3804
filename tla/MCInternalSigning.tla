-------------------------- MODULE MCInternalSigning --------------------------
(***************************************************************************)
(* Values for the constants of InternalSigning: a request whose timestamp  *)
(* is behind the clock for most of the run and one dated ahead.            *)
(***************************************************************************)
EXTENDS InternalSigning, TLC

CONSTANTS m1, m2

MCStamp == (m1 :> 1) @@ (m2 :> 3)
=============================================================================
