----------------------------- MODULE MCRateLimit -----------------------------
(***************************************************************************)
(* RateLimit, with numbers from MCRateLimit.cfg.                           *)
(***************************************************************************)
EXTENDS RateLimit
=============================================================================
