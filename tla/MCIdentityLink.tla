---------------------------- MODULE MCIdentityLink ----------------------------
(***************************************************************************)
(* Three concurrent link() calls over two identities and two KIS users:    *)
(* enough for a retry, a race for one pair, and a race of two different    *)
(* pairs that share the identity or the user.                              *)
(***************************************************************************)
EXTENDS IdentityLink
=============================================================================
