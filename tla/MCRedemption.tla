----------------------------- MODULE MCRedemption -----------------------------
(***************************************************************************)
(* Two grants redeemed by three requests, with one client, two             *)
(* redirect_uris (so that a request may mismatch), one purpose, and one    *)
(* identity that can belong to either of two users.                        *)
(***************************************************************************)
EXTENDS Redemption
=============================================================================
