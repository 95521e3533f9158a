----------------------------- MODULE MCAccess ------------------------------
(***************************************************************************)
(* Access with one merchant provisioned and a second tenant name free.     *)
(***************************************************************************)
EXTENDS Access, TLC

CONSTANTS k1, t1

MCFirstOwner == k1 :> t1

=============================================================================
