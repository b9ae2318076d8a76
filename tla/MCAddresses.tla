---------------------------- MODULE MCAddresses ----------------------------
(* A client with a name whose device can be asked, and one with an IP whose *)
(* MAC is configured.  Two answers each from DNS and for the MAC, so that   *)
(* they can change during a sequence and between two lookups. *)
EXTENDS Addresses
=============================================================================
