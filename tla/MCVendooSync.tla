---------------------------- MODULE MCVendooSync ----------------------------
(* Small instances of a listing and its Vendoo draft. *)
EXTENDS VendooSync
=============================================================================
