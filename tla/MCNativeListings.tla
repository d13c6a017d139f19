-------------------------- MODULE MCNativeListings --------------------------
(* Small instances of direct listings. *)
EXTENDS NativeListings

CONSTANTS depop, poshmark, etsy, r1, r2

MCTwoStep == {depop, etsy} \cap Markets
MCChrome == {depop, poshmark} \cap Markets
MCBoosts == {depop} \cap Markets
=============================================================================
