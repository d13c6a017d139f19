---------------------------- MODULE MCSendDrafts ----------------------------
(* Small instances of the sends with their drafts. *)
EXTENDS SendDrafts

CONSTANTS c1

MCListings  == {c1}
MCImported  == {}
MCMarkets   == {}
MCAll       == EventKinds \ {"native", "poll", "flap"}

\* Once a listing had two sends at once, its drafts are nobody's promise: the
\* search stops there.
OneSendAtATime == doubled = {}
=============================================================================
