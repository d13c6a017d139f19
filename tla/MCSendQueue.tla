---------------------------- MODULE MCSendQueue ----------------------------
(* Small instances of the automation slot. *)
EXTENDS SendQueue, TLC

CONSTANTS c1, c2, ebay, etsy

\* MCSendQueue: two listings and two marketplaces, everything that happens to
\* the slot. MCSendQueueLive: sends only, Chrome drops, and crashes, one of them
\* between the two commits of a requeue.
MCListings == {c1, c2}
MCImported == {c2}
MCMarkets  == {ebay, etsy}
MCNoMarkets == {}
MCSlot     == EventKinds
MCLive     == {"enqueue", "drop", "crash"}
Symmetric  == Permutations(MCMarkets)
=============================================================================
