--------------------------- MODULE MCAccountTokens ---------------------------
(* Small instances of signing in and refreshing. *)
EXTENDS AccountTokens

CONSTANTS research, sync, main, worker

\* Everything runs on the server's loop; and with a caller whose sync code runs
\* a loop of its own in another thread (agent_categories._run).
MCCalls == {research, sync}
MCOneLoop == [c \in MCCalls |-> main]
MCTwoLoops == [c \in MCCalls |-> IF c = sync THEN worker ELSE main]
MCFaults == FaultKinds
MCNoFaults == {}

----------------------------------------------------------------------------
(* What comments of the code say of it, and TLC refutes.                   *)

\* _refresh_lock: "One refresh per marketplace at a time. Etsy rotates its
\* refresh token, so a second refresh sent with the old one would sign the
\* seller out."
OneRefreshAtATime ==
    \A c, d \in Calls :
        call[c] = "sent" /\ call[d] = "sent" /\ was[c] = was[d] => c = d
=============================================================================
