------------------------------ MODULE ChromeSlot ------------------------------
(***************************************************************************)
(* What the Send queue promises, without queue, threads or restarts: the   *)
(* automation slot is taken by one job at a time, or shared by direct      *)
(* actions on different marketplaces.  A job takes the slot when whoever   *)
(* is in it leaves room, and gives it back.                                *)
(***************************************************************************)
CONSTANTS
    Jobs,       \* who may take the slot
    Shared,     \* uses that run side by side: one marketplace each
    Alone       \* uses that want the slot to themselves

VARIABLE holds  \* what each job uses the slot for, or "free"

Uses == Shared \cup Alone \cup {"free"}

Init == holds = [j \in Jobs |-> "free"]

\* blocking_job and the checks under start_gate, as one rule.
Room(use) ==
    \A i \in Jobs :
        \/ holds[i] = "free"
        \/ use \in Shared /\ holds[i] \in Shared \ {use}

Take(j, use) ==
    /\ holds[j] = "free"
    /\ Room(use)
    /\ holds' = [holds EXCEPT ![j] = use]

\* Several jobs may leave at once: a reconnect or an app update ends them all.
Give ==
    /\ holds' \in [Jobs -> Uses]
    /\ \A j \in Jobs : holds'[j] \in {"free", holds[j]}

Next == Give \/ \E j \in Jobs, use \in Shared \cup Alone : Take(j, use)

Spec == Init /\ [][Next]_holds
=============================================================================
