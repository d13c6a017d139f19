------------------------------ MODULE DraftTurns ------------------------------
(***************************************************************************)
(* What the draft queue promises about one seller's drafts: a draft is     *)
(* written in turns.  The seller has it, or one task does; a task gets it  *)
(* once and for good gives it back, and only whoever has it writes.        *)
(***************************************************************************)
EXTENDS Naturals, Sequences

CONSTANTS Drafts, Tasks, Seller

VARIABLES
    turn,    \* who may write a draft
    log,     \* who wrote each edition of it
    had      \* tasks that have had their turn

tvars == <<turn, log, had>>

Init ==
    /\ turn = [d \in Drafts |-> Seller]
    /\ log = [d \in Drafts |-> <<>>]
    /\ had = {}

Take(d, t) ==
    /\ turn[d] = Seller
    /\ t \notin had
    /\ turn' = [turn EXCEPT ![d] = t]
    /\ had' = had \cup {t}
    /\ UNCHANGED log

Write(d) ==
    /\ log' = [log EXCEPT ![d] = Append(@, turn[d])]
    /\ UNCHANGED <<turn, had>>

\* Several tasks whose worker is gone are ended at once.
GiveBack(S) ==
    /\ S # {}
    /\ turn' = [d \in Drafts |-> IF d \in S THEN Seller ELSE turn[d]]
    /\ UNCHANGED <<log, had>>

Next ==
    \/ \E d \in Drafts : Write(d) \/ \E t \in Tasks : Take(d, t)
    \/ \E S \in SUBSET Drafts : GiveBack(S)

Spec == Init /\ [][Next]_tvars
=============================================================================
