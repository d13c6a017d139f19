---------------------------- MODULE MCSaleStream ----------------------------
(* Small instances of the sale stream. *)
EXTENDS SaleStream

CONSTANTS order1, order2, order3, closed, shirt, hat

\* eBay sends one notification per line, and each names all of the order; an
\* account that was closed names none.
MCNotes   == {order1, order2, closed}
MCBacklog == MCNotes \cup {order3}
MCSold    == {shirt, hat}
MCLinesOf(n) == CASE n = order1 -> {shirt, hat} [] n = closed -> {} [] OTHER -> {hat}
MCLines   == [n \in MCNotes |-> MCLinesOf(n)]
MCBacklogLines == [n \in MCBacklog |-> MCLinesOf(n)]

MCFaults == FaultKinds
MCNoFaults == {}
MCDrop == {"drop"}

----------------------------------------------------------------------------
(* What comments of the code say of it, and TLC refutes.                   *)

\* inbox.js: "Events wait here until Studio acknowledges them", and "A backlog
\* larger than one page arrives a page per ack."
BacklogArrives ==
    \A s \in 1 .. last :
        \/ s \in inbox \cup dropped \cup page
        \/ \E i \in DOMAIN down : s \in down[i]
        \/ Recorded(s)
=============================================================================
