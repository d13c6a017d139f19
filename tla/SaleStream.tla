------------------------------ MODULE SaleStream ------------------------------
(***************************************************************************)
(* A sale's way from eBay or Etsy to Studio.  The relay's Inbox keeps every *)
(* notification until Studio acknowledges it; Studio's relay client reads  *)
(* the stream, records the sales of one event after the other, announces   *)
(* what is new, and acknowledges everything up to the last one it recorded. *)
(*                                                                         *)
(* An Inbox is a Durable Object: a method runs by itself up to its first   *)
(* await, and its rows and the messages to its sockets are put out before. *)
(* Messages on one socket arrive in order or not at all; an acknowledgement *)
(* on a dropped socket may still arrive, behind those of the next one.     *)
(***************************************************************************)
EXTENDS Naturals, Sequences, FiniteSets

CONSTANTS
    Notes,       \* notifications a marketplace sends, told apart by dedupeKey
    NoNote,      \* no notification
    Sold,        \* sold lines of orders
    Lines,       \* the lines a notification names; none for other events
    PageLimit,   \* PAGE_LIMIT: events in one message of a backlog
    MaxSeq,      \* bound: events the inbox ever numbers
    Faults       \* bound: which faults occur, of FaultKinds

FaultKinds == {"drop", "fail", "expire", "off", "recover"}

ASSUME StreamConstants ==
    /\ NoNote \notin Notes
    /\ Lines \in [Notes -> SUBSET Sold]
    /\ PageLimit \in Nat \ {0}
    /\ MaxSeq \in Nat \ {0}
    /\ Faults \subseteq FaultKinds

VARIABLES
    \* The relay's Inbox.
    last,        \* the highest seq given out (AUTOINCREMENT)
    note,        \* the notification of each seq
    inbox,       \* the seqs in the events table
    \* The sockets.
    conn,        \* Studio is connected
    down,        \* messages to Studio: the seqs of each
    up,          \* acknowledgements to the relay
    late,        \* acknowledgements still under way on dropped sockets
    \* Studio's relay client: _process and handle_event.
    page,        \* the events of the message in hand that are left
    through,     \* _process's through, 0 for None
    open,        \* handle_event is past the setting, at the oldest of page
    fresh,       \* its created sales
    \* Studio's database and settings.
    sales,       \* lines recorded as MarketplaceSale rows
    detect,      \* sale_detection_enabled
    told,        \* lines the seller was told of, and that were delisted elsewhere
    \* History.
    missed,      \* seqs whose handling raised once, or that followed one in a message
    dropped      \* seqs detection was off for, or that were kept too long

relay  == <<last, note, inbox>>
wires  == <<conn, down, up, late>>
client == <<page, through, open, fresh>>
disk   == <<sales, detect, told>>
past   == <<missed, dropped>>
svars  == <<last, note, inbox, conn, down, up, late, page, through, open, fresh,
            sales, detect, told, missed, dropped>>

Seqs == 1 .. MaxSeq

SaleTypeOK ==
    /\ last \in 0 .. MaxSeq
    /\ note \in [Seqs -> Notes \cup {NoNote}]
    /\ inbox \in SUBSET Seqs
    /\ conn \in BOOLEAN
    /\ down \in Seq(SUBSET Seqs)
    /\ up \in Seq(Seqs)
    /\ late \in SUBSET Seqs
    /\ page \in SUBSET Seqs
    /\ through \in 0 .. MaxSeq
    /\ open \in BOOLEAN
    /\ fresh \in SUBSET Sold /\ sales \in SUBSET Sold /\ told \in SUBSET Sold
    /\ detect \in BOOLEAN
    /\ missed \in SUBSET Seqs /\ dropped \in SUBSET Seqs

SInit ==
    /\ last = 0
    /\ note = [s \in Seqs |-> NoNote]
    /\ inbox = {} /\ late = {} /\ page = {} /\ fresh = {}
    /\ conn = FALSE /\ open = FALSE
    /\ down = <<>> /\ up = <<>>
    /\ through = 0
    /\ sales = {} /\ told = {} /\ missed = {} /\ dropped = {}
    /\ detect = TRUE

----------------------------------------------------------------------------
(* The relay.                                                              *)

\* Inbox.list: the first PageLimit rows after a seq.
Rows(rows, after) ==
    {s \in rows : s > after /\ Cardinality({r \in rows : after < r /\ r <= s}) <= PageLimit}

\* Mutant: the backlog is not continued.
NoRows(rows, after) == {}

\* The page an acknowledgement is answered with.
NextPage(rows, after) == Rows(rows, after)

\* Inbox.add, for a webhook of the marketplace.  A notification that is still
\* in the table is a duplicate; one that was acknowledged gets a new seq.
Add(n) ==
    /\ last < MaxSeq
    /\ \A s \in inbox : note[s] # n
    /\ last' = last + 1
    /\ note' = [note EXCEPT ![last + 1] = n]
    /\ inbox' = inbox \cup {last + 1}
    /\ down' = IF conn THEN Append(down, {last + 1}) ELSE down
    /\ UNCHANGED <<conn, up, late, client, disk, past>>

\* Mutant: the stream opens with after=1.
ConnectAfterOne ==
    /\ ~conn
    /\ conn' = TRUE
    /\ down' = IF inbox = {} THEN <<>> ELSE <<Rows(inbox, 1)>>
    /\ UNCHANGED <<relay, up, late, client, disk, past>>

\* Inbox.fetch: the stream opens with after=0, and gets the first page.
Connect ==
    /\ ~conn
    /\ conn' = TRUE
    /\ down' = IF inbox = {} THEN <<>> ELSE <<Rows(inbox, 0)>>
    /\ UNCHANGED <<relay, up, late, client, disk, past>>

\* webSocketMessage: an acknowledgement deletes, and asks for the next page.
Acknowledged ==
    LET kept == {s \in inbox : s > Head(up)}
        next == NextPage(kept, Head(up))
    IN
    /\ up # <<>>
    /\ up' = Tail(up)
    /\ inbox' = kept
    /\ down' = IF next # {} THEN Append(down, next) ELSE down
    /\ UNCHANGED <<last, note, conn, late, client, disk, past>>

\* The same on a socket Studio has given up: nobody hears the answer.
AcknowledgedLate(t) ==
    /\ t \in late
    /\ late' = late \ {t}
    /\ inbox' = {s \in inbox : s > t}
    /\ UNCHANGED <<last, note, conn, down, up, client, disk, past>>

\* Inbox.alarm: what waited longer than RETENTION_MS is deleted.
Alarm(t) ==
    /\ t \in inbox
    /\ inbox' = {s \in inbox : s > t}
    /\ dropped' = dropped \cup (inbox \ inbox')
    /\ UNCHANGED <<last, note, wires, client, disk, missed>>

----------------------------------------------------------------------------
(* Studio.                                                                 *)

\* _stream_once takes the next message.
Receive ==
    /\ page = {} /\ down # <<>>
    /\ page' = Head(down)
    /\ down' = Tail(down)
    /\ through' = 0
    /\ UNCHANGED <<relay, conn, up, late, open, fresh, disk, past>>

\* Mutant: one more is acknowledged than was handled.
HandledAndNext(s) ==
    /\ page' = page \ {s}
    /\ through' = s + 1
    /\ open' = FALSE
    /\ fresh' = {}
    /\ up' = IF page = {s} THEN Append(up, s + 1) ELSE up

\* The event at hand was handled: the next one, or the acknowledgement.
Handled(s) ==
    /\ page' = page \ {s}
    /\ through' = s
    /\ open' = FALSE
    /\ fresh' = {}
    /\ up' = IF page = {s} THEN Append(up, s) ELSE up

\* Every line of an event is a MarketplaceSale row.
Recorded(s) == Lines[note[s]] \subseteq sales

\* _process takes the events in order.
AtHand(s) == s \in page /\ \A r \in page : s <= r

\* handle_event reads the setting; with sale detection off it returns at once.
Open(s) ==
    /\ AtHand(s) /\ ~open
    /\ IF detect \/ Lines[note[s]] = {}
       THEN open' = TRUE /\ UNCHANGED <<page, through, fresh, up, dropped>>
       ELSE Handled(s) /\ dropped' = dropped \cup {s}
    /\ UNCHANGED <<relay, conn, down, late, disk, missed>>

\* Mutant: the row is returned whether it is new or not.
RecordSaleAgain(s, l) ==
    /\ AtHand(s) /\ open
    /\ l \in Lines[note[s]]
    /\ sales' = sales \cup {l}
    /\ fresh' = fresh \cup {l}
    /\ UNCHANGED <<relay, wires, page, through, open, detect, told, past>>

\* record_sale: one line, committed, once.
RecordSale(s, l) ==
    /\ AtHand(s) /\ open
    /\ l \in Lines[note[s]] \ sales
    /\ sales' = sales \cup {l}
    /\ fresh' = fresh \cup {l}
    /\ UNCHANGED <<relay, wires, page, through, open, detect, told, past>>

\* announce_sales of what is new, and on with the next event.
Announce(s) ==
    /\ AtHand(s) /\ open
    /\ Recorded(s)
    /\ told' = told \cup fresh
    /\ Handled(s)
    /\ UNCHANGED <<relay, conn, down, late, sales, detect, past>>

\* The receipt cannot be read, or the database is busy: _process stops there and
\* acknowledges what came before.
Fail(s) ==
    /\ AtHand(s) /\ open
    /\ Recorded(s) => fresh = {}
    /\ missed' = missed \cup page
    /\ page' = {} /\ open' = FALSE /\ fresh' = {}
    /\ up' = IF through # 0 THEN Append(up, through) ELSE up
    /\ UNCHANGED <<relay, conn, down, late, through, disk, dropped>>

\* The socket drops, stop_stream cancels the task, or Studio dies, between any
\* two awaits or commits.  What Studio would still do with a message it has in
\* hand when the socket drops, it may as well have done before.
StreamEnds ==
    /\ conn
    /\ conn' = FALSE
    /\ down' = <<>> /\ up' = <<>>
    /\ \E some \in SUBSET {up[i] : i \in DOMAIN up} : late' = late \cup some
    /\ page' = {} /\ through' = 0 /\ open' = FALSE /\ fresh' = {}
    /\ UNCHANGED <<relay, disk, past>>

\* order_recovery: the seller has past orders read again; what is new is recorded
\* and not announced.
RecoverOrder(l) ==
    /\ l \notin sales
    /\ sales' = sales \cup {l}
    /\ UNCHANGED <<relay, wires, client, detect, told, past>>

\* The seller turns sale detection off or on.
SetSaleDetection ==
    /\ detect' = ~detect
    /\ UNCHANGED <<relay, wires, client, sales, told, past>>

----------------------------------------------------------------------------
Webhook == \E n \in Notes : Add(n)

Handle == \E s \in page : Open(s) \/ (\E l \in Sold : RecordSale(s, l)) \/ Announce(s)

SNext ==
    \/ Webhook
    \/ Connect \/ Acknowledged \/ (\E t \in Seqs : AcknowledgedLate(t))
    \/ Receive \/ Handle
    \/ "fail" \in Faults /\ (\E s \in page : Fail(s))
    \/ "drop" \in Faults /\ StreamEnds
    \/ "expire" \in Faults /\ (\E t \in Seqs : Alarm(t))
    \/ "recover" \in Faults /\ (\E l \in Sold : RecoverOrder(l))
    \/ "off" \in Faults /\ SetSaleDetection

SSpec == SInit /\ [][SNext]_svars

\* The client reconnects for as long as it runs, the loop and the relay answer,
\* and an open socket delivers.
SFairSpec ==
    /\ SSpec
    /\ WF_svars(Connect) /\ WF_svars(Acknowledged)
    /\ WF_svars(Receive) /\ WF_svars(Handle)

----------------------------------------------------------------------------
(* Properties.                                                             *)

\* A sale whose notification the relay took is in the inbox or recorded, unless
\* Studio failed at it or at one before it in the message, detection was off for
\* it, or it waited 30 days -- as long as a backlog fits one page.
UnrecordedOnlyMissed ==
    \A s \in 1 .. last : s \in inbox \cup missed \cup dropped \/ Recorded(s)

\* The seller is told of a sale, and the item delisted elsewhere, once, however
\* often its event is sent again ("once ... Nothing is retried").
AnnouncedOnce == fresh \cap told = {}

\* Why nothing else gets lost: while Studio is connected, every event that needs
\* recording is ahead of it, in the message in hand or on the wire, and none is
\* ahead of an older one.  So an acknowledgement covers only what was handled.
Settled == {s \in 1 .. last : s \in missed \cup dropped \/ Recorded(s)}

SeqInv ==
    /\ inbox \cup page \subseteq 1 .. last
    /\ \A i \in DOMAIN down : down[i] \subseteq 1 .. last

IdleInv ==
    ~conn => page = {} /\ down = <<>> /\ up = <<>>

AckInv ==
    \A t \in late \cup {through} \cup {up[i] : i \in DOMAIN up} :
        t <= last /\ 1 .. t \subseteq Settled

AheadInv == conn =>
    \A s \in 1 .. last : s \in Settled \cup page \/ \E i \in DOMAIN down : s \in down[i]

OrderInv ==
    /\ \A r \in page : 1 .. r \subseteq Settled \cup page
    /\ \A i \in DOMAIN down : \A r \in down[i] : \A s \in 1 .. r :
        s \in Settled \cup page \/ \E k \in 1 .. i : s \in down[k]

AnnounceInv == AnnouncedOnce /\ fresh \cup told \subseteq sales

StreamInv ==
    /\ SaleTypeOK /\ SeqInv /\ IdleInv /\ AckInv /\ AheadInv /\ OrderInv
    /\ UnrecordedOnlyMissed /\ AnnounceInv

\* Once Studio stays connected the inbox empties, a page per acknowledgement.
Drained ==
    <>[]conn => \A s \in Seqs : []<>(s \notin inbox)
=============================================================================
