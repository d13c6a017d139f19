--------------------------- MODULE SaleStreamProofs ---------------------------
(***************************************************************************)
(* No sale is lost but where Studio failed at it, for every number of      *)
(* notifications, lines and orders, as long as the inbox fits one page;    *)
(* and no sale is announced twice, without that condition.                 *)
(***************************************************************************)
EXTENDS SaleStream, FiniteSetTheorems, TLAPS

----------------------------------------------------------------------------
(* Sequences, and the rows of a page.                                      *)

\* What a message put on a socket adds to it.
LEMMA Appended ==
    ASSUME NEW S, NEW q \in Seq(S), NEW e \in S
    PROVE  /\ Append(q, e) \in Seq(S)
           /\ DOMAIN Append(q, e) = 1 .. (Len(q) + 1)
           /\ DOMAIN q = 1 .. Len(q) /\ Len(q) \in Nat
           /\ \A i \in 1 .. Len(q) : Append(q, e)[i] = q[i]
           /\ Append(q, e)[Len(q) + 1] = e
OBVIOUS

\* What taking the next message leaves.
LEMMA Taken ==
    ASSUME NEW S, NEW q \in Seq(S), q # <<>>
    PROVE  /\ Head(q) \in S /\ Head(q) = q[1]
           /\ Tail(q) \in Seq(S)
           /\ Len(q) \in Nat \ {0}
           /\ DOMAIN q = 1 .. Len(q)
           /\ DOMAIN Tail(q) = 1 .. (Len(q) - 1)
           /\ \A i \in 1 .. (Len(q) - 1) : Tail(q)[i] = q[i + 1]
OBVIOUS

\* An empty socket, and one with a single message.
LEMMA Fresh ==
    ASSUME NEW S
    PROVE  /\ <<>> \in Seq(S) /\ DOMAIN <<>> = {}
           /\ \A e \in S : <<e>> \in Seq(S) /\ DOMAIN <<e>> = {1} /\ <<e>>[1] = e
OBVIOUS

\* The inbox fits one page.
FitsPage == Cardinality(inbox) <= PageLimit

\* Inbox.list returns rows above a seq; all of them when the table fits a page.
LEMMA PageRows ==
    ASSUME NEW rows \in SUBSET Seqs, NEW t \in Nat
    PROVE  /\ Rows(rows, t) \subseteq {s \in rows : s > t}
           /\ Cardinality(rows) <= PageLimit => Rows(rows, t) = {s \in rows : s > t}
<1>1. Rows(rows, t) \subseteq {s \in rows : s > t}
  BY DEF Rows
<1>2. ASSUME Cardinality(rows) <= PageLimit, NEW s \in rows, s > t
      PROVE  s \in Rows(rows, t)
  <2> DEFINE R == {r \in rows : t < r /\ r <= s}
  <2>1. IsFiniteSet(Seqs)
    BY FS_Interval, StreamConstants DEF Seqs
  <2>2. IsFiniteSet(rows)
    BY <2>1, FS_Subset
  <2>3. R \in SUBSET rows
    OBVIOUS
  <2>4. IsFiniteSet(R) /\ Cardinality(R) <= Cardinality(rows)
    BY <2>2, <2>3, FS_Subset
  <2>5. Cardinality(R) \in Nat /\ Cardinality(rows) \in Nat
    BY <2>2, <2>4, FS_CardinalityType
  <2>6. Cardinality(R) <= PageLimit
    BY <1>2, <2>4, <2>5, StreamConstants
  <2> QED
    BY <1>2, <2>6 DEF Rows
<1> QED
  BY <1>1, <1>2

\* What is recorded, given up or dropped stays so.
LEMMA SettledStays ==
    ASSUME sales \subseteq sales', missed \subseteq missed', dropped \subseteq dropped',
           UNCHANGED <<last, note>>
    PROVE  Settled \subseteq Settled'
BY DEF Settled, Recorded

----------------------------------------------------------------------------
(* Every sale is announced at most once.                                   *)

\* The invariant needs nothing but itself.
THEOREM AnnounceSafety == SSpec => []AnnounceInv
<1>1. SInit => AnnounceInv
  BY DEF SInit, AnnounceInv, AnnouncedOnce
<1>2. AnnounceInv /\ [SNext]_svars => AnnounceInv'
  <2> SUFFICES ASSUME AnnounceInv, [SNext]_svars PROVE AnnounceInv'
    OBVIOUS
  <2> USE DEF AnnounceInv, AnnouncedOnce
  <2>1. CASE UNCHANGED svars
    BY <2>1 DEF svars
  <2>2. CASE Webhook \/ Connect \/ Acknowledged \/ \E t \in Seqs : AcknowledgedLate(t) \/ Alarm(t)
    BY <2>2 DEF Webhook, Add, Connect, Acknowledged, AcknowledgedLate, Alarm, client, disk
  <2>3. CASE Receive
    BY <2>3 DEF Receive, disk
  <2>4. CASE \E s \in page : Open(s) \/ Fail(s)
    BY <2>4 DEF Open, Fail, Handled, disk
  <2>5. CASE \E s \in page, l \in Sold : RecordSale(s, l)
    BY <2>5 DEF RecordSale
  <2>6. CASE \E s \in page : Announce(s)
    BY <2>6 DEF Announce, Handled
  <2>7. CASE StreamEnds
    BY <2>7 DEF StreamEnds, disk
  <2>8. CASE SetSaleDetection \/ \E l \in Sold : RecoverOrder(l)
    BY <2>8 DEF SetSaleDetection, RecoverOrder, client
  <2> QED
    BY <2>1, <2>2, <2>3, <2>4, <2>5, <2>6, <2>7, <2>8 DEF SNext, Handle
<1> QED
  BY <1>1, <1>2, PTL DEF SSpec

\* The seller is told of a sale, and the item delisted elsewhere, once, however
\* often its event arrives and wherever Studio was stopped.
THEOREM ToldOnce == SSpec => []AnnouncedOnce
<1>1. AnnounceInv => AnnouncedOnce
  BY DEF AnnounceInv
<1> QED
  BY <1>1, AnnounceSafety, PTL

----------------------------------------------------------------------------
(* Types.                                                                  *)

\* Seqs are numbers.
LEMMA SeqsAreNumbers == Seqs \subseteq Nat \ {0} /\ Seqs \subseteq 0 .. MaxSeq
BY StreamConstants DEF Seqs

\* Every variable keeps its type, and only seqs that were given out are about.
THEOREM SaleTyping == SSpec => [](SaleTypeOK /\ SeqInv)
<1>1. SInit => SaleTypeOK /\ SeqInv
  <2> SUFFICES ASSUME SInit PROVE SaleTypeOK /\ SeqInv
    OBVIOUS
  <2>1. <<>> \in Seq(SUBSET Seqs) /\ <<>> \in Seq(Seqs) /\ DOMAIN <<>> = {}
    BY Fresh
  <2>2. down \in Seq(SUBSET Seqs) /\ up \in Seq(Seqs) /\ DOMAIN down = {}
    BY <2>1 DEF SInit
  <2>3. last \in 0 .. MaxSeq /\ through \in 0 .. MaxSeq
    BY StreamConstants DEF SInit
  <2> QED
    BY <2>2, <2>3 DEF SInit, SaleTypeOK, SeqInv
<1>2. SaleTypeOK /\ SeqInv /\ [SNext]_svars => SaleTypeOK' /\ SeqInv'
  <2> SUFFICES ASSUME SaleTypeOK, SeqInv, [SNext]_svars PROVE SaleTypeOK' /\ SeqInv'
    OBVIOUS
  <2>1. CASE UNCHANGED svars
    BY <2>1 DEF svars, SaleTypeOK, SeqInv
  <2>2. /\ last \in 0 .. MaxSeq /\ inbox \in SUBSET Seqs /\ page \in SUBSET Seqs
        /\ inbox \subseteq 1 .. last /\ page \subseteq 1 .. last
        /\ \A i \in DOMAIN down : down[i] \subseteq 1 .. last
    BY DEF SaleTypeOK, SeqInv
  <2>3. down \in Seq(SUBSET Seqs) /\ up \in Seq(Seqs)
    BY DEF SaleTypeOK
  <2>4. \* What a message of rows does to the wire.
        ASSUME NEW rows \in SUBSET Seqs, NEW high \in Nat, last <= high,
               rows \subseteq 1 .. high, down' = Append(down, rows)
        PROVE  down' \in Seq(SUBSET Seqs) /\ \A i \in DOMAIN down' : down'[i] \subseteq 1 .. high
    <3>1. /\ Append(down, rows) \in Seq(SUBSET Seqs)
          /\ DOMAIN Append(down, rows) = 1 .. (Len(down) + 1)
          /\ DOMAIN down = 1 .. Len(down) /\ Len(down) \in Nat
          /\ \A i \in 1 .. Len(down) : Append(down, rows)[i] = down[i]
          /\ Append(down, rows)[Len(down) + 1] = rows
      BY <2>3, Appended
    <3>2. down' \in Seq(SUBSET Seqs)
      BY <3>1, <2>4
    <3>3. \A i \in 1 .. Len(down) : down'[i] \subseteq 1 .. high
      <4>1. \A i \in 1 .. Len(down) : down'[i] = down[i] /\ down[i] \subseteq 1 .. last
        BY <3>1, <2>2, <2>4
      <4>2. 1 .. last \subseteq 1 .. high
        BY <2>2, <2>4, StreamConstants
      <4> QED
        BY <4>1, <4>2
    <3>4. down'[Len(down) + 1] \subseteq 1 .. high
      BY <3>1, <2>4
    <3>5. \A i \in 1 .. (Len(down) + 1) : i \in 1 .. Len(down) \/ i = Len(down) + 1
      BY <3>1
    <3>6. DOMAIN down' = 1 .. (Len(down) + 1)
      BY <3>1, <2>4
    <3> QED
      BY <3>2, <3>3, <3>4, <3>5, <3>6
  <2>5. ASSUME NEW n \in Notes, Add(n) PROVE SaleTypeOK' /\ SeqInv'
    <3>1. /\ last + 1 \in Seqs /\ last' = last + 1 /\ last' \in 0 .. MaxSeq
          /\ 1 .. last \subseteq 1 .. last' /\ last <= last' /\ last' \in Nat
      BY <2>2, <2>5, StreamConstants DEF Add, Seqs
    <3>2. {last + 1} \in SUBSET Seqs /\ {last + 1} \subseteq 1 .. last'
      BY <2>2, <3>1
    <3>3. down' \in Seq(SUBSET Seqs) /\ \A i \in DOMAIN down' : down'[i] \subseteq 1 .. last'
      <4>1. CASE down' = Append(down, {last + 1})
        BY <4>1, <3>1, <3>2, <2>4
      <4>2. CASE down' = down
        BY <4>2, <2>2, <2>3, <3>1
      <4> QED
        BY <4>1, <4>2, <2>5 DEF Add
    <3>4. note' \in [Seqs -> Notes \cup {NoNote}]
      BY <2>5, <3>1 DEF Add, SaleTypeOK
    <3>5. inbox' \in SUBSET Seqs /\ inbox' \subseteq 1 .. last'
      BY <2>2, <2>5, <3>1, <3>2 DEF Add
    <3>6. page \subseteq 1 .. last'
      BY <2>2, <3>1
    <3> QED
      BY <2>5, <3>1, <3>3, <3>4, <3>5, <3>6 DEF Add, client, disk, past, SaleTypeOK, SeqInv
  <2>6. CASE Connect
    <3>1. Rows(inbox, 0) \in SUBSET Seqs /\ Rows(inbox, 0) \subseteq 1 .. last
      BY <2>2, PageRows
    <3>2. down' = <<>> \/ down' = <<Rows(inbox, 0)>>
      BY <2>6 DEF Connect
    <3>3. /\ <<>> \in Seq(SUBSET Seqs) /\ DOMAIN <<>> = {}
          /\ <<Rows(inbox, 0)>> \in Seq(SUBSET Seqs)
          /\ DOMAIN <<Rows(inbox, 0)>> = {1} /\ <<Rows(inbox, 0)>>[1] = Rows(inbox, 0)
      BY <3>1, Fresh
    <3>4. down' \in Seq(SUBSET Seqs) /\ \A i \in DOMAIN down' : down'[i] \subseteq 1 .. last
      <4>1. CASE down' = <<>>
        <5>1. DOMAIN down' = {}
          BY <3>3, <4>1
        <5> QED
          BY <3>3, <4>1, <5>1
      <4>2. CASE down' = <<Rows(inbox, 0)>>
        <5>1. down' \in Seq(SUBSET Seqs) /\ DOMAIN down' = {1} /\ down'[1] = Rows(inbox, 0)
          BY <3>3, <4>2
        <5> QED
          BY <3>1, <5>1
      <4> QED
        BY <3>2, <4>1, <4>2
    <3> QED
      BY <2>6, <3>4 DEF Connect, relay, client, disk, past, SaleTypeOK, SeqInv
  <2>7. CASE Acknowledged
    <3>1. Head(up) \in Seqs /\ Tail(up) \in Seq(Seqs)
      BY <2>3, <2>7, Taken DEF Acknowledged
    <3>2. inbox' \in SUBSET Seqs /\ inbox' \subseteq inbox
      BY <2>2, <2>7 DEF Acknowledged
    <3>3. NextPage(inbox', Head(up)) \subseteq inbox'
      BY <3>1, <3>2, PageRows, SeqsAreNumbers DEF NextPage
    <3>4. NextPage(inbox', Head(up)) \in SUBSET Seqs /\ NextPage(inbox', Head(up)) \subseteq 1 .. last
      BY <2>2, <3>2, <3>3
    <3>5. down' = down \/ down' = Append(down, NextPage(inbox', Head(up)))
      BY <2>7 DEF Acknowledged
    <3>6. down' \in Seq(SUBSET Seqs) /\ \A i \in DOMAIN down' : down'[i] \subseteq 1 .. last
      <4>1. last \in Nat /\ last <= last
        BY <2>2
      <4> QED
        BY <2>2, <2>3, <2>4, <3>4, <3>5, <4>1
    <3>7. up' = Tail(up) /\ UNCHANGED <<last, note, conn, late, client, disk, past>>
      BY <2>7 DEF Acknowledged
    <3>8. inbox' \subseteq 1 .. last
      BY <2>2, <3>2
    <3> QED
      BY <3>1, <3>2, <3>6, <3>7, <3>8 DEF client, disk, past, SaleTypeOK, SeqInv
  <2>8. ASSUME NEW t \in Seqs, AcknowledgedLate(t) \/ Alarm(t) PROVE SaleTypeOK' /\ SeqInv'
    BY <2>8 DEF AcknowledgedLate, Alarm, wires, client, disk, past, SaleTypeOK, SeqInv
  <2>9. CASE Receive
    <3>1. /\ Head(down) \in SUBSET Seqs /\ Head(down) = down[1]
          /\ Tail(down) \in Seq(SUBSET Seqs)
          /\ Len(down) \in Nat \ {0}
          /\ DOMAIN down = 1 .. Len(down)
          /\ DOMAIN Tail(down) = 1 .. (Len(down) - 1)
          /\ \A i \in 1 .. (Len(down) - 1) : Tail(down)[i] = down[i + 1]
      BY <2>3, <2>9, Taken DEF Receive
    <3>2. Head(down) \subseteq 1 .. last /\ \A i \in DOMAIN Tail(down) : Tail(down)[i] \subseteq 1 .. last
      BY <2>2, <3>1
    <3>3. down' = Tail(down) /\ page' = Head(down) /\ through' = 0
      BY <2>9 DEF Receive
    <3>4. 0 \in 0 .. MaxSeq
      BY StreamConstants
    <3> QED
      BY <2>9, <3>1, <3>2, <3>3, <3>4 DEF Receive, relay, disk, past, SaleTypeOK, SeqInv
  <2>10. ASSUME NEW s \in page, Handled(s)
         PROVE  /\ page' \in SUBSET Seqs /\ page' \subseteq 1 .. last
                /\ through' \in 0 .. MaxSeq /\ open' \in BOOLEAN /\ fresh' \in SUBSET Sold
                /\ up' \in Seq(Seqs)
    <3>1. s \in Seqs /\ s \in 0 .. MaxSeq
      BY <2>2, SeqsAreNumbers
    <3>2. Append(up, s) \in Seq(Seqs)
      BY <2>3, <3>1, Appended
    <3>3. up' = up \/ up' = Append(up, s)
      BY <2>10 DEF Handled
    <3>4. up' \in Seq(Seqs)
      BY <2>3, <3>2, <3>3
    <3> QED
      BY <2>2, <2>10, <3>1, <3>4 DEF Handled
  <2>11. ASSUME NEW s \in page, Open(s) PROVE SaleTypeOK' /\ SeqInv'
    BY <2>2, <2>10, <2>11 DEF Open, relay, disk, SaleTypeOK, SeqInv
  <2>12. ASSUME NEW s \in page, Announce(s) PROVE SaleTypeOK' /\ SeqInv'
    BY <2>10, <2>12 DEF Announce, relay, past, SaleTypeOK, SeqInv
  <2>13. ASSUME NEW s \in page, NEW l \in Sold, RecordSale(s, l) PROVE SaleTypeOK' /\ SeqInv'
    BY <2>13 DEF RecordSale, relay, wires, past, SaleTypeOK, SeqInv
  <2>14. ASSUME NEW s \in page, Fail(s) PROVE SaleTypeOK' /\ SeqInv'
    <3>1. through \in 0 .. MaxSeq
      BY DEF SaleTypeOK
    <3>2. through # 0 => through \in Seqs
      BY <3>1, StreamConstants DEF Seqs
    <3>3. through # 0 => Append(up, through) \in Seq(Seqs)
      BY <2>3, <3>2, Appended
    <3>4. up' \in Seq(Seqs)
      BY <2>3, <2>14, <3>3 DEF Fail
    <3> QED
      BY <2>14, <3>4 DEF Fail, relay, disk, SaleTypeOK, SeqInv
  <2>15. CASE StreamEnds
    <3>1. <<>> \in Seq(SUBSET Seqs) /\ <<>> \in Seq(Seqs) /\ DOMAIN <<>> = {}
      BY Fresh
    <3>2. {up[i] : i \in DOMAIN up} \subseteq Seqs
      BY <2>3
    <3>3. late' \in SUBSET Seqs
      BY <2>15, <3>2 DEF StreamEnds, SaleTypeOK
    <3>4. down' \in Seq(SUBSET Seqs) /\ up' \in Seq(Seqs) /\ DOMAIN down' = {}
      BY <2>15, <3>1 DEF StreamEnds
    <3>5. 0 \in 0 .. MaxSeq
      BY StreamConstants
    <3> QED
      BY <2>15, <3>3, <3>4, <3>5 DEF StreamEnds, relay, disk, past, SaleTypeOK, SeqInv
  <2>16. CASE SetSaleDetection \/ \E l \in Sold : RecoverOrder(l)
    BY <2>16 DEF SetSaleDetection, RecoverOrder, relay, wires, client, past, SaleTypeOK, SeqInv
  <2> QED
    BY <2>1, <2>5, <2>6, <2>7, <2>8, <2>9, <2>11, <2>12, <2>13, <2>14, <2>15, <2>16
       DEF SNext, Webhook, Handle
<1> QED
  BY <1>1, <1>2, PTL DEF SSpec

----------------------------------------------------------------------------
(* Nothing is lost that Studio did not fail at.                            *)

StreamSafe == IdleInv /\ AckInv /\ AheadInv /\ OrderInv /\ UnrecordedOnlyMissed

\* The seqs on either wire are numbers.
LEMMA OnTheWire ==
    ASSUME SaleTypeOK
    PROVE  /\ last \in 0 .. MaxSeq /\ through \in 0 .. MaxSeq
           /\ page \subseteq Seqs /\ inbox \subseteq Seqs /\ late \subseteq Seqs
           /\ Len(down) \in Nat /\ DOMAIN down = 1 .. Len(down)
           /\ \A i \in DOMAIN down : down[i] \subseteq Seqs
           /\ Len(up) \in Nat /\ DOMAIN up = 1 .. Len(up)
           /\ \A i \in DOMAIN up : up[i] \in Seqs
<1>1. down \in Seq(SUBSET Seqs) /\ up \in Seq(Seqs)
  BY DEF SaleTypeOK
<1>2. Len(down) \in Nat /\ DOMAIN down = 1 .. Len(down) /\ \A i \in DOMAIN down : down[i] \in SUBSET Seqs
  BY <1>1
<1>3. Len(up) \in Nat /\ DOMAIN up = 1 .. Len(up) /\ \A i \in DOMAIN up : up[i] \in Seqs
  BY <1>1
<1> QED
  BY <1>2, <1>3 DEF SaleTypeOK

\* A sale that is not in the inbox is settled.
LEMMA InboxOrSettled ==
    ASSUME SaleTypeOK
    PROVE  UnrecordedOnlyMissed <=> 1 .. last \subseteq inbox \cup Settled
BY DEF UnrecordedOnlyMissed, Settled

\* A step that settles more, and takes nothing off the inbox, the message in hand
\* or the wires, loses nothing.
LEMMA MoreSettled ==
    ASSUME SaleTypeOK, StreamSafe, Settled \subseteq Settled',
           UNCHANGED <<relay, wires, page, through>>
    PROVE  IdleInv' /\ AckInv' /\ AheadInv' /\ OrderInv' /\ 1 .. last' \subseteq (inbox \cup Settled)'
BY InboxOrSettled DEF StreamSafe, relay, wires, IdleInv, AckInv, AheadInv, OrderInv

\* When the event at hand is settled, it and all before it may be acknowledged.
LEMMA HandledSettled ==
    ASSUME SaleTypeOK, SeqInv, StreamSafe, Settled \subseteq Settled',
           NEW s \in page, AtHand(s), s \in Settled', Handled(s),
           UNCHANGED <<relay, conn, down, late>>
    PROVE  IdleInv' /\ AckInv' /\ AheadInv' /\ OrderInv' /\ 1 .. last' \subseteq (inbox \cup Settled)'
<1>1. s \in Nat /\ s <= last /\ page \subseteq Nat
  BY OnTheWire, StreamConstants DEF SeqInv, Seqs
<1>2. 1 .. s \subseteq Settled'
  <2>1. 1 .. s \subseteq Settled \cup page
    BY DEF StreamSafe, OrderInv
  <2>2. \A r \in page : s <= r
    BY DEF AtHand
  <2> QED
    BY <1>1, <2>1, <2>2
<1>3. page' = page \ {s} /\ through' = s /\ UNCHANGED <<last, inbox, conn, down, late>>
  BY DEF Handled, relay
<1>4. page \subseteq page' \cup Settled'
  BY <1>3
<1>5. IdleInv'
  BY <1>3 DEF StreamSafe, IdleInv, Handled
<1>6. AckInv'
  <2>1. \A t \in {up'[i] : i \in DOMAIN up'} : t \in {up[i] : i \in DOMAIN up} \/ t = s
    <3>1. CASE up' = up
      BY <3>1
    <3>2. CASE up' = Append(up, s)
      <4>1. up \in Seq(Seqs) /\ s \in Seqs
        BY OnTheWire DEF SaleTypeOK
      <4>2. /\ DOMAIN Append(up, s) = 1 .. (Len(up) + 1)
            /\ DOMAIN up = 1 .. Len(up) /\ Len(up) \in Nat
            /\ \A i \in 1 .. Len(up) : Append(up, s)[i] = up[i]
            /\ Append(up, s)[Len(up) + 1] = s
        BY <4>1, Appended
      <4>3. \A i \in 1 .. (Len(up) + 1) : i \in 1 .. Len(up) \/ i = Len(up) + 1
        BY <4>2
      <4> QED
        BY <3>2, <4>2, <4>3
    <3> QED
      BY <3>1, <3>2 DEF Handled
  <2>2. \A t \in late \cup {up[i] : i \in DOMAIN up} : t <= last /\ 1 .. t \subseteq Settled
    BY DEF StreamSafe, AckInv
  <2> QED
    BY <1>1, <1>2, <1>3, <2>1, <2>2 DEF AckInv
<1>7. AheadInv'
  BY <1>3, <1>4 DEF StreamSafe, AheadInv
<1>8. OrderInv'
  BY <1>3, <1>4 DEF StreamSafe, OrderInv
<1> QED
  BY <1>3, <1>5, <1>6, <1>7, <1>8, InboxOrSettled DEF StreamSafe

\* A message at the end of the wire to Studio may hold any seqs there are, for
\* whatever is not settled is ahead of it.
LEMMA AnyMessageNext ==
    ASSUME SaleTypeOK, SeqInv, StreamSafe, conn,
           NEW rows \in SUBSET Seqs, NEW high \in Nat, last <= high,
           \A s \in 1 .. high : s \in 1 .. last \/ s \in rows,
           rows \subseteq 1 .. high,
           \A s \in 1 .. last : s \in Settled => s \in Settled', UNCHANGED <<conn, page>>,
           down' = Append(down, rows), last' = high
    PROVE  IdleInv' /\ AheadInv' /\ OrderInv'
<1>1. /\ DOMAIN down' = 1 .. (Len(down) + 1)
      /\ DOMAIN down = 1 .. Len(down) /\ Len(down) \in Nat
      /\ \A i \in 1 .. Len(down) : down'[i] = down[i]
      /\ down'[Len(down) + 1] = rows
  BY Appended DEF SaleTypeOK
<1>2. \A i \in 1 .. (Len(down) + 1) : i \in 1 .. Len(down) \/ i = Len(down) + 1
  BY <1>1
<1>3. 1 .. Len(down) \subseteq 1 .. (Len(down) + 1) /\ Len(down) + 1 \in 1 .. (Len(down) + 1)
  BY <1>1
<1>4. \A s \in 1 .. last : s \in Settled \cup page \/ \E i \in 1 .. Len(down) : s \in down[i]
  BY <1>1 DEF StreamSafe, AheadInv
<1>0. /\ \A r \in page : r \in 1 .. last /\ \A s \in 1 .. r : s \in 1 .. last
      /\ \A i \in DOMAIN down : \A r \in down[i] : r \in 1 .. last /\ \A s \in 1 .. r : s \in 1 .. last
  <2>1. \A r \in 1 .. last : \A s \in 1 .. r : s \in 1 .. last
    BY DEF SaleTypeOK
  <2> QED
    BY <2>1 DEF SeqInv
<1>5. \A s \in 1 .. last' : s \in Settled' \cup page' \/ \E i \in 1 .. (Len(down) + 1) : s \in down'[i]
  BY <1>1, <1>3, <1>4
<1>6. AheadInv'
  BY <1>1, <1>5 DEF AheadInv
<1>7. ASSUME NEW i \in DOMAIN down', NEW r \in down'[i], NEW s \in 1 .. r
      PROVE  s \in Settled' \cup page' \/ \E k \in 1 .. i : s \in down'[k]
  <2>1. CASE i \in 1 .. Len(down)
    <3>1. s \in Settled \cup page \/ \E k \in 1 .. i : s \in down[k]
      BY <1>1, <1>7, <2>1 DEF StreamSafe, OrderInv
    <3>3. s \in 1 .. last
      BY <1>0, <1>1, <1>7, <2>1
    <3>2. \A k \in 1 .. i : k \in 1 .. Len(down)
      BY <1>1, <2>1
    <3> QED
      BY <1>1, <3>1, <3>2, <3>3
  <2>2. CASE i = Len(down) + 1
    <3>1. r \in rows
      BY <1>1, <1>7, <2>2
    <3>2. s \in 1 .. last'
      BY <3>1
    <3> QED
      BY <1>5, <2>2, <3>2
  <2> QED
    BY <1>1, <1>2, <1>7, <2>1, <2>2
<1>8. OrderInv'
  BY <1>0, <1>7 DEF StreamSafe, OrderInv
<1> QED
  BY <1>6, <1>8 DEF IdleInv

\* A sale whose notification the relay took is never gone from the inbox before
\* Studio recorded it, unless Studio failed at it or at one before it in its
\* message: whatever is dropped, sent again, or acknowledged late, as long as the
\* inbox never holds more than a page.
THEOREM NoSaleLost == SSpec /\ []FitsPage => []UnrecordedOnlyMissed
<1> DEFINE Safe == IdleInv /\ AckInv /\ AheadInv /\ OrderInv /\ 1 .. last \subseteq inbox \cup Settled
<1>1. SInit => StreamSafe
  BY DEF SInit, StreamSafe, IdleInv, AckInv, AheadInv, OrderInv, UnrecordedOnlyMissed
<1>2. /\ SaleTypeOK /\ SeqInv /\ StreamSafe /\ FitsPage
      /\ [SNext]_svars /\ SaleTypeOK' /\ SeqInv'
      => StreamSafe'
  <2> SUFFICES ASSUME SaleTypeOK, SeqInv, StreamSafe, FitsPage,
                      [SNext]_svars, SaleTypeOK', SeqInv'
               PROVE  StreamSafe'
    OBVIOUS
  <2> SUFFICES Safe'
    BY InboxOrSettled DEF StreamSafe, UnrecordedOnlyMissed, Settled, Recorded, Seqs, SaleTypeOK
  <2>0. Safe /\ last \in 0 .. MaxSeq /\ inbox \cup page \subseteq 1 .. last /\ MaxSeq \in Nat
    BY InboxOrSettled, StreamConstants DEF StreamSafe, SaleTypeOK, SeqInv
  <2>1. CASE UNCHANGED svars
    <3>1. Settled \subseteq Settled'
      BY <2>1, SettledStays DEF svars
    <3> QED
      BY <2>1, <3>1, MoreSettled DEF svars, relay, wires
  <2>2. ASSUME NEW n \in Notes, Add(n) PROVE Safe'
    <3>1. /\ last' = last + 1 /\ last + 1 \in Seqs /\ inbox' = inbox \cup {last + 1}
          /\ UNCHANGED <<conn, up, late, page, through>>
      BY <2>0, <2>2 DEF Add, client, Seqs
    <3>2. \A s \in 1 .. last : s \in Settled => s \in Settled'
      BY <2>0, <2>2 DEF Add, disk, past, Settled, Recorded, SaleTypeOK, Seqs
    <3>3. 1 .. last' \subseteq inbox' \cup Settled'
      BY <2>0, <3>1, <3>2
    <3>4. AckInv'
      <4>1. \A t \in late \cup {through} \cup {up[i] : i \in DOMAIN up} :
              t \in Nat /\ t <= last /\ 1 .. t \subseteq Settled
        <5>1. late \subseteq Nat /\ through \in Nat
          <6>1. late \subseteq Seqs /\ through \in 0 .. MaxSeq
            BY DEF SaleTypeOK
          <6> QED
            BY <6>1, SeqsAreNumbers
        <5>2. \A i \in DOMAIN up : up[i] \in Nat
          BY OnTheWire, SeqsAreNumbers
        <5> QED
          BY <2>0, <5>1, <5>2 DEF AckInv
      <4>2. \A t \in Nat : t <= last => t <= last' /\ 1 .. t \subseteq 1 .. last
        BY <2>0, <3>1
      <4> QED
        BY <3>1, <3>2, <4>1, <4>2 DEF AckInv
    <3>5. IdleInv' /\ AheadInv' /\ OrderInv'
      <4>1. CASE conn
        <5>1. /\ {last + 1} \in SUBSET Seqs /\ last + 1 \in Nat /\ last <= last + 1
              /\ \A s \in 1 .. (last + 1) : s \in 1 .. last \/ s \in {last + 1}
              /\ {last + 1} \subseteq 1 .. (last + 1)
          BY <2>0, <3>1
        <5>2. down' = Append(down, {last + 1})
          BY <2>2, <4>1 DEF Add
        <5> QED
          BY <3>1, <3>2, <4>1, <5>1, <5>2, AnyMessageNext
      <4>2. CASE ~conn
        <5>1. ~conn' /\ page' = {} /\ down' = <<>> /\ up' = <<>> /\ DOMAIN down' = {}
          BY <2>0, <2>2, <3>1, <4>2, Fresh DEF Add, IdleInv
        <5> QED
          BY <5>1 DEF IdleInv, AheadInv, OrderInv
      <4> QED
        BY <4>1, <4>2
    <3> QED
      BY <3>3, <3>4, <3>5
  <2>3. CASE Connect
    <3>1. Settled \subseteq Settled'
      BY <2>3, SettledStays DEF Connect, relay, disk, past
    <3>2. conn' /\ ~conn /\ UNCHANGED <<last, inbox, up, late, page, through>>
      BY <2>3 DEF Connect, relay, client, SaleTypeOK
    <3>3. page = {}
      BY <2>0, <3>2 DEF IdleInv
    <3>4. AckInv'
      BY <2>0, <3>1, <3>2 DEF AckInv
    <3>5. \A s \in inbox : s \in Nat /\ s > 0
      BY <2>0
    <3>6. Rows(inbox, 0) = inbox
      <4>1. Rows(inbox, 0) = {s \in inbox : s > 0}
        BY PageRows DEF SaleTypeOK, FitsPage
      <4> QED
        BY <3>5, <4>1
    <3>7. inbox \in SUBSET Seqs
      BY DEF SaleTypeOK
    <3>8. \/ down' = <<>> /\ inbox = {} /\ DOMAIN down' = {}
          \/ DOMAIN down' = {1} /\ down'[1] = inbox
      <4>1. /\ <<inbox>> \in Seq(SUBSET Seqs) /\ DOMAIN <<inbox>> = {1} /\ <<inbox>>[1] = inbox
            /\ DOMAIN <<>> = {}
        BY <3>7, Fresh
      <4>2. (down' = <<>> /\ inbox = {}) \/ down' = <<inbox>>
        BY <2>3, <3>6 DEF Connect
      <4>3. CASE down' = <<>> /\ inbox = {}
        BY <4>1, <4>3
      <4>4. CASE down' = <<inbox>>
        BY <4>1, <4>4
      <4> QED
        BY <4>2, <4>3, <4>4
    <3>9. \A s \in 1 .. last : s \in Settled' \/ s \in inbox
      BY <2>0, <3>1
    <3>10. AheadInv'
      BY <3>2, <3>8, <3>9 DEF AheadInv
    <3>11. OrderInv'
      <4>1. \A r \in inbox : \A s \in 1 .. r : s \in 1 .. last
        BY <2>0
      <4>2. CASE DOMAIN down' = {}
        BY <3>2, <3>3, <4>2 DEF OrderInv
      <4>3. CASE DOMAIN down' = {1} /\ down'[1] = inbox
        <5>1. 1 \in 1 .. 1
          OBVIOUS
        <5> QED
          BY <3>2, <3>3, <3>9, <4>1, <4>3, <5>1 DEF OrderInv
      <4> QED
        BY <3>8, <4>2, <4>3
    <3> QED
      BY <2>0, <3>1, <3>2, <3>4, <3>10, <3>11 DEF IdleInv
  <2>4. CASE Acknowledged
    <3> DEFINE rows == NextPage(inbox', Head(up))
    <3>1. Settled \subseteq Settled'
      BY <2>4, SettledStays DEF Acknowledged, disk, past
    <3>2. /\ up # <<>> /\ up' = Tail(up) /\ inbox' = {s \in inbox : s > Head(up)}
          /\ UNCHANGED <<last, conn, late, page, through>>
          /\ down' = IF rows # {} THEN Append(down, rows) ELSE down
      BY <2>4 DEF Acknowledged, client
    <3>3. /\ Head(up) \in Seqs /\ Head(up) = up[1] /\ Len(up) \in Nat \ {0}
          /\ DOMAIN up = 1 .. Len(up) /\ DOMAIN up' = 1 .. (Len(up) - 1)
          /\ \A i \in 1 .. (Len(up) - 1) : up'[i] = up[i + 1]
      <4>1. up \in Seq(Seqs)
        BY DEF SaleTypeOK
      <4> QED
        BY <3>2, <4>1, Taken
    <3>4. \A i \in DOMAIN up' : \E k \in DOMAIN up : up'[i] = up[k]
      BY <3>3
    <3>5. Head(up) \in Nat /\ 1 .. Head(up) \subseteq Settled
      <4>1. 1 \in DOMAIN up
        BY <3>3
      <4> QED
        BY <2>0, <3>3, <4>1, SeqsAreNumbers DEF AckInv
    <3>6. AckInv'
      BY <2>0, <3>1, <3>2, <3>4 DEF AckInv
    <3>7. \A s \in 1 .. last : s \in inbox' \cup Settled'
      BY <2>0, <3>1, <3>2, <3>5
    <3>8. conn
      BY <2>0, <3>2 DEF IdleInv
    <3>9. IdleInv' /\ AheadInv' /\ OrderInv'
      <4>1. CASE rows = {}
        <5>1. down' = down
          BY <3>2, <4>1
        <5> QED
          BY <2>0, <3>1, <3>2, <3>8, <5>1 DEF IdleInv, AheadInv, OrderInv
      <4>2. CASE rows # {}
        <5>1. rows \subseteq inbox'
          BY <3>5, PageRows DEF NextPage, SaleTypeOK
        <5>2. rows \in SUBSET Seqs /\ rows \subseteq 1 .. last
          BY <2>0, <3>2, <5>1 DEF SaleTypeOK
        <5>3. down' = Append(down, rows)
          BY <3>2, <4>2
        <5> HIDE DEF rows
        <5>4. last \in Nat /\ last <= last
          BY <2>0
        <5> QED
          BY <3>1, <3>2, <3>8, <5>2, <5>3, <5>4, AnyMessageNext
      <4> QED
        BY <4>1, <4>2
    <3> QED
      BY <3>2, <3>6, <3>7, <3>9
  <2>5. ASSUME NEW t \in Seqs, AcknowledgedLate(t) PROVE Safe'
    <3>1. Settled \subseteq Settled'
      BY <2>5, SettledStays DEF AcknowledgedLate, disk, past
    <3>2. 1 .. t \subseteq Settled
      BY <2>0, <2>5 DEF AckInv, AcknowledgedLate
    <3>3. t \in Nat
      BY SeqsAreNumbers
    <3>4. \A s \in 1 .. last : s \in inbox' \cup Settled'
      BY <2>0, <2>5, <3>1, <3>2, <3>3 DEF AcknowledgedLate
    <3>5. late' \subseteq late /\ UNCHANGED <<last, conn, down, up, page, through>>
      BY <2>5 DEF AcknowledgedLate, client
    <3>6. AckInv'
      BY <2>0, <3>1, <3>5 DEF AckInv
    <3> QED
      BY <2>0, <3>1, <3>4, <3>5, <3>6 DEF IdleInv, AheadInv, OrderInv
  <2>6. ASSUME NEW t \in Seqs, Alarm(t) PROVE Safe'
    <3>1. /\ inbox \ inbox' \subseteq dropped' /\ inbox' \subseteq inbox
          /\ UNCHANGED <<last, conn, down, up, late, page, through>>
      BY <2>6 DEF Alarm, wires, client
    <3>2. Settled \subseteq Settled'
      BY <2>6, SettledStays DEF Alarm, disk
    <3>3. inbox \ inbox' \subseteq Settled'
      BY <2>0, <3>1 DEF Settled, Seqs
    <3> QED
      BY <2>0, <3>1, <3>2, <3>3 DEF IdleInv, AckInv, AheadInv, OrderInv
  <2>7. CASE Receive
    <3>1. Settled \subseteq Settled'
      BY <2>7, SettledStays DEF Receive, relay, disk, past
    <3>2. /\ page = {} /\ down # <<>> /\ page' = Head(down) /\ down' = Tail(down)
          /\ through' = 0 /\ UNCHANGED <<last, inbox, conn, up, late>>
      BY <2>7 DEF Receive, relay
    <3>3. /\ Head(down) = down[1] /\ Len(down) \in Nat \ {0} /\ DOMAIN down = 1 .. Len(down)
          /\ DOMAIN down' = 1 .. (Len(down) - 1)
          /\ \A i \in 1 .. (Len(down) - 1) : down'[i] = down[i + 1]
      <4>1. down \in Seq(SUBSET Seqs)
        BY DEF SaleTypeOK
      <4> QED
        BY <3>2, <4>1, Taken
    <3>4. \* What was on the wire is in hand, or one nearer.
          ASSUME NEW k \in DOMAIN down
          PROVE  \/ k = 1 /\ page' = down[k]
                 \/ k - 1 \in DOMAIN down' /\ down'[k - 1] = down[k]
      <4>1. CASE k = 1
        BY <3>2, <3>3, <4>1
      <4>2. CASE k # 1
        <5>1. k - 1 \in 1 .. (Len(down) - 1) /\ (k - 1) + 1 = k
          BY <3>3, <3>4, <4>2
        <5> QED
          BY <3>3, <5>1
      <4> QED
        BY <4>1, <4>2
    <3>5. AckInv'
      BY <2>0, <3>1, <3>2 DEF AckInv
    <3>6. AheadInv'
      <4>1. SUFFICES ASSUME conn, NEW s \in 1 .. last
                     PROVE  s \in Settled' \cup page' \/ \E i \in DOMAIN down' : s \in down'[i]
        BY <3>2 DEF AheadInv
      <4>2. s \in Settled \/ \E i \in DOMAIN down : s \in down[i]
        BY <2>0, <3>2, <4>1 DEF AheadInv
      <4> QED
        BY <3>1, <3>4, <4>2
    <3>7. OrderInv'
      <4>1. ASSUME NEW r \in page', NEW s \in 1 .. r PROVE s \in Settled' \cup page'
        <5>1. 1 \in DOMAIN down /\ r \in down[1]
          BY <3>2, <3>3
        <5>2. s \in Settled \/ \E k \in 1 .. 1 : s \in down[k]
          BY <2>0, <3>2, <5>1 DEF OrderInv
        <5> QED
          BY <3>1, <3>2, <3>3, <5>2
      <4>2. ASSUME NEW i \in DOMAIN down', NEW r \in down'[i], NEW s \in 1 .. r
            PROVE  s \in Settled' \cup page' \/ \E k \in 1 .. i : s \in down'[k]
        <5>1. i + 1 \in DOMAIN down /\ r \in down[i + 1] /\ i \in Nat
          BY <3>3, <4>2
        <5>2. s \in Settled \/ \E k \in 1 .. (i + 1) : s \in down[k]
          BY <2>0, <3>2, <5>1 DEF OrderInv
        <5>3. ASSUME NEW k \in 1 .. (i + 1), s \in down[k]
              PROVE  s \in page' \/ \E j \in 1 .. i : s \in down'[j]
          <6>1. k \in DOMAIN down /\ (k = 1 \/ k - 1 \in 1 .. i)
            BY <3>3, <5>1
          <6>2. CASE k = 1
            BY <3>2, <3>3, <5>3, <6>2
          <6>3. CASE k # 1
            <7>1. k - 1 \in 1 .. i /\ down'[k - 1] = down[k]
              BY <3>4, <6>1, <6>3
            <7> QED
              BY <5>3, <7>1
          <6> QED
            BY <6>2, <6>3
        <5> QED
          BY <3>1, <5>2, <5>3
      <4> QED
        BY <4>1, <4>2 DEF OrderInv
    <3>8. IdleInv'
      BY <2>0, <3>2 DEF IdleInv
    <3> QED
      BY <2>0, <3>1, <3>2, <3>5, <3>6, <3>7, <3>8
  <2>8. ASSUME NEW s \in page, Open(s) PROVE Safe'
    <3>1. Settled \subseteq Settled'
      BY <2>8, SettledStays DEF Open, relay, disk
    <3>2. CASE UNCHANGED <<page, through, fresh, up, dropped>>
      BY <2>8, <3>1, <3>2, MoreSettled DEF Open, wires
    <3>3. CASE Handled(s) /\ dropped' = dropped \cup {s}
      <4>1. s \in Settled'
        BY <2>0, <2>8, <3>3 DEF Open, relay, Settled
      <4> QED
        BY <2>8, <3>1, <3>3, <4>1, HandledSettled DEF Open
    <3> QED
      BY <2>8, <3>2, <3>3 DEF Open
  <2>9. ASSUME NEW s \in page, NEW l \in Sold, RecordSale(s, l) PROVE Safe'
    <3>1. Settled \subseteq Settled'
      BY <2>9, SettledStays DEF RecordSale, relay, past
    <3> QED
      BY <2>9, <3>1, MoreSettled DEF RecordSale
  <2>10. ASSUME NEW s \in page, Announce(s) PROVE Safe'
    <3>1. Settled \subseteq Settled'
      BY <2>10, SettledStays DEF Announce, relay, past
    <3>2. s \in Settled
      BY <2>0, <2>10 DEF Announce, Settled
    <3> QED
      BY <2>10, <3>1, <3>2, HandledSettled DEF Announce
  <2>11. ASSUME NEW s \in page, Fail(s) PROVE Safe'
    <3>1. Settled \subseteq Settled'
      BY <2>11, SettledStays DEF Fail, relay, disk
    <3>2. /\ page' = {} /\ missed' = missed \cup page
          /\ UNCHANGED <<last, inbox, conn, down, late, through>>
          /\ up' = IF through # 0 THEN Append(up, through) ELSE up
      BY <2>11 DEF Fail, relay
    <3>3. page \subseteq Settled'
      BY <2>0, <3>2 DEF Settled
    <3>4. \A t \in {up'[i] : i \in DOMAIN up'} : t \in {up[i] : i \in DOMAIN up} \/ t = through
      <4>1. CASE up' = up
        BY <4>1
      <4>2. CASE through # 0 /\ up' = Append(up, through)
        <5>1. up \in Seq(Seqs) /\ through \in Seqs
          BY <4>2, StreamConstants DEF SaleTypeOK, Seqs
        <5>2. /\ DOMAIN up' = 1 .. (Len(up) + 1)
              /\ DOMAIN up = 1 .. Len(up) /\ Len(up) \in Nat
              /\ \A i \in 1 .. Len(up) : up'[i] = up[i]
              /\ up'[Len(up) + 1] = through
          BY <4>2, <5>1, Appended
        <5>3. \A i \in 1 .. (Len(up) + 1) : i \in 1 .. Len(up) \/ i = Len(up) + 1
          BY <5>2
        <5> QED
          BY <5>2, <5>3
      <4> QED
        BY <3>2, <4>1, <4>2
    <3>5. AckInv'
      BY <2>0, <3>1, <3>2, <3>4 DEF AckInv
    <3>6. AheadInv' /\ OrderInv'
      BY <2>0, <3>1, <3>2, <3>3 DEF AheadInv, OrderInv
    <3>7. IdleInv'
      <4>1. conn
        BY <2>0, <2>11 DEF IdleInv
      <4> QED
        BY <3>2, <4>1 DEF IdleInv
    <3> QED
      BY <2>0, <3>1, <3>2, <3>5, <3>6, <3>7
  <2>12. CASE StreamEnds
    <3>1. Settled \subseteq Settled'
      BY <2>12, SettledStays DEF StreamEnds, relay, disk, past
    <3>2. /\ ~conn' /\ page' = {} /\ down' = <<>> /\ up' = <<>> /\ through' = 0
          /\ UNCHANGED <<last, inbox>>
      BY <2>12 DEF StreamEnds, relay
    <3>3. late' \subseteq late \cup {up[i] : i \in DOMAIN up}
      BY <2>12 DEF StreamEnds
    <3>4. DOMAIN up' = {} /\ DOMAIN down' = {}
      BY <3>2, Fresh
    <3>5. AckInv'
      <4>1. {up'[i] : i \in DOMAIN up'} = {}
        BY <3>4
      <4>2. \A t \in late' \cup {0} : t <= last /\ 1 .. t \subseteq Settled
        BY <2>0, <3>3 DEF AckInv
      <4> QED
        BY <3>1, <3>2, <4>1, <4>2 DEF AckInv
    <3> QED
      BY <2>0, <3>1, <3>2, <3>4, <3>5 DEF IdleInv, AheadInv, OrderInv
  <2>13. CASE SetSaleDetection \/ \E l \in Sold : RecoverOrder(l)
    <3>1. Settled \subseteq Settled'
      BY <2>13, SettledStays DEF SetSaleDetection, RecoverOrder, relay, past
    <3> QED
      BY <2>13, <3>1, MoreSettled DEF SetSaleDetection, RecoverOrder, client
  <2> QED
    BY <2>1, <2>2, <2>3, <2>4, <2>5, <2>6, <2>7, <2>8, <2>9, <2>10, <2>11, <2>12, <2>13
       DEF SNext, Webhook, Handle
<1> QED
  BY <1>1, <1>2, SaleTyping, PTL DEF SSpec, StreamSafe
=============================================================================
