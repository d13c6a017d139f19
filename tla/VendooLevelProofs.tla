-------------------------- MODULE VendooLevelProofs --------------------------
(***************************************************************************)
(* What each side of a synced listing knows of the other, for every number *)
(* of edits on both sides: no sync pulls over an unsent edit, a conflict   *)
(* stands, and marks that say level are right.  LInv is the inductive      *)
(* invariant.                                                              *)
(*                                                                         *)
(* A draft that was read may be old by the time its content is used.  Two  *)
(* readings with one stamp can differ by what a write of the forms put     *)
(* there, and by that alone (Reads); and what Studio puts in the draft was *)
(* in the listing here, or was in the draft already (Writes).  So a field  *)
(* that Vendoo changed and lost does not come back (Marks).                *)
(***************************************************************************)
EXTENDS VendooSyncProofs

----------------------------------------------------------------------------
(* The invariant.                                                          *)

\* An edit of either side that the other side has, or had.
Sent(v)  == v \in Here => v \in sent
Known(v) == v \in There => v \in known

\* A field of Vendoo's is not of a change still to come.
Past(v) == v \in There => v <= MaxEdits + made.changes

\* The draft, and what was read of it and is still to be used.
SyncRead == IF sync.at = "read" THEN {sync.item} ELSE {}
LoopRead ==
    IF loop.by \in {"first", "sync", "label", "conflict", "discard", "update"} THEN {loop.item} ELSE {}
DiscardRead ==
    (IF discard.at = "read" THEN {discard.item} ELSE {}) \cup (IF loop.by = "discard" THEN LoopRead ELSE {})

Copies == {item} \cup SyncRead \cup DiscardRead \cup LoopRead

\* The notes, and what threads read of them to write back.
Noted == {notes} \cup pens
Ats   == {n[2] : n \in Noted}

\* Old readings: nothing in them is unsent, and with the draft's stamp they
\* differ from it by a write of Studio's alone, which slips no mark by itself.
Reads ==
    /\ sent \subseteq Here /\ known \subseteq There /\ \A v \in known : Past(v)
    /\ \A i \in Copies :
        /\ i \in Item /\ i.stamp \in 1 .. item.stamp
        /\ \A p \in Parts : i.body[p] # Blank /\ Sent(i.body[p]) /\ Past(i.body[p])
        /\ i.stamp = item.stamp =>
            /\ \A p \in Parts : i.body[p] = item.body[p] \/ Known(item.body[p])
            /\ slipped \/ i.body = item.body

\* A sync and a Discard read the draft in either order: what the sync read and
\* is still there, the Discard read too, unless it read an older draft.
TwoReads ==
    \A i \in SyncRead, d \in DiscardRead : i.stamp <= d.stamp =>
        \A p \in Parts : i.body[p] = item.body[p] => i.body[p] = d.body[p] \/ Known(i.body[p])

\* What a listing holds of Vendoo's edits was pulled, and what it is level with
\* was sent.
Listings ==
    /\ \A p \in Parts : Known(cur[p])
    /\ \A n \in Noted : n[1] \in Bodies => \A p \in Parts : Sent(n[1][p])
    /\ loop.by = "sync" => \A p \in Parts : cur[p] \in Here => cur[p] \in sent \cup loop.race
    /\ loop.by \in {"first", "sync", "discard"} /\ loop.at \in {"save", "mark"} => loop.rev = loop.item.body
    /\ loop.at = "merge" => loop.by # "update"
    /\ loop.by = "update" => loop.rev = upd.rev
    /\ loop.by # "automation" /\ loop.at \in {"save", "mark"} => \A p \in Parts : Sent(loop.rev[p])
    /\ loop.by = "automation" \/ loop.at = "mark" => \A p \in Parts : Known(loop.rev[p])

\* A write puts in the draft what is known, or was there; an update's own, what
\* it wants there; and by the marks, a write of the forms changes nothing.
Writing(op) ==
    /\ op.value # Blank
    /\ Known(op.value) \/ op.value = op.base
    /\ upd # NoUpd /\ op.no = upd.no =>
        /\ upd.at \in {"general", "forms", "verify"}
        /\ op.value = Desired(upd.base)[op.part]
        /\ upd.at = "forms" /\ op.ver = item.ver /\ op.part = "forms"
                /\ (\E at \in Ats : item.stamp <= at) /\ ~slipped
            => op.value = item.body["forms"]

\* What an update has written, and is writing.
Writes ==
    /\ upd # NoUpd => \A p \in Parts : Known(upd.rev[p])
    /\ upd.at \in {"general", "forms", "verify"} =>
        \A p \in Parts : upd.base[p] # Blank /\ Sent(upd.base[p])
    /\ upd.at \in {"forms", "verify"} => Sent(upd.rev["general"])
    /\ upd.at = "verify" => Sent(upd.rev["forms"])
    /\ wipe # NoWipe => upd = NoUpd
    /\ \A op \in ops : Writing(op)

\* What marks say: by the stamp and by the print, Studio has what the draft and a
\* reading of it hold of Vendoo's edits.
Marks(sy, at, pr) ==
    /\ at = 0 => sy = None
    /\ at <= item.stamp
    /\ \A p \in Parts : Past(pr[p])
    /\ \A i \in {item} \cup SyncRead : \A p \in Parts :
        /\ i.stamp <= at /\ i.body[p] = item.body[p] => Known(i.body[p])
        /\ pr[p] = i.body[p] => Known(pr[p])

\* What a check that found nothing new is going to mark.
Labelled ==
    IF loop.by = "label" THEN {<<Gone, loop.item.stamp, loop.item.body, FALSE>>} ELSE {}

\* Whatever keeps marks: the notes, what threads read of them, what a reset took,
\* and what a check is going to mark.
Marked == Noted \cup {wipe.notes} \cup Labelled

MarksInv == \A n \in Marked : Marks(n[1], n[2], n[3])

\* And Studio is level with them, unless a mark slipped.
LevelBy(n) ==
    n[1] \in Bodies => \A p \in Parts :
        /\ n[1][p] \in {Blank, n[3][p]}
        /\ \A i \in {item} \cup SyncRead : i.stamp <= n[2] => n[1][p] \in {Blank, i.body[p]}

LevelInv ==
    ~slipped =>
        /\ \A n \in Noted : LevelBy(n)
        /\ loop.by = "label" /\ synced \in Bodies =>
             \A p \in Parts : synced[p] \in {Blank, loop.item.body[p]}

LInv == Reads /\ TwoReads /\ Listings /\ Writes /\ MarksInv /\ LevelInv

----------------------------------------------------------------------------
(* What a step does to the draft, to what was read of it, and to the       *)
(* histories.                                                              *)

\* What is known of every step here.
Step == SInd /\ Versions /\ LInv /\ [Next]_vars

\* An edit is of one side, and a field that is filled has one or the first.
LEMMA Values ==
    /\ Here \subseteq Nat /\ There \subseteq Nat /\ Here \cap There = {}
    /\ Blank \notin Here \cup There /\ 0 \notin Here \cup There
    /\ 0 .. Blank = {0, Blank} \cup Here \cup There
    /\ \A c \in Nat : MaxEdits + c + 1 \notin Here
BY Numbers DEF Here, There

\* Who touches the draft and the histories.
LEMMA WhoTouches ==
    ASSUME Step
    PROVE  \/ \E P \in SUBSET Parts : VendooChanges(P)
           \/ /\ made'.changes = made.changes
              /\ \/ \E op \in ops : ChromeWrites(op)
                 \/ SavesOver \/ PullEnds \/ SaveEnds
                 \/ \E old \in pens : NotesRewritten(old)
                 \/ UNCHANGED <<item, sent, known, slipped>>
<1>1. made \in [edits : Nat, changes : Nat, updates : Nat, asks : Nat]
  BY DEF Step, SInd, Typed
<1>2. CASE Chrome
  BY <1>2 DEF Chrome, ChromeReads, ChromeWrites, Written, WriteDropped, history
<1>3. CASE Loop
  BY <1>3 DEF Loop, PullMerges, SavesOver, PullEnds, SaveEnds, CheckEnds, history
<1>4. CASE SyncEnds \/ DiscardEnds \/ UNCHANGED vars
  BY <1>4 DEF SyncEnds, SyncAnswered, SyncUnavailable, DiscardEnds, history, vars
<1>5. CASE Save
  BY <1>5 DEF Save, TakeLock, SaveReads, SaveVerifies, SaveFails, history
<1>6. CASE Restart
  BY <1>1, <1>6 DEF Restart, Ask
<1>7. ASSUME NEW P \in SUBSET Parts, Edit(P) \/ Automation(P)
      PROVE  made'.changes = made.changes /\ UNCHANGED <<item, sent, known, slipped>>
  BY <1>1, <1>7 DEF Edit, Automation
<1>8. CASE StartSync \/ StartDiscard \/ PreviewSend \/ NotesRead
  BY <1>1, <1>8 DEF StartSync, StartDiscard, PreviewSend, NotesRead, Ask, history
<1>11. ASSUME NEW old \in pens, NotesRewritten(old) PROVE made'.changes = made.changes
  BY <1>11 DEF NotesRewritten
<1>9. ASSUME NEW prep \in BOOLEAN, SaveToVendoo(prep) \/ EnqueueReviewed(prep)
      PROVE  made'.changes = made.changes /\ UNCHANGED <<item, sent, known, slipped>>
  BY <1>1, <1>9 DEF SaveToVendoo, EnqueueReviewed, Begin
<1>10. ASSUME NEW kind \in {"regenerate", "clear"}, ResetStarts(kind) \/ ResetWipes(kind)
       PROVE  made'.changes = made.changes /\ UNCHANGED <<item, sent, known, slipped>>
  BY <1>1, <1>10 DEF ResetStarts, ResetWipes, Wiped, Ask
<1> QED
  BY <1>2, <1>3, <1>4, <1>5, <1>6, <1>7, <1>8, <1>9, <1>10, <1>11 DEF Step, Next, Seller

\* The histories grow, by what was in the draft or in the listing.
LEMMA HistoryGrows ==
    ASSUME Step
    PROVE  /\ sent \subseteq sent' /\ sent' \subseteq Here
           /\ known \subseteq known' /\ known' \subseteq There
           /\ \A v \in known' : Past(v)
           /\ made.changes \in Nat /\ made'.changes \in Nat /\ made.changes <= made'.changes
           /\ slipped => slipped'
<1>1. /\ made \in [edits : Nat, changes : Nat, updates : Nat, asks : Nat]
      /\ made.changes \in Nat /\ made.changes + 1 \in Nat
  BY Counted DEF Step, SInd, Typed
<1>2. made'.changes \in Nat /\ made.changes <= made'.changes
  <2>1. ASSUME NEW P \in SUBSET Parts, VendooChanges(P)
        PROVE  made'.changes = made.changes + 1
    BY <1>1, <2>1 DEF VendooChanges
  <2> QED BY <1>1, <2>1, WhoTouches
<1>3. /\ sent \subseteq Here /\ known \subseteq There /\ \A v \in known : Past(v)
      /\ \A i \in Copies : \A p \in Parts : Past(i.body[p])
  BY DEF Step, LInv, Reads
<1>4. sent \subseteq sent' /\ sent' \subseteq Here
  BY <1>3, WhoTouches
     DEF VendooChanges, ChromeWrites, Written, SavesOver, PullEnds, SaveEnds, NotesRewritten
<1>a. slipped => slipped'
  BY WhoTouches
     DEF VendooChanges, ChromeWrites, Written, SavesOver, PullEnds, SaveEnds, NotesRewritten
<1>5. \/ known' = known
      \/ SavesOver /\ known' = known \cup ({loop.rev[p] : p \in Parts} \cap There)
      \/ SaveEnds /\ known' = known \cup ({loop.item.body[p] : p \in Parts} \cap There)
  BY WhoTouches
     DEF VendooChanges, ChromeWrites, Written, SavesOver, PullEnds, SaveEnds, NotesRewritten
<1>6. ASSUME SavesOver, NEW p \in Parts, loop.rev[p] \in There
      PROVE  Past(loop.rev[p])
  <2>1. CASE loop.by = "automation"
    BY <1>3, <1>6, <2>1 DEF Step, LInv, Listings, Known
  <2>2. CASE loop.by = "update"
    <3>1. upd # NoUpd /\ loop.rev = upd.rev
      BY <2>2, NoUpdTyped DEF Step, LInv, Listings, SInd, Holds
    <3> QED BY <1>3, <1>6, <3>1 DEF Step, LInv, Writes, Known
  <2>3. CASE loop.by \in {"first", "sync", "discard"}
    <3>1. loop.item \in Copies /\ loop.rev = loop.item.body
      BY <1>6, <2>3 DEF SavesOver, Step, LInv, Listings, Copies, LoopRead
    <3> QED BY <1>3, <3>1
  <2>4. loop.by \in {"first", "sync", "discard", "automation", "update"}
    BY <1>6 DEF SavesOver, Step, SInd, Typed, Full, Stretches, Free
  <2> QED BY <2>1, <2>2, <2>3, <2>4
<1>7. ASSUME SaveEnds, NEW p \in Parts
      PROVE  Past(loop.item.body[p])
  <2>1. loop.item \in Copies
    BY <1>7 DEF SaveEnds, Copies, LoopRead
  <2> QED BY <1>3, <2>1
<1>8. known \subseteq known' /\ known' \subseteq There /\ \A v \in known' : Past(v)
  BY <1>3, <1>5, <1>6, <1>7
<1> QED
  BY <1>1, <1>2, <1>4, <1>8, <1>a

\* Nothing is read but the draft, and it is read as it is: what else is to be
\* used was read before.
ReadNow ==
    /\ SyncRead' \subseteq SyncRead \cup {item} /\ DiscardRead' \subseteq DiscardRead \cup {item}
    /\ Copies' \subseteq Copies \cup {item'}
    /\ item' # item => SyncRead' \subseteq SyncRead /\ DiscardRead' \subseteq DiscardRead

LEMMA OnlyTheDraftIsRead == ASSUME Step PROVE ReadNow
<1> USE DEF ReadNow, Copies, SyncRead, DiscardRead, LoopRead
<1>0. /\ loop \in Stretches /\ Free.by = "" /\ Idle.at = "idle"
      /\ sync \in Read /\ discard \in Read
  BY DEF Step, SInd, Typed, Free, Idle
<1>1. CASE UNCHANGED <<sync, discard, loop>>
  BY <1>1
<1>2. ASSUME NEW P \in SUBSET Parts, Edit(P) PROVE ReadNow
  <2>1. loop'.by = loop.by /\ loop'.item = loop.item
    BY <1>0, <1>2 DEF Edit, Stretches
  <2> QED BY <1>2, <2>1 DEF Edit
<1>3. ASSUME NEW P \in SUBSET Parts, Automation(P) PROVE ReadNow
  <2>1. loop'.by = "automation" /\ loop.by = "" /\ UNCHANGED <<sync, discard, item>>
    BY <1>0, <1>3 DEF Automation, LoopFree, Free
  <2> QED BY <2>1
<1>4. CASE StartSync \/ SyncUnavailable
  <2>1. sync'.at # "read" /\ UNCHANGED <<discard, loop, item>>
    BY <1>0, <1>4 DEF StartSync, SyncUnavailable, Idle
  <2> QED BY <2>1
<1>5. CASE ChromeReads
  <2>1. \/ sync'.at = "read" /\ sync'.item = item /\ UNCHANGED <<discard, loop, item>>
        \/ discard'.at = "read" /\ discard'.item = item /\ UNCHANGED <<sync, loop, item>>
    BY <1>5 DEF ChromeReads
  <2> QED BY <2>1
<1>6. CASE SyncAnswered
  <2>1. /\ sync'.at # "read" /\ sync.at = "read" /\ loop.by = "" /\ UNCHANGED <<discard, item>>
        /\ loop'.by \in Checks /\ loop'.item = sync.item
    BY <1>0, <1>6 DEF SyncAnswered, Puller, Checks, LoopFree, Free
  <2> QED BY <2>1 DEF Checks
<1>7. CASE PullMerges \/ SavesOver
  <2>1. /\ UNCHANGED <<sync, discard, item>>
        /\ loop' = Free \/ (loop'.by = loop.by /\ loop'.item = loop.item)
    BY <1>0, <1>7 DEF PullMerges, SavesOver, Stretches
  <2> QED BY <1>0, <2>1
<1>8. CASE PullEnds \/ SaveEnds \/ CheckEnds
  <2>1. UNCHANGED <<sync, discard, item>> /\ loop'.by = ""
    BY <1>0, <1>8 DEF PullEnds, SaveEnds, CheckEnds
  <2> QED BY <2>1
<1>9. CASE StartDiscard
  <2>1. discard'.at = "asking" /\ UNCHANGED <<sync, loop, item>>
    BY <1>9 DEF StartDiscard, Idle
  <2> QED BY <2>1
<1>10. CASE DiscardEnds
  <2>1. /\ discard'.at = "idle" /\ loop.by = "" /\ UNCHANGED <<sync, item>>
        /\ loop' = loop \/ (discard.at = "read" /\ loop'.by = "discard" /\ loop'.item = discard.item)
    BY <1>0, <1>10 DEF DiscardEnds, LoopFree, Free
  <2> QED BY <2>1
<1>11. CASE SaveVerifies
  <2>1. loop'.by = "update" /\ loop'.item = item /\ UNCHANGED <<sync, discard, item>>
    BY <1>11 DEF SaveVerifies, Free
  <2> QED BY <2>1
<1>12. CASE Restart
  <2>1. sync'.at = "idle" /\ discard'.at = "idle" /\ loop'.by = "" /\ UNCHANGED item
    BY <1>0, <1>12 DEF Restart
  <2> QED BY <2>1
<1>13. ASSUME NEW P \in SUBSET Parts, VendooChanges(P) PROVE ReadNow
  BY <1>1, <1>13 DEF VendooChanges
<1>14. ASSUME NEW op \in ops, ChromeWrites(op) \/ WriteDropped(op) PROVE ReadNow
  BY <1>1, <1>14 DEF ChromeWrites, Written, WriteDropped
<1>15. CASE PreviewSend \/ NotesRead \/ TakeLock \/ SaveReads \/ SaveFails \/ UNCHANGED vars
  BY <1>1, <1>15 DEF PreviewSend, NotesRead, TakeLock, SaveReads, SaveFails, vars
<1>16. ASSUME NEW prep \in BOOLEAN, SaveToVendoo(prep) \/ EnqueueReviewed(prep) PROVE ReadNow
  BY <1>1, <1>16 DEF SaveToVendoo, EnqueueReviewed, Begin
<1>17. ASSUME NEW kind \in {"regenerate", "clear"}, ResetStarts(kind) \/ ResetWipes(kind) PROVE ReadNow
  BY <1>1, <1>17 DEF ResetStarts, ResetWipes, Wiped
<1>18. ASSUME NEW old \in pens, NotesRewritten(old) PROVE ReadNow
  BY <1>1, <1>18 DEF NotesRewritten
<1> HIDE DEF ReadNow, Copies, SyncRead, DiscardRead, LoopRead
<1> QED
  BY <1>2, <1>3, <1>4, <1>5, <1>6, <1>7, <1>8, <1>9, <1>10, <1>11, <1>12, <1>13, <1>14, <1>15, <1>16, <1>17,
     <1>18
     DEF Step, Next, Seller, Chrome, Loop, SyncEnds, Save

\* How the draft moves: a part of it is as it was, or is what Studio wrote, which
\* is known and sent, or is Vendoo's newest change, which shows in the stamp.
\* And while nothing slips, what Studio writes without a stamp it writes when
\* nothing else was read.
Moves ==
    /\ item' \in Item /\ item'.stamp >= item.stamp
    /\ \A p \in Parts, v \in 0 .. Blank : item'.body[p] = v /\ item.body[p] # v =>
        /\ v # Blank /\ Sent(v)' /\ Past(v)'
        /\ Known(v) \/ (item'.stamp > item.stamp /\ ~Past(v))
    /\ item'.stamp = item.stamp => item' = item \/ slipped' \/ Copies' = {item'}

LEMMA TheDraftMoves == ASSUME Step PROVE Moves
<1>1. item \in Item /\ item' \in Item /\ item.stamp \in Nat /\ item'.stamp \in Nat
  <2>1. SInd /\ SInd'
    BY TypedStep DEF Step
  <2> QED BY <2>1 DEF SInd, Typed, Item
<1>2. CASE UNCHANGED item
  BY <1>1, <1>2 DEF Moves
<1>3. ASSUME NEW P \in SUBSET Parts, VendooChanges(P) PROVE Moves
  <2>1. made \in [edits : Nat, changes : Nat, updates : Nat, asks : Nat] /\ made.changes \in Nat
    BY Counted DEF Step, SInd, Typed
  <2>2. /\ item'.stamp = item.stamp + 1 /\ made'.changes = made.changes + 1 /\ made.changes < MaxChanges
        /\ \A p \in Parts : item'.body[p] = item.body[p] \/ item'.body[p] = MaxEdits + (made.changes + 1)
    BY <1>3, <2>1 DEF VendooChanges
  <2>3. ASSUME NEW v \in 0 .. Blank, v = MaxEdits + (made.changes + 1)
        PROVE  v # Blank /\ Sent(v)' /\ Past(v)' /\ ~Past(v)
    BY <2>1, <2>2, <2>3, Numbers DEF Past, Sent, There, Here
  <2> QED BY <1>1, <2>2, <2>3 DEF Moves
<1>4. ASSUME NEW op \in ops, ChromeWrites(op) PROVE Moves
  <2>1. op \in OpSet /\ op.part \in Parts /\ op.value \in 0 .. Blank
    BY DEF Step, SInd, Typed, OpSet
  <2>2. /\ op.ver = item.ver /\ sent' = sent \cup ({op.value} \cap Here) /\ UNCHANGED <<made, loop, sync, discard>>
        /\ item'.stamp = item.stamp + (IF op.part = "general" THEN 1 ELSE 0)
        /\ item'.body = [item.body EXCEPT ![op.part] = op.value] /\ LoopFree
    BY <1>4 DEF ChromeWrites, Written, StillThatVersion
  <2>3. \A p \in Parts : item'.body[p] = IF p = op.part THEN op.value ELSE item.body[p]
    BY <1>1, <2>1, <2>2 DEF Item, Bodies
  <2>4. op.value # Blank /\ (Known(op.value) \/ op.value = item.body[op.part])
    BY <2>2 DEF Step, LInv, Writes, Writing, Versions
  <2>5. ASSUME NEW v \in 0 .. Blank, v = op.value
        PROVE  Sent(v)' /\ (Known(v) => Past(v)')
    <3>1. Sent(v)'
      BY <2>2, <2>5 DEF Sent
    <3>2. Known(v) => Past(v)
      BY DEF Known, Step, LInv, Reads, Past
    <3> QED BY <2>2, <3>1, <3>2 DEF Past
  <2>6. item'.stamp = item.stamp => slipped' \/ Copies' = {item'}
    <3> SUFFICES ASSUME item'.stamp = item.stamp, ~slipped' PROVE Copies' = {item'}
      OBVIOUS
    <3>1. Awaited(op) /\ discard = Idle
      BY <1>4 DEF ChromeWrites, Written
    <3>2. sync = Idle
      BY <2>1, <3>1 DEF Awaited, Parts, Step, SInd, Holds
    <3> QED
      BY <2>2, <3>1, <3>2 DEF Copies, SyncRead, DiscardRead, LoopRead, Idle, LoopFree, Free
  <2>7. item'.stamp >= item.stamp
    BY <1>1, <2>2
  <2>8. ASSUME NEW p \in Parts, NEW v \in 0 .. Blank, item'.body[p] = v, item.body[p] # v
        PROVE  v # Blank /\ Sent(v)' /\ Past(v)' /\ Known(v)
    <3>1. v = op.value /\ p = op.part
      BY <2>3, <2>8
    <3> HIDE DEF Sent, Past, Known
    <3> QED BY <2>4, <2>5, <2>8, <3>1
  <2> QED BY <1>1, <2>6, <2>7, <2>8 DEF Moves
<1> QED
  BY <1>2, <1>3, <1>4, WhoTouches DEF SavesOver, PullEnds, SaveEnds, NotesRewritten

\* What was past, sent or known stays so.
LEMMA StaysKnown ==
    ASSUME Step, NEW v
    PROVE  (Sent(v) => Sent(v)') /\ (Known(v) => Known(v)') /\ (Past(v) => Past(v)')
<1>1. (Sent(v) => Sent(v)') /\ (Known(v) => Known(v)')
  BY HistoryGrows DEF Sent, Known
<1>2. ASSUME v \in There, v <= MaxEdits + made.changes PROVE v <= MaxEdits + made'.changes
  <2>1. /\ v \in Nat /\ MaxEdits \in Nat
        /\ made.changes \in Nat /\ made'.changes \in Nat /\ made.changes <= made'.changes
    BY <1>2, HistoryGrows, Values, Numbers
  <2> QED BY <1>2, <2>1
<1> QED BY <1>1, <1>2 DEF Past

\* A field is one value.
LEMMA Fields ==
    ASSUME NEW i \in Item, NEW p \in Parts
    PROVE  i.body[p] \in 0 .. Blank /\ i.stamp \in Nat /\ i.body \in Bodies
BY DEF Item, Bodies

----------------------------------------------------------------------------
(* Every step keeps the invariant.                                         *)

LEMMA ReadsStep == ASSUME Step PROVE Reads'
<1>1. Reads /\ ReadNow /\ Moves /\ item \in Copies
  BY OnlyTheDraftIsRead, TheDraftMoves DEF Step, LInv, Copies
<1>2. /\ sent' \subseteq Here /\ known' \subseteq There /\ (slipped => slipped')
      /\ \A v \in known' : Past(v)'
  BY HistoryGrows, StaysKnown
<1>3. item \in Item /\ item' \in Item /\ item.stamp \in Nat /\ item'.stamp \in Nat /\ item'.stamp >= item.stamp
  BY <1>1, Fields DEF Reads, Moves, Item
<1>4. ASSUME NEW i \in Item, i = item', NEW p \in Parts
      PROVE  i.body[p] # Blank /\ Sent(i.body[p])' /\ Past(i.body[p])'
  <2>1. PICK v \in 0 .. Blank : i.body[p] = v
    BY Fields
  <2>2. CASE item.body[p] = v
    BY <1>1, <2>1, <2>2, StaysKnown DEF Reads
  <2>3. CASE item.body[p] # v
    BY <1>1, <1>4, <2>1, <2>3 DEF Moves
  <2> QED BY <2>2, <2>3
<1>5. ASSUME NEW i \in Copies, NEW p \in Parts
      PROVE  i \in Item /\ i.body[p] # Blank /\ Sent(i.body[p])' /\ Past(i.body[p])'
  BY <1>1, StaysKnown DEF Reads
<1>6. ASSUME NEW i \in Copies
      PROVE  i \in Item /\ i.stamp \in 1 .. item.stamp /\ i.stamp \in 1 .. item'.stamp
  BY <1>1, <1>3 DEF Reads
<1>7. ASSUME NEW i \in Copies, i.stamp = item'.stamp, NEW p \in Parts
      PROVE  i.body[p] = item'.body[p] \/ Known(item.body[p])'
  <2>1. item'.stamp = item.stamp /\ i.stamp = item.stamp
    BY <1>3, <1>6, <1>7
  <2>2. PICK v \in 0 .. Blank : item'.body[p] = v
    BY <1>3, Fields
  <2>a. Known(v) => Known(v)' /\ Known(item.body[p])'
    BY <2>2, StaysKnown DEF Known
  <2>3. CASE item.body[p] = v
    BY <1>1, <2>1, <2>2, <2>3, <2>a DEF Reads
  <2>4. CASE item.body[p] # v
    BY <1>1, <1>3, <2>1, <2>2, <2>4, <2>a DEF Moves
  <2> QED BY <2>3, <2>4
<1>8. ASSUME NEW i \in Copies, i \in Copies', i.stamp = item'.stamp
      PROVE  slipped' \/ i.body = item'.body
  <2>1. item'.stamp = item.stamp /\ i.stamp = item.stamp
    BY <1>3, <1>6, <1>8
  <2> QED BY <1>1, <1>2, <1>8, <2>1 DEF Reads, Moves
<1>9. ASSUME NEW i \in Copies'
      PROVE  /\ i \in Item /\ i.stamp \in 1 .. item'.stamp
             /\ \A p \in Parts : i.body[p] # Blank /\ Sent(i.body[p])' /\ Past(i.body[p])'
             /\ i.stamp = item'.stamp =>
                 /\ \A p \in Parts : i.body[p] = item'.body[p] \/ Known(item.body[p])'
                 /\ slipped' \/ i.body = item'.body
  <2>1. CASE i = item'
    <3>1. item'.stamp \in 1 .. item'.stamp
      BY <1>1, <1>3, <1>6
    <3> QED BY <1>3, <1>4, <2>1, <3>1
  <2>2. CASE i \in Copies
    BY <1>5, <1>6, <1>7, <1>8, <1>9, <2>2
  <2> QED BY <1>1, <2>1, <2>2 DEF ReadNow
<1> QED BY <1>2, <1>9 DEF Reads

\* The notes, and what threads read of them, are notes.
LEMMA NotedKept ==
    ASSUME Step, NEW n \in Noted
    PROVE  n \in Kept /\ n[2] \in Nat
<1>1. notes \in Kept /\ pens \subseteq Kept
  BY DEF Step, SInd, Typed, notes, Kept
<1> QED BY <1>1, KeptParts DEF Noted

\* Who touches what threads read of the notes.
LEMMA WhoPens ==
    ASSUME Step
    PROVE  pens' \subseteq Noted \/ \E kind \in {"regenerate", "clear"} : ResetWipes(kind)
<1>1. ASSUME NEW P \in SUBSET Parts, Edit(P) \/ Automation(P) \/ VendooChanges(P) PROVE UNCHANGED pens
  BY <1>1 DEF Edit, Automation, VendooChanges
<1>2. CASE NotesRead
  BY <1>2 DEF NotesRead, Noted
<1>3. ASSUME NEW old \in pens, NotesRewritten(old) PROVE pens' \subseteq pens
  BY <1>3 DEF NotesRewritten
<1>4. CASE StartSync \/ StartDiscard \/ PreviewSend \/ ChromeReads
  BY <1>4 DEF StartSync, StartDiscard, PreviewSend, ChromeReads, Noted
<1>5. ASSUME NEW prep \in BOOLEAN, SaveToVendoo(prep) \/ EnqueueReviewed(prep) PROVE UNCHANGED pens
  BY <1>5 DEF SaveToVendoo, EnqueueReviewed, Begin
<1>6. ASSUME NEW kind \in {"regenerate", "clear"}, ResetStarts(kind) PROVE UNCHANGED pens
  BY <1>6 DEF ResetStarts
<1>7. ASSUME NEW op \in ops, ChromeWrites(op) \/ WriteDropped(op) PROVE UNCHANGED pens
  BY <1>7 DEF ChromeWrites, Written, WriteDropped
<1>8. CASE Loop \/ SyncEnds \/ DiscardEnds
  BY <1>8 DEF Loop, PullMerges, SavesOver, PullEnds, SaveEnds, CheckEnds, SyncEnds, SyncAnswered,
              SyncUnavailable, DiscardEnds, Noted
<1>9. CASE Save \/ Restart \/ UNCHANGED vars
  BY <1>9 DEF Save, TakeLock, SaveReads, SaveVerifies, SaveFails, Restart, vars, Noted
<1>10. pens \subseteq Noted
  BY DEF Noted
<1> QED
  BY <1>1, <1>2, <1>3, <1>4, <1>5, <1>6, <1>7, <1>8, <1>9, <1>10 DEF Step, Next, Seller, Chrome

\* What the sync and a Discard read is still what it was to each other.
LEMMA TwoReadsStep == ASSUME Step PROVE TwoReads'
<1>1. Reads /\ ReadNow /\ Moves /\ TwoReads /\ item \in Copies
  BY OnlyTheDraftIsRead, TheDraftMoves DEF Step, LInv, Copies
<1>2. SyncRead \subseteq Copies /\ DiscardRead \subseteq Copies
  BY DEF Copies, DiscardRead
<1> SUFFICES ASSUME NEW i \in SyncRead', NEW d \in DiscardRead', i.stamp <= d.stamp, NEW p \in Parts,
                    i.body[p] = item'.body[p]
             PROVE  i.body[p] = d.body[p] \/ Known(i.body[p])'
  BY DEF TwoReads
<1>3. i \in SyncRead \cup {item} /\ d \in DiscardRead \cup {item}
  BY <1>1 DEF ReadNow
<1>4. PICK v \in 0 .. Blank : i.body[p] = v
  BY <1>1, <1>2, <1>3, Fields DEF Reads
<1>5. CASE item.body[p] = v
  <2>1. CASE i \in SyncRead /\ d \in DiscardRead
    BY <1>1, <1>4, <1>5, <2>1, StaysKnown DEF TwoReads
  <2>2. CASE d = item
    BY <1>4, <1>5, <2>2
  <2>3. CASE i = item /\ d \in DiscardRead
    <3>1. d \in Copies /\ d.stamp = item.stamp
      <4>1. d.stamp \in 1 .. item.stamp /\ item \in Item /\ item.stamp \in Nat /\ item.stamp <= d.stamp
        BY <1>1, <1>2, <2>3, Fields DEF Reads, Item
      <4> QED BY <1>2, <2>3, <4>1
    <3> QED BY <1>1, <1>4, <1>5, <3>1, StaysKnown DEF Reads
  <2> QED BY <1>3, <2>1, <2>2, <2>3
<1>6. CASE item.body[p] # v
  <2>1. i \in SyncRead
    BY <1>3, <1>4, <1>6
  <2>2. Past(v)
    BY <1>1, <1>2, <1>4, <2>1 DEF Reads
  <2> QED BY <1>1, <1>4, <1>6, <2>2, StaysKnown DEF Moves
<1> QED BY <1>5, <1>6

\* The loop is free, or runs a stretch for someone.
LEMMA FreeLoop ==
    ASSUME Step
    PROVE  /\ Free.by = "" /\ Free.at = "free" /\ loop \in Stretches
           /\ LoopFree <=> loop.by = ""
           /\ LoopFree <=> loop.at = "free"
<1>1. Free.by = "" /\ Free.at = "free"
  BY DEF Free
<1> QED BY <1>1 DEF LoopFree, Step, SInd, Typed, Full

\* Notes that are written back were read.
LEMMA RewrittenNotes ==
    ASSUME Step, NEW old \in pens, NotesRewritten(old)
    PROVE  notes' \in Noted
<1>1. old \in Kept
  BY DEF Step, SInd, Typed
<1>2. old = <<old[1], old[2], old[3], old[4]>>
  BY <1>1 DEF Kept
<1>3. notes' = notes \/ notes' = old
  BY <1>2 DEF NotesRewritten, notes
<1> QED BY <1>3 DEF Noted

\* What was sent of the notes stays sent, whoever writes them back.
LEMMA NotedSent ==
    ASSUME Step,
           \/ notes' \in Noted
           \/ synced' \notin Bodies
           \/ \A p \in Parts : Sent(synced[p])'
    PROVE  \A n \in Noted' : n[1] \in Bodies => \A p \in Parts : Sent(n[1][p])'
<1>1. \A n \in Noted : n[1] \in Bodies => \A p \in Parts : Sent(n[1][p])'
  BY HistoryGrows DEF Step, LInv, Listings, Sent
<1>2. notes'[1] \in Bodies => \A p \in Parts : Sent(notes[1][p])'
  BY <1>1 DEF notes
<1>3. ASSUME NEW n \in pens' PROVE n[1] \in Bodies => \A p \in Parts : Sent(n[1][p])'
  <2>1. CASE n \in Noted
    BY <1>1, <2>1
  <2>2. ASSUME NEW kind \in {"regenerate", "clear"}, ResetWipes(kind) PROVE n[1] \notin Bodies
    <3>1. PICK m \in pens : n = Deleted(m)
      BY <1>3, <2>2 DEF ResetWipes, Wiped
    <3> QED BY <3>1, Numbers DEF Deleted
  <2> QED BY <2>1, <2>2, WhoPens
<1> QED BY <1>2, <1>3 DEF Noted

\* The listing, its marks and the stretch of the loop stay; more is known.
LEMMA ListingsKept ==
    ASSUME Step, UNCHANGED <<cur, loop>>, notes' \in Noted, UNCHANGED upd \/ LoopFree
    PROVE  Listings'
<1>1. Listings /\ sent \subseteq sent'
  BY HistoryGrows DEF Step, LInv
<1>2. LoopFree => loop.by = ""
  BY FreeLoop
<1>3. /\ \A p \in Parts : Known(cur[p])'
      /\ \A n \in Noted' : n[1] \in Bodies => \A p \in Parts : Sent(n[1][p])'
      /\ loop.by # "automation" /\ loop.at \in {"save", "mark"} => \A p \in Parts : Sent(loop.rev[p])'
      /\ loop.by = "automation" \/ loop.at = "mark" => \A p \in Parts : Known(loop.rev[p])'
  BY <1>1, HistoryGrows, NotedSent DEF Listings, Sent, Known
<1>4. loop.by = "update" => UNCHANGED upd
  BY <1>2
<1> QED BY <1>1, <1>3, <1>4 DEF Listings

\* An edit here, by the seller or by an automation.
LEMMA EditListings ==
    ASSUME Step, NEW P \in SUBSET Parts, Edit(P) \/ Automation(P) PROVE Listings'
<1>1. Listings /\ UNCHANGED <<notes, pens, sent, known, upd>>
  BY DEF Step, LInv, Edit, Automation
<1>a. \A n \in Noted' : n[1] \in Bodies => \A p \in Parts : Sent(n[1][p])'
  BY <1>1, NotedSent DEF Noted
<1>2. /\ made.edits + 1 \in Here /\ made.edits + 1 \notin There /\ cur \in Bodies /\ loop \in Stretches
  <2>1. made.edits + 1 \in Nat /\ MaxEdits \in Nat /\ made.edits < MaxEdits /\ made.edits \in Nat
    BY Counted, Numbers DEF Edit, Automation, Step, SInd, Typed
  <2>2. made.edits + 1 \in Here /\ made.edits + 1 \notin There
    BY <2>1, Numbers DEF Here, There
  <2> QED BY <2>2 DEF Step, SInd, Typed
<1>3. CASE Edit(P)
  <2>1. /\ loop'.at = loop.at /\ loop'.by = loop.by /\ loop'.item = loop.item /\ loop'.rev = loop.rev
        /\ loop.by # "" => loop'.race = loop.race \cup {made.edits + 1}
    BY <1>2, <1>3, FreeLoop DEF Edit, Stretches
  <2>2. \A p \in Parts : cur'[p] = made.edits + 1 \/ cur'[p] = cur[p]
    BY <1>3 DEF Edit
  <2>3. \A p \in Parts : Known(cur[p])'
    BY <1>1, <1>2, <2>2 DEF Listings, Known
  <2>4. loop.by = "sync" => \A p \in Parts : cur'[p] \in Here => cur'[p] \in sent \cup loop'.race
    BY <1>1, <2>1, <2>2 DEF Listings
  <2> QED BY <1>1, <1>a, <2>1, <2>3, <2>4 DEF Listings, Sent, Known
<1>4. CASE Automation(P)
  <2>1. /\ loop'.at = "save" /\ loop'.by = "automation" /\ cur' = cur
        /\ \A p \in Parts : loop'.rev[p] = made.edits + 1 \/ loop'.rev[p] = cur[p]
    BY <1>4 DEF Automation, Free
  <2> QED BY <1>1, <1>2, <1>a, <2>1 DEF Listings, Sent, Known
<1> QED BY <1>3, <1>4

\* A sync that pulls found nothing unsent here.
LEMMA AnsweredListings == ASSUME Step, SyncAnswered PROVE Listings'
<1>1. /\ Listings /\ UNCHANGED <<cur, sent, known>> /\ loop = Free /\ loop.by = "" /\ loop.at = "free"
      /\ cur \in Bodies
  BY FreeLoop DEF Step, LInv, SyncAnswered, LoopFree, history, SInd, Typed
<1>2. UNCHANGED <<notes, pens, upd>>
  BY DEF SyncAnswered
<1>3. \A n \in Noted' : n[1] \in Bodies => \A p \in Parts : Sent(n[1][p])'
  BY <1>2, NotedSent DEF Noted
<1>4. CASE loop'.at = "check" /\ loop'.by \in {"label", "conflict"}
  BY <1>1, <1>3, <1>4 DEF Listings, Sent, Known
<1>5. CASE loop'.at = "merge" /\ loop'.by = Puller /\ State(sync.item) = "pull"
  <2>1. ASSUME loop'.by = "sync", NEW p \in Parts, cur[p] \in Here
        PROVE  cur[p] \in sent
    <3>1. seen # 0 /\ synced # None /\ ~StudioHasUnpushedEdits
      BY <1>5, <2>1 DEF State, Puller
    <3>2. cur # NoListing
      BY <2>1, Values DEF NoListing
    <3>3. cur = synced
      BY <3>1, <3>2 DEF StudioHasUnpushedEdits
    <3>4. notes \in Noted /\ notes[1] = cur
      BY <3>3 DEF Noted, notes
    <3> QED BY <1>1, <2>1, <3>4 DEF Listings, Sent
  <2>2. loop'.by \in {"first", "sync"}
    BY <1>5 DEF Puller
  <2> QED BY <1>1, <1>3, <1>5, <2>1, <2>2 DEF Listings, Sent, Known
<1> QED BY <1>4, <1>5 DEF SyncAnswered, Free

\* A pull takes the whole draft: no field of it is empty.
LEMMA LoopListings == ASSUME Step, Loop PROVE Listings'
<1>1. /\ Listings /\ Reads /\ loop \in Stretches /\ cur \in Bodies
      /\ loop.at \in {"check", "merge", "save", "mark"} /\ loop # Free /\ loop.by # ""
      /\ loop.at \in {"save", "mark"} => loop.rev \in Bodies
      /\ loop.by = "automation" => loop.at = "save"
      /\ sent \subseteq sent'
  BY HistoryGrows, FreeLoop
     DEF Step, LInv, SInd, Typed, Full, Loop, PullMerges, SavesOver, PullEnds, SaveEnds, CheckEnds
<1>2. loop.by # "automation" => loop.item \in Copies
  BY <1>1 DEF Copies, LoopRead, Stretches
<1>3. CASE PullMerges
  <2>1. loop.by # "automation" /\ loop.by # "update"
    BY <1>1, <1>3 DEF PullMerges, Listings
  <2>2. loop.item \in Item /\ \A p \in Parts : loop.item.body[p] # Blank /\ Sent(loop.item.body[p])
    BY <1>1, <1>2, <2>1 DEF Reads
  <2>3. Merged(cur, loop.item.body) = loop.item.body
    BY <2>2 DEF Merged, Item, Bodies
  <2>4. /\ loop'.at = "save" /\ loop'.by = loop.by /\ loop'.item = loop.item /\ loop'.race = loop.race
        /\ loop'.rev = loop.item.body /\ UNCHANGED <<cur, notes, sent, known>>
    BY <1>1, <1>3, <2>3 DEF PullMerges, Stretches, history
  <2>5. \A n \in Noted' : n[1] \in Bodies => \A p \in Parts : Sent(n[1][p])'
    BY <2>4, NotedSent DEF Noted
  <2> QED BY <1>1, <2>1, <2>2, <2>4, <2>5 DEF Listings, Sent, Known
<1>4. CASE SavesOver
  <2>1. /\ cur' = loop.rev /\ UNCHANGED <<notes, sent, upd>>
        /\ \A p \in Parts : Known(cur[p])'
    BY <1>4 DEF SavesOver, Known
  <2>a. \A n \in Noted' : n[1] \in Bodies => \A p \in Parts : Sent(n[1][p])'
    BY <2>1, NotedSent DEF Noted
  <2>2. CASE loop.by = "automation"
    <3>1. loop'.by = "" /\ loop'.at = "free"
      BY <1>4, <2>2, FreeLoop DEF SavesOver
    <3> QED BY <1>1, <2>1, <2>a, <3>1 DEF Listings, Sent, Known
  <2>3. CASE loop.by # "automation"
    <3>1. /\ loop'.at = "mark" /\ loop'.by = loop.by /\ loop'.item = loop.item /\ loop'.race = loop.race
          /\ loop'.rev = loop.rev /\ loop.at = "save"
      BY <1>1, <1>4, <2>3 DEF SavesOver, Stretches
    <3>2. \A p \in Parts : Sent(loop.rev[p])
      BY <1>1, <2>3, <3>1 DEF Listings
    <3> QED BY <1>1, <2>1, <2>a, <3>1, <3>2 DEF Listings, Sent, Known
  <2> QED BY <2>2, <2>3
<1>5. CASE PullEnds \/ SaveEnds
  <2>1. loop.at = "mark" /\ loop.by # "automation"
    BY <1>1, <1>5 DEF PullEnds, SaveEnds
  <2>2. /\ loop'.by = "" /\ loop'.at = "free" /\ synced' = loop.rev /\ UNCHANGED cur
    BY <1>5, FreeLoop DEF PullEnds, SaveEnds, MarkSynced
  <2>3. \A p \in Parts : Known(cur[p])'
    BY <1>1, <2>2, HistoryGrows DEF Listings, Known
  <2>4. \A n \in Noted' : n[1] \in Bodies => \A p \in Parts : Sent(n[1][p])'
    <3>1. \A p \in Parts : Sent(synced[p])'
      BY <1>1, <2>1, <2>2, HistoryGrows DEF Listings, Sent
    <3> QED BY <3>1, NotedSent
  <2> QED BY <2>2, <2>3, <2>4 DEF Listings
<1>6. CASE CheckEnds
  <2>1. loop'.by = "" /\ loop'.at = "free" /\ UNCHANGED <<cur, synced, known>>
    BY <1>6, FreeLoop DEF CheckEnds, ApplyLabel, ApplyConflict, history
  <2>2. \A p \in Parts : synced \in Bodies => Sent(synced[p])'
    <3>1. notes \in Noted /\ notes[1] = synced
      BY DEF Noted, notes
    <3> QED BY <1>1, <2>1, <3>1 DEF Listings, Sent
  <2>3. \A n \in Noted' : n[1] \in Bodies => \A p \in Parts : Sent(n[1][p])'
    BY <2>1, <2>2, NotedSent
  <2> QED BY <1>1, <2>1, <2>3 DEF Listings, Known
<1> QED BY <1>3, <1>4, <1>5, <1>6 DEF Loop

\* Who touches the listing, its marks and the loop.
LEMMA WhoLists ==
    ASSUME Step
    PROVE  \/ \E P \in SUBSET Parts : Edit(P) \/ Automation(P)
           \/ SyncAnswered \/ Loop \/ DiscardEnds \/ SaveVerifies \/ Restart
           \/ \E kind \in {"regenerate", "clear"} : ResetWipes(kind)
           \/ \E old \in pens : NotesRewritten(old)
           \/ /\ UNCHANGED <<cur, notes, loop>>
              /\ UNCHANGED upd \/ LoopFree
              /\ UNCHANGED wipe \/ \E kind \in {"regenerate", "clear"} : ResetStarts(kind)
<1>1. ASSUME NEW P \in SUBSET Parts, VendooChanges(P)
      PROVE  UNCHANGED <<cur, notes, loop, upd, wipe>>
  BY <1>1 DEF VendooChanges
<1>2. CASE StartSync \/ ChromeReads \/ SyncUnavailable
  BY <1>2 DEF StartSync, ChromeReads, SyncUnavailable
<1>3. CASE StartDiscard \/ PreviewSend \/ NotesRead \/ UNCHANGED vars
  BY <1>3 DEF StartDiscard, PreviewSend, NotesRead, vars
<1>4. ASSUME NEW prep \in BOOLEAN, SaveToVendoo(prep) \/ EnqueueReviewed(prep)
      PROVE  UNCHANGED <<cur, notes, loop, wipe>> /\ LoopFree
  BY <1>4 DEF SaveToVendoo, EnqueueReviewed, Begin
<1>5. CASE TakeLock \/ SaveReads \/ SaveFails
  BY <1>5 DEF TakeLock, SaveReads, SaveFails
<1>6. ASSUME NEW op \in ops, ChromeWrites(op) \/ WriteDropped(op)
      PROVE  UNCHANGED <<cur, notes, loop, wipe>> /\ (UNCHANGED upd \/ LoopFree)
  BY <1>6 DEF ChromeWrites, Written, WriteDropped
<1>7. ASSUME NEW kind \in {"regenerate", "clear"}, ResetStarts(kind)
      PROVE  UNCHANGED <<cur, notes, loop>> /\ LoopFree
  BY <1>7 DEF ResetStarts
<1> QED
  BY <1>1, <1>2, <1>3, <1>4, <1>5, <1>6, <1>7 DEF Step, Next, Seller, Chrome, SyncEnds, Save

\* An update that is read back sent everything the listing had.
LEMMA VerifiedListings == ASSUME Step, SaveVerifies PROVE Listings'
<1>1. /\ Listings /\ Writes /\ LoopFree /\ upd.at = "verify" /\ upd # NoUpd
      /\ UNCHANGED <<cur, notes, upd, sent, known>>
  BY NoUpdTyped DEF Step, LInv, SaveVerifies, history
<1>2. loop'.by = "update" /\ loop'.at \in {"save", "mark"} /\ loop'.rev = upd.rev
  BY <1>1 DEF SaveVerifies, Free
<1>3. \A p \in Parts : Sent(upd.rev[p]) /\ Known(upd.rev[p])
  BY <1>1 DEF Writes, Parts
<1>4. \A n \in Noted' : n[1] \in Bodies => \A p \in Parts : Sent(n[1][p])'
  BY <1>1, NotedSent DEF Noted
<1> QED BY <1>1, <1>2, <1>3, <1>4 DEF Listings, Sent, Known

\* A reset leaves nothing in the listing.
LEMMA WipedListings ==
    ASSUME Step, NEW kind \in {"regenerate", "clear"}, ResetWipes(kind) PROVE Listings'
<1>1. Listings /\ LoopFree /\ loop.by = "" /\ loop.at = "free"
  BY FreeLoop DEF Step, LInv, ResetWipes
<1>2. cur' = NoListing /\ synced' \in {None, Gone} /\ UNCHANGED <<loop, sent, known, upd>>
  BY DEF ResetWipes, Wiped, Deleted
<1>4. \A n \in Noted' : n[1] \in Bodies => \A p \in Parts : Sent(n[1][p])'
  BY <1>2, NotedSent, Numbers
<1>3. \A p \in Parts : NoListing[p] \notin There
  BY Values DEF NoListing
<1> QED BY <1>1, <1>2, <1>3, <1>4, Numbers DEF Listings, Known

LEMMA ListingsStep == ASSUME Step PROVE Listings'
<1>1. CASE DiscardEnds
  <2>1. /\ LoopFree /\ UNCHANGED <<cur, notes, upd, sent, known>>
        /\ loop' = loop \/ (loop'.by = "discard" /\ loop'.at = "merge")
    BY <1>1 DEF DiscardEnds, history, Free
  <2>2. CASE loop' # loop
    <3>1. \A n \in Noted' : n[1] \in Bodies => \A p \in Parts : Sent(n[1][p])'
      BY <2>1, NotedSent DEF Noted
    <3> QED BY <2>1, <2>2, <3>1 DEF Step, LInv, Listings, Sent, Known
  <2> QED BY <2>1, <2>2, ListingsKept DEF Noted
<1>2. CASE Restart
  <2>1. UNCHANGED <<cur, notes, sent, known>> /\ loop' = Free
    BY <1>2 DEF Restart
  <2>2. \A n \in Noted' : n[1] \in Bodies => \A p \in Parts : Sent(n[1][p])'
    BY <2>1, NotedSent DEF Noted
  <2> QED BY <2>1, <2>2, FreeLoop DEF Step, LInv, Listings, Sent, Known
<1>3. ASSUME NEW old \in pens, NotesRewritten(old) PROVE Listings'
  <2>1. UNCHANGED <<cur, loop, upd>> /\ notes' \in Noted
    BY <1>3, RewrittenNotes DEF NotesRewritten
  <2> QED BY <2>1, ListingsKept
<1>4. notes \in Noted
  BY DEF Noted
<1> QED
  BY <1>1, <1>2, <1>3, <1>4, WhoLists, ListingsKept, EditListings, AnsweredListings, LoopListings,
     VerifiedListings, WipedListings

\* Who touches an update and its writes.
LEMMA WhoWrites ==
    ASSUME Step
    PROVE  \/ \E ver \in Nat : \E shown, prep : Begin(ver, shown, prep)
           \/ TakeLock \/ SaveReads
           \/ \E op \in ops : ChromeWrites(op)
           \/ upd' = NoUpd /\ UNCHANGED ops
           \/ UNCHANGED upd /\ ops' \subseteq ops /\ (UNCHANGED wipe \/ wipe' = NoWipe)
<1>1. ASSUME NEW P \in SUBSET Parts, Edit(P) \/ Automation(P) \/ VendooChanges(P)
      PROVE  UNCHANGED <<upd, ops, wipe>>
  BY <1>1 DEF Edit, Automation, VendooChanges
<1>2. CASE StartSync \/ StartDiscard \/ PreviewSend \/ ChromeReads \/ NotesRead
  BY <1>2 DEF StartSync, StartDiscard, PreviewSend, ChromeReads, NotesRead
<1>9. ASSUME NEW old \in pens, NotesRewritten(old)
      PROVE  UNCHANGED <<upd, ops, wipe>>
  BY <1>9 DEF NotesRewritten
<1>3. ASSUME NEW prep \in BOOLEAN, SaveToVendoo(prep) \/ EnqueueReviewed(prep)
      PROVE  \E ver \in Nat : \E shown, q : Begin(ver, shown, q)
  <2>1. preview.ver \in Nat
    BY DEF Step, SInd, Typed
  <2> QED BY <1>3, <2>1 DEF SaveToVendoo, EnqueueReviewed
<1>4. ASSUME NEW kind \in {"regenerate", "clear"}, ResetStarts(kind) \/ ResetWipes(kind)
      PROVE  (upd' = NoUpd /\ UNCHANGED ops) \/ (UNCHANGED <<upd, ops>> /\ wipe' = NoWipe)
  BY <1>4 DEF ResetStarts, ResetWipes, Wiped
<1>5. ASSUME NEW op \in ops, WriteDropped(op)
      PROVE  UNCHANGED <<upd, wipe>> /\ ops' \subseteq ops
  BY <1>5 DEF WriteDropped
<1>6. CASE Loop \/ SyncEnds \/ DiscardEnds
  BY <1>6 DEF Loop, PullMerges, SavesOver, PullEnds, SaveEnds, CheckEnds, SyncEnds, SyncAnswered,
              SyncUnavailable, DiscardEnds
<1>7. CASE SaveVerifies \/ SaveFails \/ Restart
  BY <1>7 DEF SaveVerifies, SaveFails, Restart
<1>8. CASE UNCHANGED vars
  BY <1>8 DEF vars
<1> QED
  BY <1>1, <1>2, <1>3, <1>4, <1>5, <1>6, <1>7, <1>8, <1>9 DEF Step, Next, Seller, Chrome, Save

\* Nobody but an update and a Discard marks a listing that an update holds: notes
\* written back mark it as it was marked.
LEMMA MarksHeld ==
    ASSUME Step, lock = "save", upd' # NoUpd
    PROVE  Ats' \subseteq Ats \/ slipped'
<1>1. sync = Idle /\ loop.by \notin Checks /\ upd # NoUpd /\ Idle.at = "idle"
  BY NoUpdTyped, IdleIsRead DEF Step, SInd, Holds
<1>2. ASSUME NEW kind \in {"regenerate", "clear"}, ResetWipes(kind) PROVE FALSE
  BY <1>1, <1>2 DEF ResetWipes, Step, LInv, Writes
<1>3. pens' \subseteq Noted
  BY <1>2, WhoPens
<1>4. ASSUME notes' \in Noted PROVE Ats' \subseteq Ats
  BY <1>3, <1>4 DEF Ats, Noted
<1>5. notes \in Noted
  BY DEF Noted
<1>6. CASE SyncAnswered \/ DiscardEnds \/ SaveVerifies \/ Restart
  BY <1>1, <1>4, <1>5, <1>6 DEF SyncAnswered, DiscardEnds, SaveVerifies, Restart
<1>7. ASSUME NEW P \in SUBSET Parts, Edit(P) \/ Automation(P) PROVE UNCHANGED notes
  BY <1>7 DEF Edit, Automation
<1>8. CASE PullMerges \/ SavesOver \/ SaveEnds
  BY <1>1, <1>4, <1>5, <1>8 DEF PullMerges, SavesOver, SaveEnds
<1>9. CASE PullEnds
  <2>1. loop.by = "discard"
    BY <1>1, <1>9, FreeLoop DEF PullEnds, Step, SInd, Full, Stretches, Checks
  <2> QED BY <1>9, <2>1 DEF PullEnds
<1>10. CASE CheckEnds
  BY <1>1, <1>10 DEF CheckEnds, Checks
<1> QED
  BY <1>2, <1>4, <1>5, <1>6, <1>7, <1>8, <1>9, <1>10, WhoLists, RewrittenNotes DEF Loop

\* A draft that moves is of a version no write knows.
LEMMA NewerDraft ==
    ASSUME Step, NEW op \in ops, item' # item
    PROVE  op.ver # item'.ver
<1>1. item.ver \in Nat /\ op.ver \in Nat /\ op.ver <= item.ver
  BY Counted DEF Step, SInd, Typed, OpSet, Versions
<1>2. item'.ver = item.ver + 1
  <2>1. ASSUME NEW P \in SUBSET Parts, VendooChanges(P) PROVE item'.ver = item.ver + 1
    BY <2>1 DEF VendooChanges
  <2>2. ASSUME NEW o \in ops, ChromeWrites(o) PROVE item'.ver = item.ver + 1
    BY <2>2 DEF ChromeWrites, Written
  <2>3. CASE SavesOver \/ PullEnds \/ SaveEnds
    BY <2>3 DEF SavesOver, PullEnds, SaveEnds
  <2>4. ASSUME NEW old \in pens, NotesRewritten(old) PROVE FALSE
    BY <2>4 DEF NotesRewritten
  <2> QED BY <2>1, <2>2, <2>3, <2>4, WhoTouches
<1> QED BY <1>1, <1>2

\* A write that its update waits for, or that nobody does, is what it was.
LEMMA WritingKept ==
    ASSUME Step, NEW op \in ops, UNCHANGED upd
    PROVE  Writing(op)'
<1>1. Writing(op) /\ (Known(op.value) => Known(op.value)')
  BY StaysKnown DEF Step, LInv, Writes
<1>2. (upd # NoUpd /\ op.no = upd.no)' =>
        upd'.at \in {"general", "forms", "verify"} /\ op.value = Desired(upd.base)'[op.part]
  BY <1>1 DEF Writing, Desired
<1>3. ASSUME (upd # NoUpd /\ op.no = upd.no)', upd'.at = "forms", op.ver = item'.ver, op.part = "forms",
             NEW at \in Ats', item'.stamp <= at, ~slipped'
      PROVE  op.value = item'.body["forms"]
  <2>1. UNCHANGED item /\ ~slipped
    BY <1>3, NewerDraft, HistoryGrows
  <2>2. lock = "save"
    BY <1>3 DEF Step, SInd, Holds
  <2>3. at \in Ats
    BY <1>3, <2>2, MarksHeld
  <2> QED BY <1>1, <1>3, <2>1, <2>3 DEF Writing
<1> QED BY <1>1, <1>2, <1>3 DEF Writing

\* An update that goes on as it was.
LEMMA WritesKept ==
    ASSUME Step, UNCHANGED upd, ops' \subseteq ops, UNCHANGED wipe \/ wipe' = NoWipe
    PROVE  Writes'
<1>1. Writes /\ sent \subseteq sent' /\ known \subseteq known'
  BY HistoryGrows DEF Step, LInv
<1>2. \A op \in ops' : Writing(op)'
  BY WritingKept
<1> QED BY <1>1, <1>2 DEF Writes, Sent, Known

\* An update that ends, or is given up.
LEMMA WritesEnd ==
    ASSUME Step, upd' = NoUpd, UNCHANGED ops
    PROVE  Writes'
<1>1. ASSUME NEW op \in ops PROVE Writing(op)'
  BY StaysKnown DEF Step, LInv, Writes, Writing
<1> QED BY <1>1, NoUpdTyped DEF Writes

\* An update that begins, and has its turn, has no write under way.
LEMMA BeginWrites ==
    ASSUME Step, NEW ver \in Nat, NEW shown, NEW prep, Begin(ver, shown, prep)
    PROVE  Writes'
<1>1. /\ made'.updates = made.updates + 1 /\ made.updates \in Nat
      /\ upd'.at = "waits" /\ upd'.no = made'.updates /\ upd'.rev = cur
      /\ wipe = NoWipe /\ UNCHANGED <<ops, wipe, known>>
  BY Counted DEF Begin, Step, SInd, Typed
<1>2. ASSUME NEW op \in ops PROVE Writing(op)' /\ op.no # upd'.no
  <2>1. op.no \in Nat /\ op.no <= made.updates
    BY DEF Step, SInd, Typed, OpSet, Versions
  <2>2. op.no # upd'.no
    BY <1>1, <2>1
  <2> QED BY <2>2, StaysKnown DEF Step, LInv, Writes, Writing
<1>3. \A p \in Parts : Known(upd.rev[p])'
  BY <1>1 DEF Step, LInv, Listings, Known
<1> QED BY <1>1, <1>2, <1>3 DEF Writes

LEMMA TurnWrites ==
    ASSUME Step, TakeLock
    PROVE  Writes'
<1>1. /\ upd'.at = "reads" /\ upd'.no = upd.no /\ upd'.rev = upd.rev /\ upd.at = "waits" /\ upd # NoUpd
      /\ UNCHANGED <<ops, wipe, known>>
  BY NoUpdTyped DEF TakeLock, Step, SInd, Typed, Updates, history
<1>2. ASSUME NEW op \in ops PROVE Writing(op)' /\ op.no # upd.no
  BY <1>1, StaysKnown DEF Step, LInv, Writes, Writing
<1>3. \A p \in Parts : Known(upd.rev[p])'
  BY <1>1 DEF Step, LInv, Writes, Known
<1> QED BY <1>1, <1>2, <1>3 DEF Writes, Step, LInv

\* What an update wants in a field is the listing's, or what was there.
LEMMA Wanted ==
    ASSUME NEW b, NEW p \in Parts
    PROVE  /\ upd.rev[p] = Blank => Desired(b)[p] = b[p]
           /\ upd.rev[p] # Blank => Desired(b)[p] = upd.rev[p]
BY DEF Desired

\* The draft is read: nothing in it is unsent, and its first write is of it.
LEMMA ReadsWrites ==
    ASSUME Step, SaveReads
    PROVE  Writes'
<1>1. Writes /\ Reads /\ Versions /\ item \in Item /\ item \in Copies /\ upd # NoUpd /\ upd.at = "reads"
  BY NoUpdTyped DEF Step, LInv, SaveReads, SInd, Typed, Copies
<1>2. /\ upd'.no = upd.no /\ upd'.rev = upd.rev /\ upd'.base = item.body /\ upd'.shown = upd.shown
      /\ upd'.at = IF Desired(item.body) = item.body THEN "forms" ELSE "general"
      /\ ops' = ops \cup {Write(upd'.at, item.ver, item.body)}
      /\ UNCHANGED <<item, wipe, sent, known, notes, pens, slipped>>
  BY <1>1 DEF SaveReads, Step, SInd, Typed, Updates, history
<1>3. \A p \in Parts : item.body[p] # Blank /\ Sent(item.body[p]) /\ Known(upd.rev[p])
  BY <1>1 DEF Reads, Writes
<1>4. Desired(upd.base)' = Desired(item.body)
  BY <1>2 DEF Desired
<1>5. upd.shown = None \/ upd.shown = item.body
  <2>1. upd.shown # None => upd.ver \in 1 .. item.ver /\ (upd.ver = item.ver => upd.shown = item.body)
    BY <1>1 DEF Versions
  <2>2. upd.ver \in {0, item.ver}
    BY DEF SaveReads, Approved
  <2> QED BY <2>1, <2>2
<1>6. ASSUME NEW op \in ops PROVE Writing(op)'
  <2>1. op.no # upd.no
    BY <1>1 DEF Writes, Writing
  <2> QED BY <1>1, <1>2, <2>1 DEF Writes, Writing, Known
<1>7. ASSUME NEW w, w = Write(upd'.at, item.ver, item.body) PROVE Writing(w)'
  <2>1. /\ w.part = upd'.at /\ w.value = Desired(item.body)[w.part] /\ w.base = item.body[w.part]
        /\ w.part \in Parts
    BY <1>2, <1>5, <1>7 DEF Write, Parts
  <2>2. w.value # Blank /\ (Known(w.value) \/ w.value = w.base)
    BY <1>3, <2>1, Wanted
  <2>3. w.part = "forms" => w.value = item.body["forms"]
    BY <1>2, <2>1
  <2>4. (Known(w.value) \/ w.value = w.base)'
    BY <1>2, <1>7, <2>2 DEF Known
  <2> QED BY <1>2, <1>4, <2>1, <2>2, <2>3, <2>4 DEF Writing
<1>8. upd'.at = "forms" => Sent(upd.rev["general"])'
  <2>1. ASSUME Desired(item.body) = item.body PROVE Sent(upd.rev["general"])
    <3>1. upd.rev["general"] = Blank \/ upd.rev["general"] = item.body["general"]
      BY <2>1, Wanted DEF Parts
    <3> QED BY <1>3, <3>1, Values DEF Sent, Parts
  <2> QED BY <1>2, <2>1 DEF Sent
<1> QED
  BY <1>1, <1>2, <1>3, <1>6, <1>7, <1>8 DEF Writes, Sent, Known

\* The draft is written: what the listing had of that part is sent, and the
\* second write of an update is newer than the marks.
LEMMA WrittenWrites ==
    ASSUME Step, NEW op \in ops, ChromeWrites(op)
    PROVE  Writes'
<1>1. /\ Writes /\ Versions /\ Writing(op) /\ op.ver = item.ver /\ op.part \in Parts
      /\ UNCHANGED <<wipe, known, notes, pens>> /\ sent' = sent \cup ({op.value} \cap Here)
  BY DEF Step, LInv, Writes, ChromeWrites, Written, StillThatVersion, SInd, Typed, OpSet
<1>2. CASE ~Awaited(op)
  BY <1>2, WritesKept DEF ChromeWrites, Written
<1>3. ASSUME Awaited(op)
      PROVE  Writes'
  <2>1. /\ upd.at = op.part /\ upd.no = op.no /\ upd # NoUpd /\ upd \in Updates
        /\ op.value = Desired(upd.base)[op.part]
    BY <1>1, <1>3, NoUpdTyped DEF Awaited, Writing, Parts, Step, SInd, Typed
  <2>2. /\ upd'.no = upd.no /\ upd'.rev = upd.rev /\ upd'.base = upd.base /\ upd'.shown = upd.shown
        /\ upd'.at = IF op.part = "general" THEN "forms" ELSE "verify"
        /\ op.part = "general" => ops' = (ops \ {op}) \cup {Write("forms", item'.ver, upd.base)}
        /\ op.part = "forms" => ops' = ops \ {op}
    BY <1>3, <2>1 DEF ChromeWrites, Updates
  <2>3. Desired(upd.base)' = Desired(upd.base)
    BY <2>2 DEF Desired
  <2>4. \A p \in Parts : upd.base[p] # Blank /\ Sent(upd.base[p]) /\ Known(upd.rev[p])
    BY <1>1, <2>1 DEF Writes, Parts
  <2>5. Sent(upd.rev[op.part])'
    <3>1. upd.rev[op.part] # Blank => upd.rev[op.part] = op.value
      BY <1>1, <2>1, Wanted
    <3> QED BY <1>1, <2>2, <3>1, Values DEF Sent
  <2>6. op.part = "forms" => Sent(upd.rev["general"])'
    BY <1>1, <2>1, <2>2 DEF Writes, Sent
  <2>7. item' # item
    BY Counted DEF ChromeWrites, Written, Step, SInd
  <2>8. ASSUME NEW o \in ops PROVE Writing(o)'
    <3>1. Writing(o) /\ o.ver # item'.ver /\ (Known(o.value) => Known(o.value)')
      BY <1>1, <2>7, NewerDraft, StaysKnown DEF Writes
    <3> QED BY <2>1, <2>2, <2>3, <3>1 DEF Writing, Parts
  <2>9. ASSUME op.part = "general", NEW w, w = Write("forms", item'.ver, upd.base) PROVE Writing(w)'
    <3>1. upd.base = item.body /\ (upd.shown = None \/ upd.shown = item.body)
      BY <1>1, <2>1, <2>9 DEF Versions
    <3>2. w.part = "forms" /\ w.value = Desired(upd.base)["forms"] /\ w.base = upd.base["forms"]
      BY <2>9, <3>1 DEF Write
    <3>3. w.value # Blank /\ (Known(w.value) \/ w.value = w.base)
      BY <2>4, <3>2, Wanted DEF Parts
    <3>4. ASSUME NEW at \in Ats' PROVE ~(item'.stamp <= at)
      <4>1. PICK n \in Noted : at = n[2]
        BY <1>1, <3>4 DEF Ats, Noted
      <4>2. at <= item.stamp /\ at \in Nat /\ item.stamp \in Nat
        BY <4>1, NotedKept, Counted DEF Step, LInv, MarksInv, Marked, Marks, SInd
      <4>3. item'.stamp = item.stamp + 1
        BY <2>9 DEF ChromeWrites, Written
      <4> QED BY <4>2, <4>3
    <3>5. (Known(w.value) \/ w.value = w.base)'
      BY <1>1, <2>9, <3>3 DEF Known
    <3> QED BY <2>2, <2>3, <2>9, <3>2, <3>3, <3>4, <3>5 DEF Writing
  <2>10. ASSUME NEW o \in ops' PROVE Writing(o)'
    <3>1. o \in ops \/ (op.part = "general" /\ o = Write("forms", item'.ver, upd.base))
      BY <1>1, <2>2 DEF Parts
    <3> QED BY <2>8, <2>9, <3>1
  <2>11. /\ \A p \in Parts : Known(upd.rev[p])' /\ upd'.base[p] # Blank /\ Sent(upd.base[p])'
         /\ wipe = NoWipe
    BY <1>1, <2>1, <2>2, <2>4 DEF Writes, Sent, Known
  <2> QED
    BY <1>1, <2>1, <2>2, <2>5, <2>6, <2>10, <2>11 DEF Writes, Parts
<1> QED BY <1>2, <1>3

LEMMA WritesStep == ASSUME Step PROVE Writes'
BY WhoWrites, BeginWrites, TurnWrites, ReadsWrites, WrittenWrites, WritesEnd, WritesKept

\* What marks say of the draft, and of what a sync read of it, stays so: a field
\* that Vendoo lost does not come back.
LEMMA MarksKept ==
    ASSUME Step, NEW sy, NEW at \in Nat, NEW pr, Marks(sy, at, pr)
    PROVE  Marks(sy, at, pr)'
<1>1. /\ Reads /\ ReadNow /\ Moves /\ item \in Copies /\ SyncRead \subseteq Copies
      /\ item \in Item /\ item.stamp \in Nat /\ item'.stamp \in Nat /\ item'.stamp >= item.stamp
      /\ item' \in Item
  BY OnlyTheDraftIsRead, TheDraftMoves, Counted
     DEF Step, LInv, SInd, Typed, Copies, Moves, Item
<1>2. ASSUME NEW i, i \in {item} \cup SyncRead, NEW p \in Parts
      PROVE  /\ i.stamp \in Nat /\ i.body[p] \in 0 .. Blank /\ Past(i.body[p])
             /\ i.stamp <= at /\ i.body[p] = item.body[p] => Known(i.body[p])
             /\ pr[p] = i.body[p] => Known(pr[p])
  BY <1>1, <1>2, Fields DEF Marks, Reads
<1>3. ASSUME NEW i, i \in {item} \cup SyncRead, NEW p \in Parts
      PROVE  /\ i.stamp <= at /\ i.body[p] = item'.body[p] => Known(i.body[p])'
             /\ pr[p] = i.body[p] => Known(pr[p])'
  <2>1. PICK v \in 0 .. Blank : i.body[p] = v
    BY <1>2, <1>3
  <2>2. Known(v) => Known(v)'
    BY StaysKnown
  <2>3. item'.body[p] = v => item.body[p] = v \/ Known(v)
    BY <1>1, <1>2, <1>3, <2>1 DEF Moves
  <2>4. i.stamp <= at /\ item.body[p] = v => Known(v)
    BY <1>2, <1>3, <2>1
  <2>5. pr[p] = v => Known(v)
    BY <1>2, <1>3, <2>1
  <2> QED BY <2>1, <2>2, <2>3, <2>4, <2>5
<1>4. ASSUME NEW i, i = item', NEW p \in Parts
      PROVE  /\ i.stamp <= at => Known(i.body[p])'
             /\ pr[p] = i.body[p] => Known(pr[p])'
  <2>1. PICK v \in 0 .. Blank : i.body[p] = v
    BY <1>1, <1>4, Fields
  <2>2. Known(v) => Known(v)'
    BY StaysKnown
  <2>3. Past(pr[p]) /\ at <= item.stamp
    BY DEF Marks
  <2>4. CASE item.body[p] = v
    BY <1>1, <1>2, <1>4, <2>1, <2>2, <2>4
  <2>5. CASE item.body[p] # v
    <3>1. Known(v) \/ (item'.stamp > item.stamp /\ ~Past(v))
      BY <1>1, <1>4, <2>1, <2>5 DEF Moves
    <3> QED BY <1>1, <1>4, <2>1, <2>2, <2>3, <3>1
  <2> QED BY <2>4, <2>5
<1>5. ASSUME NEW i, i \in {item'} \cup SyncRead'
      PROVE  i = item' \/ i \in {item} \cup SyncRead
  BY <1>1, <1>5 DEF ReadNow
<1>6. at <= item'.stamp /\ \A p \in Parts : Past(pr[p])' 
  BY <1>1, StaysKnown DEF Marks
<1>7. at = 0 => sy = None
  BY DEF Marks
<1>8. ASSUME NEW i, i \in {item'} \cup SyncRead', NEW p \in Parts
      PROVE  /\ i.stamp <= at /\ i.body[p] = item'.body[p] => Known(i.body[p])'
             /\ pr[p] = i.body[p] => Known(pr[p])'
  BY <1>3, <1>4, <1>5, <1>8
<1> QED BY <1>6, <1>7, <1>8 DEF Marks

\* Without a mark there is nothing to say.
LEMMA EmptyMarks == ASSUME Step PROVE Marks(None, 0, None)'
<1>1. Reads' /\ item' \in Copies' /\ SyncRead' \subseteq Copies' /\ item'.stamp \in Nat
  BY ReadsStep, TypedStep DEF Copies, Step, SInd, Typed, Item
<1>2. \A p \in Parts : None[p] = Blank + 1 /\ None[p] \notin There
  BY Numbers DEF None, There
<1>3. ASSUME NEW i, i \in {item'} \cup SyncRead', NEW p \in Parts
      PROVE  i.stamp >= 1 /\ i.stamp \in Nat /\ i.body[p] \in 0 .. Blank
  BY <1>1, <1>3, Fields DEF Reads
<1>4. \A i \in {item'} \cup SyncRead', p \in Parts : ~(i.stamp <= 0) /\ None[p] # i.body[p]
  BY <1>2, <1>3, Numbers
<1> QED BY <1>1, <1>2, <1>4 DEF Marks, Past

\* Whatever keeps marks keeps them right.
LEMMA AllMarksKept ==
    ASSUME Step, NEW n \in Marked
    PROVE  /\ n[2] \in Nat
           /\ Marks(n[1], n[2], n[3]) /\ Marks(n[1], n[2], n[3])'
<1>1. Marks(n[1], n[2], n[3])
  BY DEF Step, LInv, MarksInv, Marked
<1>2. ASSUME n \in Noted PROVE n[2] \in Nat
  BY <1>2, NotedKept
<1>3. ASSUME n = wipe.notes PROVE n[2] \in Nat
  BY <1>3, KeptParts DEF Step, SInd, Typed
<1>4. ASSUME n \in Labelled PROVE n[2] \in Nat
  <2>1. loop.by = "label" /\ loop # Free /\ n = <<Gone, loop.item.stamp, loop.item.body, FALSE>>
    BY <1>4, FreeLoop DEF Labelled, LoopFree
  <2>2. loop.item \in Item
    BY <2>1 DEF Step, SInd, Full
  <2> QED BY <2>1, <2>2 DEF Item
<1>5. n[2] \in Nat
  BY <1>2, <1>3, <1>4 DEF Marked
<1>6. PICK sy, at, pr : sy = n[1] /\ at = n[2] /\ pr = n[3]
  OBVIOUS
<1>7. Marks(sy, at, pr)'
  BY <1>1, <1>5, <1>6, MarksKept
<1> QED BY <1>1, <1>5, <1>6, <1>7 DEF Marks

\* The revision that marks name may be deleted.
LEMMA DeletedMarks ==
    ASSUME Step, NEW n \in Marked
    PROVE  Marks(Deleted(n)[1], Deleted(n)[2], Deleted(n)[3])'
<1>1. Marks(n[1], n[2], n[3])'
  BY AllMarksKept
<1>2. Deleted(n)[2] = n[2] /\ Deleted(n)[3] = n[3] /\ (n[1] = None => Deleted(n)[1] = None)
  BY DEF Deleted
<1> QED BY <1>1, <1>2 DEF Marks

\* The marks a reset took with it.
LEMMA WipeMarks ==
    ASSUME Step, NEW n, n = wipe'.notes
    PROVE  Marks(n[1], n[2], n[3])'
<1>1. wipe.notes \in Marked /\ notes \in Marked
  BY DEF Marked, Noted
<1>2. CASE UNCHANGED wipe \/ wipe'.notes = notes
  BY <1>1, <1>2, AllMarksKept
<1>3. CASE wipe' = NoWipe
  <2>1. n = <<None, 0, None, FALSE>>
    BY <1>3 DEF NoWipe
  <2> QED BY <2>1, EmptyMarks
<1>4. ASSUME NEW kind \in {"regenerate", "clear"}, ResetStarts(kind) PROVE wipe'.notes = notes
  BY <1>4 DEF ResetStarts
<1>5. ASSUME NEW P \in SUBSET Parts, Edit(P) \/ Automation(P) PROVE UNCHANGED wipe
  BY <1>5 DEF Edit, Automation
<1>6. CASE SyncAnswered \/ Loop \/ DiscardEnds \/ SaveVerifies
  BY <1>2, <1>6 DEF SyncAnswered, Loop, PullMerges, SavesOver, PullEnds, SaveEnds, CheckEnds,
                    DiscardEnds, SaveVerifies
<1>7. CASE Restart
  BY <1>3, <1>7 DEF Restart
<1>8. ASSUME NEW kind \in {"regenerate", "clear"}, ResetWipes(kind) PROVE wipe' = NoWipe
  BY <1>8 DEF ResetWipes, Wiped
<1>9. ASSUME NEW old \in pens, NotesRewritten(old) PROVE UNCHANGED wipe
  BY <1>9 DEF NotesRewritten
<1> QED
  BY <1>2, <1>3, <1>4, <1>5, <1>6, <1>7, <1>8, <1>9, WhoLists

\* A check that found nothing new: by the marks it has what Studio knew.
LEMMA AnsweredMarks ==
    ASSUME Step, NEW n \in Labelled'
    PROVE  Marks(n[1], n[2], n[3])'
<1>1. loop'.by = "label" /\ n = <<Gone, loop'.item.stamp, loop'.item.body, FALSE>>
  BY DEF Labelled
<1>2. CASE loop'.item = loop.item /\ loop.by = "label"
  <2>1. n \in Marked
    BY <1>1, <1>2 DEF Marked, Labelled
  <2> QED BY <2>1, AllMarksKept
<1>3. CASE SyncAnswered
  <2>1. /\ Reads /\ Marks(synced, seen, print) /\ sync.at = "read" /\ sync.item \in SyncRead
        /\ SyncRead \subseteq Copies /\ SyncRead' = {} /\ UNCHANGED <<item, made, known>>
        /\ seen \in Nat /\ item.stamp \in Nat
    <3>1. notes \in Marked /\ notes[1] = synced /\ notes[2] = seen /\ notes[3] = print
      BY DEF Marked, Noted, notes
    <3>2. Marks(synced, seen, print) /\ seen \in Nat
      BY <3>1, AllMarksKept
    <3> QED BY <1>3, <3>2, IdleIsRead, Counted DEF Step, LInv, SyncAnswered, SyncRead, Copies, history, SInd
  <2>2. /\ sync.item \in Item /\ sync.item.stamp \in 1 .. item.stamp
        /\ \A p \in Parts : Past(sync.item.body[p])
    BY <2>1 DEF Reads
  <2>3. State(sync.item) \in {"label", "none"} /\ loop'.item = sync.item
    BY <1>1, <1>3 DEF SyncAnswered, Puller, Free
  <2>4. sync.item.stamp <= seen \/ print = sync.item.body
    <3>1. Moved(sync.item) => VendooContentUnchanged(sync.item)
      BY <2>3 DEF State
    <3>2. seen # 0
      BY <2>3 DEF State
    <3> QED BY <2>1, <2>2, <3>1, <3>2 DEF Moved, VendooContentUnchanged
  <2>5. ASSUME NEW p \in Parts
        PROVE  /\ sync.item.body[p] = item.body[p] => Known(sync.item.body[p])
               /\ item.stamp <= sync.item.stamp => Known(item.body[p])
    <3>1. sync.item.body[p] = item.body[p] => Known(sync.item.body[p])
      BY <2>1, <2>4 DEF Marks
    <3>2. item.stamp <= sync.item.stamp => sync.item.body[p] = item.body[p] \/ Known(item.body[p])
      BY <2>1, <2>2 DEF Reads
    <3> QED BY <3>1, <3>2
  <2>6. n[1] = Gone /\ n[2] = sync.item.stamp /\ n[3] = sync.item.body /\ n[2] # 0
    BY <1>1, <2>2, <2>3
  <2> QED BY <2>1, <2>2, <2>5, <2>6 DEF Marks, Past, Known
<1>4. ASSUME NEW P \in SUBSET Parts, Edit(P) PROVE loop'.item = loop.item /\ loop'.by = loop.by
  BY <1>4, FreeLoop DEF Edit, Stretches
<1>5. ASSUME NEW P \in SUBSET Parts, Automation(P) PROVE FALSE
  BY <1>1, <1>5 DEF Automation, Free
<1>6. CASE Loop
  <2>1. PullMerges
    BY <1>1, <1>6, FreeLoop DEF Loop, SavesOver, PullEnds, SaveEnds, CheckEnds, Step, SInd, Full, Stretches
  <2> QED BY <1>1, <1>2, <2>1, FreeLoop DEF PullMerges, Stretches
<1>7. CASE DiscardEnds \/ SaveVerifies \/ Restart
  BY <1>1, <1>2, <1>7, FreeLoop DEF DiscardEnds, SaveVerifies, Restart, Free
<1>8. ASSUME UNCHANGED loop PROVE loop'.item = loop.item /\ loop.by = "label"
  BY <1>1, <1>8
<1> QED
  BY <1>1, <1>2, <1>3, <1>4, <1>5, <1>6, <1>7, <1>8, WhoLists DEF NotesRewritten, ResetWipes, Wiped

\* A pull or an update marks the listing level with what was read, and that is
\* known.
LEMMA LevelMarks ==
    ASSUME Step, PullEnds \/ SaveEnds
    PROVE  Marks(synced, seen, print)'
<1>0. PICK i : i = loop.item
  OBVIOUS
<1>1. /\ Reads /\ TwoReads /\ Listings /\ UNCHANGED <<item, made, sync, discard>>
      /\ loop.at = "mark" /\ loop.by \in {"first", "sync", "discard", "update"}
      /\ loop.rev \in Bodies /\ item.stamp \in Nat /\ item \in Copies
  BY FreeLoop, Counted
     DEF Step, LInv, PullEnds, SaveEnds, SInd, Typed, Full, Stretches, Copies
<1>2. /\ i \in Copies /\ i \in Item /\ i.stamp \in 1 .. item.stamp
      /\ \A p \in Parts : Past(i.body[p])
  BY <1>0, <1>1 DEF Copies, LoopRead, Reads
<1>3. synced' = loop.rev /\ seen' = i.stamp /\ print' = i.body /\ conflict' = FALSE
  BY <1>0 DEF PullEnds, SaveEnds, MarkSynced
<1>4. ASSUME NEW p \in Parts PROVE Known(i.body[p])'
  <2>1. CASE SaveEnds
    BY <1>0, <2>1 DEF SaveEnds, Known
  <2>2. CASE PullEnds
    <3>1. loop.rev = loop.item.body
      BY <1>1, <2>2 DEF PullEnds, Listings
    <3>2. Known(loop.rev[p]) /\ known' = known
      BY <1>1, <2>2 DEF PullEnds, Listings
    <3> QED BY <1>0, <3>1, <3>2 DEF Known
  <2> QED BY <2>1, <2>2
<1>5. ASSUME NEW p \in Parts, item.stamp <= i.stamp PROVE Known(item.body[p])'
  <2>1. i.body[p] = item.body[p] \/ Known(item.body[p])
    BY <1>1, <1>2, <1>5 DEF Reads
  <2> QED BY <1>1, <1>4, <2>1, HistoryGrows DEF Known
<1>6. ASSUME NEW j \in SyncRead, NEW p \in Parts, j.stamp <= i.stamp, j.body[p] = item.body[p]
      PROVE  Known(j.body[p])'
  <2>1. loop.by = "discard"
    BY <1>1, <1>6, IdleIsRead DEF SyncRead, Step, SInd, Holds, PullEnds, SaveEnds, Checks
  <2>2. i \in DiscardRead
    BY <1>0, <2>1 DEF DiscardRead, LoopRead
  <2>3. j.body[p] = i.body[p] \/ Known(j.body[p])
    BY <1>1, <1>6, <2>2 DEF TwoReads
  <2> QED BY <1>4, <2>3, StaysKnown
<1>7. SyncRead' = SyncRead
  BY <1>1 DEF SyncRead
<1>8. loop.rev # None /\ i.stamp # 0 /\ i.stamp <= item.stamp
  BY <1>1, <1>2, Numbers
<1>9. \A p \in Parts : Past(i.body[p])'
  BY <1>1, <1>2 DEF Past
<1>10. ASSUME NEW j, j \in {item'} \cup SyncRead', NEW p \in Parts
       PROVE  /\ j.stamp <= i.stamp /\ j.body[p] = item'.body[p] => Known(j.body[p])'
              /\ i.body[p] = j.body[p] => Known(i.body[p])'
  <2>1. CASE j = item'
    BY <1>1, <1>4, <1>5, <2>1
  <2>2. CASE j \in SyncRead
    BY <1>1, <1>4, <1>6, <2>2
  <2> QED BY <1>7, <1>10, <2>1, <2>2
<1> QED
  BY <1>1, <1>3, <1>8, <1>9, <1>10 DEF Marks

\* What a check marks is right.
LEMMA CheckedMarks ==
    ASSUME Step, CheckEnds
    PROVE  Marks(synced, seen, print)'
<1>1. CASE loop.by = "label"
  <2>1. PICK n : n = <<Gone, loop.item.stamp, loop.item.body, FALSE>>
    OBVIOUS
  <2>2. n \in Marked /\ n[2] = loop.item.stamp /\ n[3] = loop.item.body /\ n[1] = Gone
    BY <1>1, <2>1 DEF Marked, Labelled
  <2>3. Marks(n[1], n[2], n[3])'
    BY <2>2, AllMarksKept
  <2>4. seen' = n[2] /\ print' = n[3] /\ n[1] # None
    BY <1>1, <2>2, Numbers DEF CheckEnds, ApplyLabel
  <2> QED BY <2>3, <2>4 DEF Marks
<1>2. CASE loop.by = "conflict"
  <2>1. notes \in Marked /\ notes[1] = synced /\ notes[2] = seen /\ notes[3] = print
    BY DEF Marked, Noted, notes
  <2>2. PICK n : n = notes
    OBVIOUS
  <2>3. Marks(n[1], n[2], n[3])'
    BY <2>1, <2>2, AllMarksKept
  <2>4. synced' = n[1] /\ seen' = n[2] /\ print' = n[3]
    BY <1>2, <2>1, <2>2 DEF CheckEnds, ApplyConflict
  <2> QED BY <2>3, <2>4 DEF Marks
<1> QED BY <1>1, <1>2 DEF CheckEnds

\* A reset puts back marks that were there, or none.
LEMMA WipedMarks ==
    ASSUME Step, NEW kind \in {"regenerate", "clear"}, ResetWipes(kind)
    PROVE  Marks(synced, seen, print)'
<1>1. PICK left :
          /\ left \in {wipe.notes, notes, NoWipe.notes}
          /\ synced' = Deleted(left)[1] /\ seen' = Deleted(left)[2] /\ print' = Deleted(left)[3]
  BY DEF ResetWipes, Wiped
<1>2. CASE left = NoWipe.notes
  <2>1. Deleted(left)[1] = None /\ Deleted(left)[2] = 0 /\ Deleted(left)[3] = None
    BY <1>2 DEF NoWipe, Deleted
  <2> QED BY <1>1, <2>1, EmptyMarks DEF Marks
<1>3. CASE left \in {wipe.notes, notes}
  <2>1. Marks(Deleted(left)[1], Deleted(left)[2], Deleted(left)[3])'
    BY <1>3, DeletedMarks DEF Marked, Noted
  <2> QED BY <1>1, <2>1 DEF Marks
<1> QED BY <1>1, <1>2, <1>3

\* With the notes, all that keeps marks keeps them right.
LEMMA OtherMarks ==
    ASSUME Step, Marks(synced, seen, print)'
    PROVE  MarksInv'
<1> SUFFICES ASSUME NEW n, n \in Noted' \cup {wipe'.notes} \cup Labelled'
             PROVE  Marks(n[1], n[2], n[3])'
  BY DEF MarksInv, Marked
<1>1. CASE n = notes'
  <2>1. n[1] = synced' /\ n[2] = seen' /\ n[3] = print'
    BY <1>1 DEF notes
  <2> QED BY <2>1 DEF Marks
<1>2. CASE n \in pens'
  <2>1. CASE n \in Noted
    BY <2>1, AllMarksKept DEF Marked
  <2>2. ASSUME NEW kind \in {"regenerate", "clear"}, ResetWipes(kind)
        PROVE  Marks(n[1], n[2], n[3])'
    <3>1. PICK m \in pens : n = Deleted(m)
      BY <1>2, <2>2 DEF ResetWipes, Wiped
    <3> QED BY <3>1, DeletedMarks DEF Marked, Noted
  <2> QED BY <1>2, <2>1, <2>2, WhoPens
<1>3. CASE n = wipe'.notes
  BY <1>3, WipeMarks
<1>4. CASE n \in Labelled'
  BY <1>4, AnsweredMarks
<1> QED BY <1>1, <1>2, <1>3, <1>4 DEF Noted

LEMMA MarksStep == ASSUME Step PROVE MarksInv'
<1>1. CASE notes' \in Noted
  <2>1. PICK n : n = notes'
    OBVIOUS
  <2>2. Marks(n[1], n[2], n[3])'
    BY <1>1, <2>1, AllMarksKept DEF Marked
  <2>3. n[1] = synced' /\ n[2] = seen' /\ n[3] = print'
    BY <2>1 DEF notes
  <2> QED BY <2>2, <2>3, OtherMarks DEF Marks
<1>2. ASSUME NEW P \in SUBSET Parts, Edit(P) \/ Automation(P) PROVE UNCHANGED notes
  BY <1>2 DEF Edit, Automation
<1>3. ASSUME PullMerges \/ SavesOver \/ DiscardEnds \/ SaveVerifies \/ Restart \/ SyncAnswered
      PROVE  UNCHANGED notes
  BY <1>3 DEF PullMerges, SavesOver, DiscardEnds, SaveVerifies, Restart, SyncAnswered
<1>4. notes \in Noted
  BY DEF Noted
<1> QED
  BY <1>1, <1>2, <1>3, <1>4, WhoLists, RewrittenNotes, CheckedMarks, LevelMarks, WipedMarks, OtherMarks
     DEF Loop

\* A draft that moves without a newer stamp holds what it held: Studio wrote the
\* forms again.
LEMMA SameByTheMarks ==
    ASSUME Step, ~slipped', NEW at \in Ats, item'.stamp <= at
    PROVE  item'.body = item.body /\ item'.stamp = item.stamp
<1>0. at \in Nat /\ at <= item.stamp
  <2>1. PICK n \in Noted : at = n[2]
    BY DEF Ats
  <2>2. Marks(n[1], n[2], n[3]) /\ n[2] \in Nat
    BY <2>1, AllMarksKept DEF Marked
  <2> QED BY <2>1, <2>2 DEF Marks
<1>1. /\ item \in Item /\ item.stamp \in Nat /\ at \in Nat /\ at <= item.stamp /\ ~slipped
  BY <1>0, Counted, HistoryGrows DEF Step, SInd, Typed
<1>2. ASSUME NEW P \in SUBSET Parts, VendooChanges(P) PROVE FALSE
  BY <1>1, <1>2 DEF VendooChanges
<1>3. ASSUME NEW op \in ops, ChromeWrites(op) PROVE item'.body = item.body /\ item'.stamp = item.stamp
  <2>1. /\ op.ver = item.ver /\ Awaited(op) /\ Writing(op)
        /\ item'.stamp = item.stamp + (IF op.part = "general" THEN 1 ELSE 0)
        /\ item'.body = [item.body EXCEPT ![op.part] = op.value]
    BY <1>3 DEF ChromeWrites, Written, StillThatVersion, Step, LInv, Writes
  <2>2. op.part = "forms" /\ item'.stamp = item.stamp
    <3>1. op.part \in {"general", "forms"}
      BY DEF Step, SInd, Typed, OpSet, Parts
    <3> QED BY <1>1, <2>1, <3>1
  <2>3. upd.at = "forms" /\ upd.no = op.no /\ upd # NoUpd
    BY <2>1, <2>2, NoUpdTyped DEF Awaited
  <2>4. op.value = item.body["forms"]
    BY <1>1, <2>1, <2>2, <2>3 DEF Writing
  <2> QED BY <1>1, <2>1, <2>2, <2>4 DEF Item, Bodies
<1>4. CASE SavesOver \/ PullEnds \/ SaveEnds \/ UNCHANGED item
  BY <1>4 DEF SavesOver, PullEnds, SaveEnds
<1>5. ASSUME NEW old \in pens, NotesRewritten(old) PROVE UNCHANGED item
  BY <1>5 DEF NotesRewritten
<1> QED BY <1>2, <1>3, <1>4, <1>5, WhoTouches

\* Notes that are kept stay level.
LEMMA LevelStays ==
    ASSUME Step, ~slipped', NEW n \in Noted
    PROVE  LevelBy(n)'
<1>1. ~slipped /\ LevelBy(n) /\ n[2] \in Ats
  BY HistoryGrows DEF Step, LInv, LevelInv, Ats
<1> SUFFICES ASSUME n[1] \in Bodies,
                    NEW p \in Parts, NEW i, i \in {item'} \cup SyncRead', i.stamp <= n[2]
             PROVE  n[1][p] \in {Blank, i.body[p]}
  BY <1>1 DEF LevelBy
<1>2. CASE i \in {item} \cup SyncRead
  BY <1>1, <1>2 DEF LevelBy
<1>3. CASE i = item'
  <2>1. item'.body = item.body /\ item.stamp <= n[2]
    BY <1>1, <1>3, SameByTheMarks
  <2> QED BY <1>1, <1>3, <2>1 DEF LevelBy
<1>4. SyncRead' \subseteq SyncRead \cup {item}
  BY OnlyTheDraftIsRead DEF ReadNow
<1> QED BY <1>2, <1>3, <1>4

\* With the notes, all that may be written back is level.
LEMMA OtherLevel ==
    ASSUME Step, ~slipped', LevelBy(notes)', NEW n \in Noted'
    PROVE  LevelBy(n)'
<1>1. CASE n \in Noted
  BY <1>1, LevelStays
<1>2. ASSUME NEW kind \in {"regenerate", "clear"}, ResetWipes(kind), n \in pens'
      PROVE  LevelBy(n)'
  <2>1. PICK m \in pens : n = Deleted(m)
    BY <1>2 DEF ResetWipes, Wiped
  <2>2. n[1] \notin Bodies
    BY <2>1, Numbers DEF Deleted
  <2> QED BY <2>2 DEF LevelBy
<1>3. CASE n = notes'
  BY <1>3 DEF LevelBy
<1> QED BY <1>1, <1>2, <1>3, WhoPens DEF Noted

\* A check that finds nothing to do finds Studio level with what it read; and
\* notes that are rewritten before it marks that, slip.
LEMMA AnsweredLevel ==
    ASSUME Step, ~slipped', loop'.by = "label", synced' \in Bodies, NEW p \in Parts
    PROVE  synced'[p] \in {Blank, loop'.item.body[p]}
<1>1. /\ ~slipped /\ LevelBy(notes)
      /\ loop.by = "label" /\ synced \in Bodies => synced[p] \in {Blank, loop.item.body[p]}
  BY HistoryGrows DEF Step, LInv, LevelInv, Noted
<1>2. CASE UNCHANGED <<synced, loop>>
  BY <1>1, <1>2
<1>3. CASE SyncAnswered
  <2>1. /\ Reads /\ sync.at = "read" /\ sync.item \in SyncRead /\ sync.item \in Copies
        /\ seen \in Nat /\ UNCHANGED synced
    BY <1>3 DEF Step, LInv, SyncAnswered, SyncRead, Copies, SInd, Typed, notes
  <2>2. sync.item.stamp \in Nat
    BY <2>1, Fields DEF Reads, Item
  <2>3. State(sync.item) \in {"label", "none"} /\ loop'.item = sync.item
    BY <1>3 DEF SyncAnswered, Puller, Free
  <2>4. sync.item.stamp <= seen \/ print = sync.item.body
    BY <2>1, <2>2, <2>3 DEF State, Moved, VendooContentUnchanged
  <2>5. notes[1] = synced /\ notes[2] = seen /\ notes[3] = print
    BY DEF notes
  <2> QED BY <1>1, <2>1, <2>3, <2>4, <2>5 DEF LevelBy
<1>4. ASSUME NEW P \in SUBSET Parts, Edit(P) \/ Automation(P)
      PROVE  loop'.by = "automation" \/ (loop'.item = loop.item /\ loop'.by = loop.by /\ UNCHANGED synced)
  BY <1>4, FreeLoop DEF Edit, Automation, Stretches, Free, notes
<1>5. CASE Loop
  <2>1. PullMerges
    BY <1>5, FreeLoop DEF Loop, SavesOver, PullEnds, SaveEnds, CheckEnds, Step, SInd, Full, Stretches
  <2> QED BY <1>1, <2>1, FreeLoop DEF PullMerges, Stretches, notes
<1>6. CASE DiscardEnds \/ SaveVerifies \/ Restart
  BY <1>1, <1>6, FreeLoop DEF DiscardEnds, SaveVerifies, Restart, Free, notes
<1>7. ASSUME NEW kind \in {"regenerate", "clear"}, ResetWipes(kind) PROVE FALSE
  BY <1>7, Numbers DEF ResetWipes, Wiped, Deleted
<1>8. ASSUME NEW old \in pens, NotesRewritten(old) PROVE UNCHANGED <<synced, loop>>
  BY <1>8 DEF NotesRewritten, notes
<1>9. ASSUME UNCHANGED <<cur, notes, loop>> PROVE UNCHANGED <<synced, loop>>
  BY <1>9 DEF notes
<1> QED
  BY <1>1, <1>2, <1>3, <1>4, <1>5, <1>6, <1>7, <1>8, <1>9, WhoLists

\* What a check marks.
LEMMA CheckedLevel == ASSUME Step, ~slipped', CheckEnds PROVE LevelBy(notes)'
<1>1. CASE loop.by = "label"
  <2>1. /\ ~slipped /\ Reads /\ loop.item \in Copies /\ UNCHANGED <<item, sync>> /\ item.stamp \in Nat
        /\ synced \in Bodies => \A p \in Parts : synced[p] \in {Blank, loop.item.body[p]}
    BY <1>1, HistoryGrows, Counted
       DEF Step, LInv, LevelInv, CheckEnds, Copies, LoopRead, SInd
  <2>2. /\ loop.item \in Item /\ loop.item.stamp \in 1 .. item.stamp
        /\ loop.item.stamp = item.stamp => loop.item.body = item.body
    BY <2>1 DEF Reads
  <2>3. SyncRead' = {}
    BY <1>1, <2>1, IdleIsRead DEF SyncRead, Step, SInd, Holds, Checks
  <2>4. item.stamp <= loop.item.stamp => loop.item.body = item.body
    BY <2>1, <2>2
  <2>5. notes'[1] = synced /\ notes'[2] = loop.item.stamp /\ notes'[3] = loop.item.body
    BY <1>1 DEF CheckEnds, ApplyLabel, notes
  <2> QED BY <2>1, <2>3, <2>4, <2>5 DEF LevelBy
<1>2. CASE loop.by = "conflict"
  <2>2. notes'[1] = synced /\ notes'[2] = seen /\ notes'[3] = print
    BY <1>2 DEF CheckEnds, ApplyConflict, notes
  <2>3. PICK n : n = notes
    OBVIOUS
  <2>4. LevelBy(n)'
    BY <2>3, LevelStays DEF Noted
  <2>5. n[1] = synced /\ n[2] = seen /\ n[3] = print
    BY <2>3 DEF notes
  <2> QED BY <2>2, <2>4, <2>5 DEF LevelBy
<1> QED BY <1>1, <1>2 DEF CheckEnds

\* What a pull or an update marks is what was read, or what it wrote there.
LEMMA MarkedLevel == ASSUME Step, ~slipped', PullEnds \/ SaveEnds PROVE LevelBy(notes)'
<1>1. /\ Reads /\ Listings /\ UNCHANGED <<item, sync>> /\ (slipped => slipped')
      /\ loop.at = "mark" /\ loop.by \in {"first", "sync", "discard", "update"}
      /\ loop.rev \in Bodies /\ item.stamp \in Nat
  BY FreeLoop, Counted, HistoryGrows
     DEF Step, LInv, PullEnds, SaveEnds, SInd, Typed, Full, Stretches
<1>2. /\ loop.item \in Item /\ loop.item.stamp \in 1 .. item.stamp
      /\ loop.item.stamp = item.stamp => slipped \/ loop.item.body = item.body
  BY <1>1 DEF Copies, LoopRead, Reads
<1>3. synced' = loop.rev /\ seen' = loop.item.stamp /\ print' = loop.item.body
  BY DEF PullEnds, SaveEnds, MarkSynced
<1>4. SyncRead' = {}
  <2>1. loop.by = "discard" => lock = ""
    BY <1>1 DEF PullEnds, SaveEnds
  <2> QED BY <1>1, <2>1, IdleIsRead DEF SyncRead, Step, SInd, Holds, Checks
<1>5. ASSUME NEW p \in Parts PROVE loop.rev[p] \in {Blank, loop.item.body[p]}
  <2>1. CASE PullEnds
    <3>1. loop.rev = loop.item.body
      BY <1>1, <2>1 DEF PullEnds, Listings
    <3> QED BY <3>1
  <2>2. CASE SaveEnds
    <3>1. loop.rev = upd.rev /\ loop.item.body = Desired(upd.base)
      BY <1>1, <1>5, <2>2 DEF SaveEnds, Listings
    <3> QED BY <3>1, Wanted
  <2> QED BY <2>1, <2>2
<1>6. ASSUME item.stamp <= loop.item.stamp PROVE loop.item.body = item.body
  BY <1>1, <1>2, <1>6
<1>7. notes'[1] = loop.rev /\ notes'[2] = loop.item.stamp /\ notes'[3] = loop.item.body
  BY <1>3 DEF notes
<1> QED BY <1>1, <1>4, <1>5, <1>6, <1>7 DEF LevelBy

LEMMA LevelStep == ASSUME Step PROVE LevelInv'
<1> SUFFICES ASSUME ~slipped' PROVE LevelInv'
  BY DEF LevelInv
<1>1. ASSUME LevelBy(notes)' PROVE LevelInv'
  BY <1>1, OtherLevel, AnsweredLevel DEF LevelInv
<1>2. ASSUME notes' \in Noted PROVE LevelBy(notes)'
  <2>1. PICK n \in Noted : n = notes'
    BY <1>2
  <2>2. LevelBy(n)'
    BY LevelStays
  <2> QED BY <2>1, <2>2 DEF LevelBy
<1>3. ASSUME NEW P \in SUBSET Parts, Edit(P) \/ Automation(P) PROVE UNCHANGED notes
  BY <1>3 DEF Edit, Automation
<1>4. ASSUME PullMerges \/ SavesOver \/ DiscardEnds \/ SaveVerifies \/ Restart \/ SyncAnswered
      PROVE  UNCHANGED notes
  BY <1>4 DEF PullMerges, SavesOver, DiscardEnds, SaveVerifies, Restart, SyncAnswered
<1>5. ASSUME NEW kind \in {"regenerate", "clear"}, ResetWipes(kind) PROVE LevelBy(notes)'
  <2>1. notes'[1] \in {None, Gone}
    BY <1>5 DEF ResetWipes, Wiped, Deleted, notes
  <2> QED BY <2>1, Numbers DEF LevelBy
<1>6. notes \in Noted
  BY DEF Noted
<1> QED
  BY <1>1, <1>2, <1>3, <1>4, <1>5, <1>6, WhoLists, RewrittenNotes, CheckedLevel, MarkedLevel DEF Loop

\* At first both sides hold the same, or there is no mark.
LEMMA LInvInit == Init => LInv
<1> SUFFICES ASSUME Init PROVE LInv
  OBVIOUS
<1>1. /\ item = [stamp |-> 1, ver |-> 1, body |-> Start] /\ cur = Start
      /\ sync = Idle /\ discard = Idle /\ loop = Free /\ upd = NoUpd /\ ops = {} /\ wipe = NoWipe
      /\ sent = {} /\ known = {} /\ pens = {}
      /\ \/ synced = Start /\ seen = 1 /\ print = Start
         \/ synced = None /\ seen = 0 /\ print = None
  BY DEF Init
<1>2. /\ Idle.at = "idle" /\ Free.by = "" /\ Free.at = "free" /\ NoUpd.at = "idle"
      /\ NoWipe.notes = <<None, 0, None, FALSE>>
  BY DEF Idle, Free, NoUpd, NoWipe
<1>3. /\ item \in Item /\ item.stamp = 1 /\ item.body = Start
      /\ \A p \in Parts : Start[p] = 0 /\ None[p] = Blank + 1
  BY <1>1, TypedInit DEF SInd, Typed, Start, None
<1>4. 0 \notin Here \cup There /\ 0 # Blank /\ Blank + 1 \notin There /\ Blank + 1 # 0
  BY Values, Numbers DEF There
<1>5. Copies = {item} /\ SyncRead = {} /\ DiscardRead = {}
  BY <1>1, <1>2 DEF Copies, SyncRead, DiscardRead, LoopRead
<1>6. Reads /\ TwoReads
  BY <1>1, <1>3, <1>4, <1>5 DEF Reads, TwoReads, Sent, Past
<1>a. Noted = {notes} /\ notes[1] = synced /\ notes[2] = seen /\ notes[3] = print
  BY <1>1 DEF Noted, notes
<1>7. Listings /\ Writes
  BY <1>1, <1>2, <1>3, <1>4, <1>a, Numbers DEF Listings, Writes, Known, Sent
<1>8. Marks(None, 0, None)
  BY <1>3, <1>4, <1>5 DEF Marks, Past
<1>9. Marks(Start, 1, Start)
  BY <1>3, <1>4, <1>5, Numbers DEF Marks, Past, Known
<1>10. MarksInv
  <2>1. Marks(synced, seen, print)
    BY <1>1, <1>8, <1>9 DEF Marks
  <2>2. Marked = {notes, <<None, 0, None, FALSE>>}
    BY <1>1, <1>2, <1>a DEF Marked, Labelled
  <2>3. ASSUME NEW n, n = notes PROVE Marks(n[1], n[2], n[3])
    BY <1>a, <2>1, <2>3 DEF Marks
  <2>4. ASSUME NEW n, n = <<None, 0, None, FALSE>> PROVE Marks(n[1], n[2], n[3])
    BY <1>8, <2>4 DEF Marks
  <2> QED BY <2>2, <2>3, <2>4 DEF MarksInv
<1>11. LevelInv
  BY <1>1, <1>2, <1>3, <1>5, <1>a, Numbers DEF LevelInv, LevelBy
<1> QED BY <1>6, <1>7, <1>10, <1>11 DEF LInv

LEMMA LInvariant == SSpec => [](SInd /\ Versions /\ LInv)
<1>1. Init => SInd /\ Versions /\ LInv
  BY TypedInit, VersionsInit, LInvInit
<1>2. SInd /\ Versions /\ LInv /\ [Next]_vars => (SInd /\ Versions /\ LInv)'
  <2> SUFFICES ASSUME Step PROVE SInd' /\ Versions' /\ LInv'
    BY DEF Step
  <2>2. SInd' /\ Versions'
    BY TypedStep, VersionsStep DEF Step
  <2>3. LInv'
    BY ReadsStep, TwoReadsStep, ListingsStep, WritesStep, MarksStep, LevelStep DEF LInv
  <2> QED BY <2>2, <2>3
<1> QED BY <1>1, <1>2, PTL DEF SSpec

----------------------------------------------------------------------------
(* What it means.                                                          *)

\* When a check would find nothing to do and the listing shows no unsent edits,
\* both sides hold the same, unless a mark slipped: for every number of edits.
THEOREM LevelHolds == SSpec => []Level
<1>1. SInd /\ LInv => Level
  <2>1. notes \in Noted /\ notes[1] = synced /\ notes[2] = seen /\ notes[3] = print
    BY DEF Noted, notes
  <2>2. SUFFICES ASSUME SInd, LInv, ShownLevel, ~slipped, NEW p \in Parts
                 PROVE  cur[p] \in {Blank, item.body[p]}
    BY DEF Level
  <2>3. LevelBy(notes) /\ cur \in Bodies /\ cur = synced
    BY <2>1, <2>2 DEF LInv, LevelInv, ShownLevel, SInd, Typed
  <2>4. CASE item.stamp <= seen
    BY <2>1, <2>3, <2>4 DEF LevelBy
  <2>5. CASE print = item.body
    BY <2>1, <2>3, <2>5 DEF LevelBy
  <2> QED BY <2>2, <2>4, <2>5 DEF ShownLevel
<1> QED BY <1>1, LInvariant, PTL

\* A sync never saves Vendoo's copy over an unsent edit of the seller's that it
\* could have seen.
THEOREM EditsKept == SSpec => EditKept
<1>1. SInd /\ Versions /\ LInv /\ [Next]_vars =>
        [loop.at = "save" /\ loop.by = "sync" =>
            \A p \in Parts : cur[p] \in Here \ (sent \cup loop.race) => cur'[p] = cur[p]]_vars
  BY DEF LInv, Listings
<1> QED BY <1>1, LInvariant, PTL DEF SSpec, EditKept

\* As long as each side has an edit the other never had, every check of the draft
\* finds a conflict, whatever was written back over the marks, unless the notes
\* name no revision Studio was level with: for every number of edits.
THEOREM ConflictsStand == SSpec => []ConflictStands
<1>1. SInd /\ LInv => ConflictStands
  <2> SUFFICES ASSUME SInd, LInv, synced # None,
                      NEW p \in Parts, item.body[p] \in There \ known,
                      NEW q \in Parts, cur[q] \in Here \ sent
               PROVE  State(item) = "conflict"
    BY DEF ConflictStands, BothAhead
  <2>1. notes \in Noted /\ notes[1] = synced /\ notes[2] = seen /\ notes[3] = print
    BY DEF Noted, notes
  <2>2. Marks(synced, seen, print)
    BY <2>1 DEF LInv, MarksInv, Marked
  <2>3. seen # 0 /\ seen \in Nat /\ item.stamp \in Nat
    BY <2>2, Counted DEF Marks, SInd, Typed
  <2>4. ~(item.stamp <= seen) /\ print[p] # item.body[p]
    BY <2>2 DEF Marks, Known
  <2>5. Moved(item) /\ ~VendooContentUnchanged(item)
    BY <2>3, <2>4 DEF Moved, VendooContentUnchanged
  <2>6. cur # synced
    <3>1. synced \in Bodies => Sent(synced[q])
      BY <2>1 DEF LInv, Listings
    <3> QED BY <3>1 DEF Sent, SInd, Typed
  <2>7. cur # NoListing
    BY Values DEF NoListing
  <2> QED BY <2>3, <2>5, <2>6, <2>7 DEF State, StudioHasUnpushedEdits
<1> QED BY <1>1, LInvariant, PTL

=============================================================================
