---------------------------- MODULE VendooSyncProofs ----------------------------
(***************************************************************************)
(* A listing and its Vendoo draft: what keeps syncs and updates apart, and *)
(* what an update may write over, for every number of edits on both sides. *)
(***************************************************************************)
EXTENDS VendooSync, TLAPS

----------------------------------------------------------------------------
(* Types.                                                                  *)

Read == [at : {"idle", "asking", "read"}, item : Item \cup {NoItem}]
Body == Bodies \cup {None}

Updates ==
    [at : {"idle", "waits", "reads", "general", "forms", "verify"}, no : Nat, rev : Body,
     ver : Nat, base : Body, shown : Body, prep : BOOLEAN]

Stretches ==
    [at : {"free", "check", "merge", "save", "mark"},
     by : {"", "first", "sync", "label", "conflict", "discard", "automation", "update"},
     item : Item \cup {NoItem}, rev : Body, race : SUBSET Nat]

OpSet == [no : Nat, part : Parts, ver : Nat, value : 0 .. Blank, base : 0 .. Blank]

Kept == (Body \cup {Gone}) \X Nat \X Body \X BOOLEAN

Typed ==
    /\ cur \in Bodies /\ synced \in Body \cup {Gone} /\ seen \in Nat /\ print \in Body
    /\ conflict \in BOOLEAN
    /\ item \in Item
    /\ lock \in {"", "sync", "save"}
    /\ sync \in Read /\ discard \in Read
    /\ upd \in Updates
    /\ preview \in [rev : Body, ver : Nat, body : Body]
    /\ loop \in Stretches
    /\ wipe \in [kind : {"", "regenerate", "clear"}, notes : Kept]
    /\ pens \in SUBSET Kept
    /\ ops \in SUBSET OpSet
    /\ made \in [edits : Nat, changes : Nat, updates : Nat, asks : Nat]
    /\ made.edits <= MaxEdits /\ made.changes <= MaxChanges

\* What was read is a draft, once it was read; and a listing that is being
\* saved, or an update's, is a listing.
Full ==
    /\ sync.at = "read" => sync.item \in Item
    /\ discard.at = "read" => discard.item \in Item
    /\ sync.at = "idle" => sync = Idle
    /\ loop # Free => loop.item \in Item \/ loop.by = "automation"
    /\ loop.at \in {"save", "mark"} => loop.rev \in Bodies
    /\ loop.at = "free" <=> loop = Free
    /\ loop.by = "" <=> loop = Free
    /\ loop.by = "automation" => loop.at = "save"
    /\ loop.by \in {"label", "conflict"} <=> loop.at = "check"
    /\ upd.at = "idle" <=> upd = NoUpd
    /\ upd # NoUpd => upd.rev \in Bodies
    /\ upd.at \in {"general", "forms", "verify"} => upd.base \in Bodies

\* Who holds the listing's lock.
Holds ==
    /\ (lock = "save") <=> (upd.at \notin {"idle", "waits"})
    /\ sync # Idle => lock = "sync"
    /\ loop.by \in Checks => lock = "sync" /\ sync = Idle
    /\ lock = "sync" => sync # Idle \/ loop.by \in Checks
    /\ loop.by = "update" => upd.at = "verify"

SInd == Typed /\ Full /\ Holds

\* What the bounds give, and that no listing is one of the two marks for none.
LEMMA Numbers ==
    /\ MaxEdits \in Nat /\ MaxChanges \in Nat /\ Blank \in Nat
    /\ Blank = MaxEdits + MaxChanges + 1
    /\ Start \in Bodies /\ NoListing \in Bodies /\ None \notin Bodies /\ Gone \notin Bodies
    /\ None # Gone
    /\ \A e \in Nat : e <= MaxEdits => e \in 0 .. Blank
    /\ \A c \in Nat : c <= MaxChanges => MaxEdits + c \in 0 .. Blank
<1>1. "general" \in Parts
  BY DEF Parts
<1>2. MaxEdits \in Nat /\ MaxChanges \in Nat /\ Blank \in Nat /\ Blank = MaxEdits + MaxChanges + 1
  BY SyncBounds DEF Blank
<1>3. Start \in Bodies /\ NoListing \in Bodies
  BY <1>2 DEF Start, NoListing, Bodies
<1>4. None["general"] = Blank + 1 /\ Gone["general"] = Blank + 2
  BY <1>1 DEF None, Gone
<1>5. \A b \in Bodies : b["general"] \in 0 .. Blank
  BY <1>1 DEF Bodies
<1>. QED
  BY <1>2, <1>3, <1>4, <1>5

\* A part of a listing set anew.
LEMMA PartSet ==
    ASSUME NEW b \in Bodies, NEW P \in SUBSET Parts, NEW v \in 0 .. Blank
    PROVE  /\ [p \in Parts |-> IF p \in P THEN v ELSE b[p]] \in Bodies
           /\ \A p \in Parts : b[p] \in 0 .. Blank /\ [b EXCEPT ![p] = v] \in Bodies
BY DEF Bodies

\* What a merge and an update make of a listing is a listing.
LEMMA MergedBody ==
    ASSUME NEW a \in Bodies, NEW b \in Bodies
    PROVE  Merged(a, b) \in Bodies
BY DEF Merged, Bodies

\* What an update wants in the draft is a listing.
LEMMA DesiredBody ==
    ASSUME upd.rev \in Bodies, NEW b \in Bodies
    PROVE  Desired(b) \in Bodies
BY DEF Desired, Bodies

\* An op to write a part is one.
LEMMA WriteTyped ==
    ASSUME upd.rev \in Bodies, upd.no \in Nat, upd.shown \in Body, NEW p \in Parts, NEW v \in Nat,
           NEW b \in Bodies, upd.shown # None => upd.shown \in Bodies
    PROVE  Write(p, v, b) \in OpSet
<1>1. Desired(b)[p] \in 0 .. Blank /\ b[p] \in 0 .. Blank
  BY DesiredBody DEF Bodies
<1>2. upd.shown # None => upd.shown[p] \in 0 .. Blank
  BY DEF Bodies
<1>. QED
  BY <1>1, <1>2 DEF Write, OpSet

----------------------------------------------------------------------------
(* Every step keeps the types and the lock.                                *)

\* What was counted, and what the draft holds.
LEMMA Counted ==
    ASSUME Typed
    PROVE  /\ made.edits \in Nat /\ made.changes \in Nat /\ made.updates \in Nat /\ made.asks \in Nat
           /\ made.edits + 1 \in Nat /\ made.changes + 1 \in Nat /\ made.updates + 1 \in Nat
           /\ made.asks + 1 \in Nat
           /\ item.stamp \in Nat /\ item.ver \in Nat /\ item.body \in Bodies
           /\ item.stamp + 1 \in Nat /\ item.ver + 1 \in Nat
           /\ made.edits < MaxEdits =>
                made.edits + 1 \in 0 .. Blank /\ made.edits + 1 <= MaxEdits
           /\ made.changes < MaxChanges =>
                MaxEdits + (made.changes + 1) \in 0 .. Blank /\ made.changes + 1 <= MaxChanges
<1>1. made \in [edits : Nat, changes : Nat, updates : Nat, asks : Nat]
  BY DEF Typed
<1>2. item \in [stamp : Nat, ver : Nat, body : Bodies]
  BY DEF Typed, Item
<1>3. /\ made.edits \in Nat /\ made.changes \in Nat /\ made.updates \in Nat /\ made.asks \in Nat
      /\ item.stamp \in Nat /\ item.ver \in Nat /\ item.body \in Bodies
  BY <1>1, <1>2
<1>4. MaxEdits \in Nat /\ MaxChanges \in Nat /\ Blank = MaxEdits + MaxChanges + 1
  BY Numbers
<1>. QED
  BY <1>3, <1>4

\* Edits on both sides, and previews.
LEMMA EditStep ==
    ASSUME SInd, NEW P \in SUBSET Parts, Edit(P) \/ Automation(P) \/ VendooChanges(P)
    PROVE  SInd'
<1>. USE DEF SInd
<1>0. made.edits + 1 \in Nat /\ made.changes + 1 \in Nat /\ cur \in Bodies
  BY Counted DEF Typed
<1>1. CASE Edit(P)
  <2>1. made.edits + 1 \in 0 .. Blank /\ made.edits + 1 <= MaxEdits
    BY <1>1, Counted DEF Edit
  <2>2. cur' \in Bodies
    BY <1>0, <1>1, <2>1, PartSet DEF Edit
  <2>3. loop' \in Stretches /\ (loop = Free => loop' = Free) /\ (loop # Free => loop' # Free)
        /\ \A f \in {"at", "by", "item", "rev"} : loop'[f] = loop[f]
    BY <1>0, <1>1 DEF Edit, LoopFree, Typed, Stretches, Free, Full
  <2>4. /\ loop'.at = loop.at /\ loop'.by = loop.by /\ loop'.item = loop.item /\ loop'.rev = loop.rev
    BY <2>3
  <2>5. Typed'
    BY <1>0, <1>1, <2>1, <2>2, <2>3 DEF Edit, Typed, notes
  <2>6. Full' /\ Holds'
    BY <1>1, <2>3, <2>4 DEF Edit, Full, Holds, Checks, notes
  <2>. QED
    BY <2>5, <2>6
<1>2. CASE Automation(P)
  <2>1. made.edits + 1 \in 0 .. Blank /\ made.edits + 1 <= MaxEdits
    BY <1>2, Counted DEF Automation
  <2>2. [p \in Parts |-> IF p \in P THEN made.edits + 1 ELSE cur[p]] \in Bodies
    BY <1>0, <2>1, PartSet
  <2>3. /\ loop' \in Stretches /\ loop'.at = "save" /\ loop'.by = "automation" /\ loop'.rev \in Bodies
        /\ loop' # Free
    BY <1>2, <2>2 DEF Automation, Stretches, Free, Body
  <2>4. Typed'
    BY <1>0, <1>2, <2>1, <2>3 DEF Automation, Typed, notes
  <2>5. loop = Free
    BY <1>2 DEF Automation, LoopFree
  <2>. QED
    BY <1>2, <2>3, <2>4, <2>5 DEF Automation, Full, Holds, Checks, notes, Free
<1>3. CASE VendooChanges(P)
  <2>1. MaxEdits + (made.changes + 1) \in 0 .. Blank /\ made.changes + 1 <= MaxChanges
    BY <1>3, Counted DEF VendooChanges
  <2>a. [p \in Parts |-> IF p \in P THEN MaxEdits + (made.changes + 1) ELSE item.body[p]] \in Bodies
    BY <2>1, Counted, PartSet
  <2>2. item' \in Item
    BY <1>3, <2>a, Counted DEF VendooChanges, Item
  <2>3. made' \in [edits : Nat, changes : Nat, updates : Nat, asks : Nat]
        /\ made'.edits = made.edits /\ made'.changes = made.changes + 1
    BY <1>0, <1>3 DEF VendooChanges, Typed
  <2>4. Typed'
    BY <1>3, <2>1, <2>2, <2>3 DEF VendooChanges, Typed, notes
  <2>5. Full' /\ Holds'
    BY <1>3 DEF VendooChanges, Full, Holds, Checks, notes
  <2>. QED
    BY <2>4, <2>5
<1>. QED
  BY <1>1, <1>2, <1>3

\* No sync.
LEMMA IdleIsRead == Idle \in Read /\ Idle.at = "idle"
BY DEF Idle, Read

\* A sync asks, and is answered.
LEMMA SyncStep ==
    ASSUME SInd, StartSync \/ ChromeReads \/ SyncAnswered \/ SyncUnavailable
    PROVE  SInd'
<1>. USE DEF SInd
<1>1. CASE StartSync
  <2>1. sync' \in Read /\ sync'.at = "asking" /\ sync' # Idle
    BY <1>1 DEF StartSync, Read, Idle
  <2>. QED
    BY <1>1, <2>1 DEF StartSync, Typed, Full, Holds, notes, history, LoopFree, Free, Checks
<1>2. CASE ChromeReads
  <2>0. item \in Item
    BY DEF Typed
  <2>1. LET read == [at |-> "read", item |-> item]
        IN  read \in Read /\ read.at = "read" /\ read.item \in Item /\ read # Idle
    BY <2>0, IdleIsRead DEF Read
  <2>2. CASE sync.at = "asking" /\ sync' = [at |-> "read", item |-> item] /\ UNCHANGED discard
    <3>1. sync' \in Read /\ sync'.item \in Item /\ sync'.at = "read" /\ sync # Idle /\ sync' # Idle
      BY <2>1, <2>2, IdleIsRead
    <3>2. Typed'
      BY <1>2, <2>2, <3>1 DEF ChromeReads, Typed, notes, history
    <3>. QED
      BY <1>2, <2>2, <3>1, <3>2 DEF ChromeReads, Full, Holds, Checks, notes, history
  <2>3. CASE discard.at = "asking" /\ discard' = [at |-> "read", item |-> item] /\ UNCHANGED sync
    <3>1. discard' \in Read /\ discard'.item \in Item
      BY <2>1, <2>3
    <3>2. Typed'
      BY <1>2, <2>3, <3>1 DEF ChromeReads, Typed, notes, history
    <3>. QED
      BY <1>2, <2>3, <3>1, <3>2 DEF ChromeReads, Full, Holds, Checks, notes, history
  <2>. QED
    BY <1>2, <2>2, <2>3 DEF ChromeReads
<1>3. CASE SyncUnavailable
  <2>1. sync' = Idle /\ Idle \in Read /\ Idle.at = "idle"
    BY <1>3, IdleIsRead DEF SyncUnavailable
  <2>. QED
    BY <1>3, <2>1 DEF SyncUnavailable, Typed, Full, Holds, notes, history, LoopFree, Free, Checks
<1>4. CASE SyncAnswered
  <2>1. sync' = Idle /\ Idle \in Read /\ Idle.at = "idle" /\ sync.item \in Item /\ sync # Idle
        /\ loop = Free
    BY <1>4, IdleIsRead DEF SyncAnswered, Full, LoopFree
  <2>2. sync.item.stamp \in Nat /\ sync.item.body \in Body
    BY <2>1 DEF Item, Body
  <2>3. PICK at \in {"check", "merge"}, by \in Checks :
            /\ loop' = [Free EXCEPT !.at = at, !.by = by, !.item = sync.item]
            /\ by \in {"label", "conflict"} <=> at = "check"
    BY <1>4 DEF SyncAnswered, Puller, Checks
  <2>4. /\ loop' \in Stretches /\ loop'.at = at /\ loop'.by = by
        /\ loop'.item = sync.item /\ loop' # Free
    BY <2>1, <2>3 DEF Stretches, Free, Body, Checks
  <2>5. Typed'
    BY <1>4, <2>1, <2>4 DEF SyncAnswered, Typed, notes, history
  <2>6. Full'
    BY <1>4, <2>1, <2>3, <2>4 DEF SyncAnswered, Full, Checks
  <2>7. Holds'
    BY <1>4, <2>1, <2>3, <2>4 DEF SyncAnswered, Holds, Checks
  <2>. QED
    BY <2>5, <2>6, <2>7
<1>. QED
  BY <1>1, <1>2, <1>3, <1>4

\* The stretches a loop runs without an await: merge, save, mark.
LEMMA LoopStep ==
    ASSUME SInd, Loop
    PROVE  SInd'
<1>. USE DEF SInd
<1>0. Free \in Stretches /\ Free.at = "free" /\ Free.by = ""
  BY DEF Free, Stretches, Body
<1>1. CASE PullMerges
  <2>1. loop.item \in Item /\ loop.by # "automation" /\ loop # Free
    BY <1>0, <1>1 DEF PullMerges, Full
  <2>2. Merged(cur, loop.item.body) \in Bodies
    BY <2>1, MergedBody DEF Typed, Item
  <2>3. /\ loop' \in Stretches /\ loop'.at = "save" /\ loop'.by = loop.by
        /\ loop'.item = loop.item /\ loop'.rev \in Bodies
    BY <1>1, <2>2 DEF PullMerges, Typed, Stretches, Body
  <2>. QED
    BY <1>0, <1>1, <2>1, <2>3 DEF PullMerges, Typed, Full, Holds, Checks, notes, history
<1>2. CASE SavesOver
  <2>1. loop.rev \in Bodies /\ loop # Free
    BY <1>0, <1>2 DEF SavesOver, Full
  <2>2. CASE loop.by = "automation"
    BY <1>0, <1>2, <2>1, <2>2 DEF SavesOver, Typed, Full, Holds, Checks, notes
  <2>3. CASE loop.by # "automation"
    <3>1. /\ loop' \in Stretches /\ loop'.at = "mark" /\ loop'.by = loop.by
          /\ loop'.item = loop.item /\ loop'.rev = loop.rev
      BY <1>2, <2>3 DEF SavesOver, Typed, Stretches
    <3>. QED
      BY <1>0, <1>2, <2>1, <2>3, <3>1 DEF SavesOver, Typed, Full, Holds, Checks, notes
  <2>. QED
    BY <2>2, <2>3
<1>3. CASE PullEnds \/ SaveEnds
  <2>1. /\ loop.rev \in Bodies /\ loop.item \in Item /\ loop # Free
        /\ loop.by \in {"first", "sync", "discard", "update"}
    BY <1>0, <1>3 DEF PullEnds, SaveEnds, Typed, Full, Stretches
  <2>2. synced' \in Body /\ seen' \in Nat /\ print' \in Body /\ conflict' \in BOOLEAN
    BY <1>3, <2>1 DEF PullEnds, SaveEnds, MarkSynced, Item, Body
  <2>3. NoUpd \in Updates /\ NoUpd.at = "idle"
    BY DEF NoUpd, Updates, Body
  <2>4. CASE PullEnds
    BY <1>0, <2>1, <2>2, <2>4 DEF PullEnds, Typed, Full, Holds, Checks
  <2>5. CASE SaveEnds
    BY <1>0, <2>1, <2>2, <2>3, <2>5 DEF SaveEnds, Typed, Full, Holds, Checks
  <2>. QED
    BY <1>3, <2>4, <2>5
<1>4. CASE CheckEnds
  <2>1. loop.item \in Item /\ loop # Free /\ loop.by \in {"label", "conflict"}
    BY <1>0, <1>4 DEF CheckEnds, Full
  <2>2. synced' = synced /\ seen' \in Nat /\ print' \in Body /\ conflict' \in BOOLEAN
    BY <1>4, <2>1 DEF CheckEnds, ApplyLabel, ApplyConflict, Typed, Item, Body
  <2>. QED
    BY <1>0, <1>4, <2>1, <2>2 DEF CheckEnds, Typed, Full, Holds, Checks, history
<1>. QED
  BY <1>1, <1>2, <1>3, <1>4 DEF Loop

\* No update is typed.
LEMMA NoUpdTyped == NoUpd \in Updates /\ NoUpd.at = "idle" /\ NoUpd.shown = None
BY DEF NoUpd, Updates, Body

\* Counting a question bounds nothing but questions.
LEMMA AskCounts ==
    ASSUME Typed, Ask
    PROVE  /\ made' \in [edits : Nat, changes : Nat, updates : Nat, asks : Nat]
           /\ made'.edits <= MaxEdits /\ made'.changes <= MaxChanges
<1>1. /\ made \in [edits : Nat, changes : Nat, updates : Nat, asks : Nat]
      /\ made.edits <= MaxEdits /\ made.changes <= MaxChanges
  BY DEF Typed
<1>2. made.asks + 1 \in Nat
  BY Counted
<1>. QED
  BY <1>1, <1>2 DEF Ask

\* A discard begins and ends.
LEMMA DiscardStep ==
    ASSUME SInd, StartDiscard \/ DiscardEnds
    PROVE  SInd'
<1>. USE DEF SInd
<1>1. CASE StartDiscard
  <2>1. discard' \in Read /\ discard'.at = "asking"
    BY <1>1 DEF StartDiscard, Read, Idle
  <2>2. Typed'
    BY <1>1, <2>1, AskCounts DEF StartDiscard, Typed, notes
  <2>. QED
    BY <1>1, <2>1, <2>2 DEF StartDiscard, Full, Holds, Checks, notes
<1>2. CASE DiscardEnds
  <2>1. discard' = Idle /\ Idle \in Read /\ Idle.at = "idle" /\ loop = Free
    BY <1>2, IdleIsRead DEF DiscardEnds, LoopFree
  <2>2. CASE UNCHANGED loop
    BY <1>2, <2>1, <2>2 DEF DiscardEnds, Typed, Full, Holds, Checks, notes, history
  <2>3. CASE loop' # loop
    <3>1. discard.item \in Item
      BY <1>2, <2>3 DEF DiscardEnds, Full
    <3>a. loop' = [Free EXCEPT !.at = "merge", !.by = "discard", !.item = discard.item]
      BY <1>2, <2>3 DEF DiscardEnds
    <3>2. /\ loop' \in Stretches /\ loop'.at = "merge" /\ loop'.by = "discard"
          /\ loop'.item \in Item /\ loop' # Free
      BY <3>a, <3>1 DEF Stretches, Free, Body
    <3>3. Typed'
      BY <1>2, <2>1, <3>2 DEF DiscardEnds, Typed, notes, history
    <3>. QED
      BY <1>2, <2>1, <3>2, <3>3 DEF DiscardEnds, Full, Holds, Checks, notes, history, Free
  <2>. QED
    BY <2>2, <2>3
<1>. QED
  BY <1>1, <1>2

\* An update is asked for.
LEMMA BeginStep ==
    ASSUME SInd, NEW ver \in Nat, NEW shown \in Body, NEW prep \in BOOLEAN, Begin(ver, shown, prep),
           preview' \in [rev : Body, ver : Nat, body : Body]
    PROVE  SInd'
<1>. USE DEF SInd
<1>1. /\ made' \in [edits : Nat, changes : Nat, updates : Nat, asks : Nat]
      /\ made'.edits <= MaxEdits /\ made'.changes <= MaxChanges
      /\ made'.updates = made.updates + 1
  <2>1. /\ made \in [edits : Nat, changes : Nat, updates : Nat, asks : Nat]
        /\ made.edits <= MaxEdits /\ made.changes <= MaxChanges
    BY DEF Typed
  <2>. QED
    BY <2>1, Counted DEF Begin
<1>2. upd' \in Updates /\ upd'.at = "waits" /\ upd'.rev \in Bodies /\ upd' # NoUpd
  <2>1. cur \in Bodies /\ made'.updates \in Nat
    BY <1>1 DEF Typed
  <2>. QED
    BY <2>1, NoUpdTyped DEF Begin, Updates, Body
<1>3. Typed'
  BY <1>1, <1>2 DEF Begin, Typed, notes
<1>. QED
  BY <1>2, <1>3, NoUpdTyped DEF Begin, Full, Holds, Checks, notes

\* An update from taking the lock to its reads.
LEMMA SaveStep ==
    ASSUME SInd, Save
    PROVE  SInd'
<1>. USE DEF SInd
<1>1. CASE TakeLock
  <2>1. /\ upd' \in Updates /\ upd'.at = "reads" /\ upd'.rev = upd.rev /\ upd' # NoUpd /\ upd # NoUpd
    BY <1>1, NoUpdTyped DEF TakeLock, Typed, Updates
  <2>2. Typed'
    BY <1>1, <2>1 DEF TakeLock, Typed, notes, history
  <2>. QED
    BY <1>1, <2>1, <2>2 DEF TakeLock, Full, Holds, Checks, notes, history, LoopFree, Free
<1>2. CASE SaveReads
  <2>0. item.ver \in Nat /\ item.body \in Bodies /\ upd \in Updates /\ upd # NoUpd
    BY <1>2, Counted, NoUpdTyped DEF SaveReads, Typed
  <2>1. PICK first \in {"forms", "general"} :
            /\ upd' = [upd EXCEPT !.at = first, !.base = item.body]
            /\ ops' = ops \cup {Write(first, item.ver, item.body)}
    BY <1>2 DEF SaveReads
  <2>2. upd' \in Updates /\ upd'.at = first /\ upd'.rev = upd.rev /\ upd'.base = item.body /\ upd' # NoUpd
    BY <2>0, <2>1, NoUpdTyped DEF Updates, Body
  <2>3. Write(first, item.ver, item.body) \in OpSet
    <3>1. upd.rev \in Bodies /\ upd.no \in Nat /\ upd.shown \in Body
      BY <2>0 DEF Full, Updates
    <3>. QED
      BY <2>0, <3>1, WriteTyped DEF Body, Parts
  <2>4. Typed'
    BY <1>2, <2>1, <2>2, <2>3 DEF SaveReads, Typed, notes, history
  <2>. QED
    BY <1>2, <2>0, <2>2, <2>4 DEF SaveReads, Full, Holds, Checks, notes, history
<1>3. CASE SaveVerifies
  <2>1. upd.rev \in Bodies /\ item \in Item
    BY <1>3, NoUpdTyped DEF SaveVerifies, Full, Typed
  <2>2. /\ loop' \in Stretches /\ loop'.at \in {"save", "mark"} /\ loop'.by = "update"
        /\ loop'.item = item /\ loop'.rev = upd.rev /\ loop' # Free /\ loop = Free
    BY <1>3, <2>1 DEF SaveVerifies, Stretches, Free, Body, LoopFree
  <2>3. Typed'
    BY <1>3, <2>2 DEF SaveVerifies, Typed, notes, history
  <2>. QED
    BY <1>3, <2>1, <2>2, <2>3 DEF SaveVerifies, Full, Holds, Checks, notes, history
<1>4. CASE SaveFails
  <2>1. Typed'
    BY <1>4, NoUpdTyped DEF SaveFails, Typed, notes, history
  <2>. QED
    BY <1>4, <2>1, NoUpdTyped DEF SaveFails, Full, Holds, Checks, notes, history, LoopFree, Free
<1>. QED
  BY <1>1, <1>2, <1>3, <1>4 DEF Save

\* Chrome's writes, and the end of an update.
LEMMA WriteStep ==
    ASSUME SInd, NEW op \in ops, ChromeWrites(op) \/ WriteDropped(op)
    PROVE  SInd'
<1>. USE DEF SInd
<1>0. op \in OpSet /\ ops \in SUBSET OpSet /\ upd \in Updates
  BY DEF Typed
<1>1. CASE WriteDropped(op)
  <2>1. ops' \in SUBSET OpSet
    BY <1>0, <1>1 DEF WriteDropped
  <2>2. Typed'
    BY <1>1, <2>1 DEF WriteDropped, Typed, notes, history
  <2>. QED
    BY <1>1, <2>2 DEF WriteDropped, Full, Holds, Checks, notes, history
<1>2. CASE ChromeWrites(op)
  <2>1. item' \in Item
    <3>1. [item.body EXCEPT ![op.part] = op.value] \in Bodies
      BY <1>0, Counted DEF OpSet, Bodies
    <3>2. item.stamp + (IF op.part = "general" THEN 1 ELSE 0) \in Nat
      BY Counted
    <3>. QED
      BY <1>2, <3>1, <3>2, Counted DEF ChromeWrites, Written, Item
  <2>2. CASE UNCHANGED upd /\ ops' = ops \ {op}
    <3>1. Typed'
      BY <1>0, <1>2, <2>1, <2>2 DEF ChromeWrites, Written, Typed, notes
    <3>. QED
      BY <1>2, <2>2, <3>1 DEF ChromeWrites, Written, Full, Holds, Checks, notes
  <2>3. CASE upd.at = "general" /\ upd' = [upd EXCEPT !.at = "forms"]
             /\ ops' = (ops \ {op}) \cup {Write("forms", item'.ver, upd.base)}
    <3>1. upd # NoUpd /\ upd.rev \in Bodies /\ upd.base \in Bodies
      BY <2>3, NoUpdTyped DEF Full
    <3>2. /\ upd' \in Updates /\ upd'.at = "forms" /\ upd'.rev = upd.rev /\ upd'.base = upd.base
          /\ upd' # NoUpd
      BY <1>0, <2>3, NoUpdTyped DEF Updates
    <3>3. Write("forms", item'.ver, upd.base) \in OpSet
      BY <1>0, <2>1, <3>1, WriteTyped DEF Updates, Body, Item, Parts
    <3>4. Typed'
      BY <1>0, <1>2, <2>1, <2>3, <3>2, <3>3 DEF ChromeWrites, Written, Typed, notes
    <3>. QED
      BY <1>2, <2>3, <3>1, <3>2, <3>4 DEF ChromeWrites, Written, Full, Holds, Checks, notes
  <2>4. CASE upd.at = "forms" /\ upd' = [upd EXCEPT !.at = "verify"] /\ ops' = ops \ {op}
    <3>1. upd # NoUpd /\ upd.rev \in Bodies /\ upd.base \in Bodies
      BY <2>4, NoUpdTyped DEF Full
    <3>2. /\ upd' \in Updates /\ upd'.at = "verify" /\ upd'.rev = upd.rev /\ upd'.base = upd.base
          /\ upd' # NoUpd
      BY <1>0, <2>4, NoUpdTyped DEF Updates
    <3>3. Typed'
      BY <1>0, <1>2, <2>1, <2>4, <3>2 DEF ChromeWrites, Written, Typed, notes
    <3>. QED
      BY <1>2, <2>4, <3>1, <3>2, <3>3 DEF ChromeWrites, Written, Full, Holds, Checks, notes
  <2>. QED
    BY <1>2, <2>2, <2>3, <2>4 DEF ChromeWrites, Awaited
<1>. QED
  BY <1>1, <1>2

\* The marks in notes.
LEMMA KeptParts ==
    ASSUME NEW k \in Kept
    PROVE  k[1] \in Body \cup {Gone} /\ k[2] \in Nat /\ k[3] \in Body /\ k[4] \in BOOLEAN
BY DEF Kept

\* Notes that name a deleted revision are notes.
LEMMA DeletedKept ==
    ASSUME NEW k \in Kept
    PROVE  Deleted(k) \in Kept
BY KeptParts DEF Deleted, Kept, Body

\* A thread reads the notes, and writes them back.
LEMMA NotesStep ==
    ASSUME SInd, NotesRead \/ \E old \in pens : NotesRewritten(old)
    PROVE  SInd'
<1>. USE DEF SInd
<1>1. CASE NotesRead
  <2>1. notes \in Kept
    BY DEF Typed, notes, Kept
  <2>2. Typed'
    BY <1>1, <2>1, AskCounts DEF NotesRead, Typed, notes
  <2>. QED
    BY <1>1, <2>2 DEF NotesRead, Full, Holds, Checks
<1>2. ASSUME NEW old \in pens, NotesRewritten(old)
      PROVE  SInd'
  <2>1. old \in Kept /\ pens \ {old} \in SUBSET Kept
    BY DEF Typed
  <2>2. synced' \in Body \cup {Gone} /\ seen' \in Nat /\ print' \in Body /\ conflict' \in BOOLEAN
    BY <1>2, <2>1, KeptParts DEF NotesRewritten, Typed, notes
  <2>3. Typed'
    BY <1>2, <2>1, <2>2 DEF NotesRewritten, Typed
  <2>. QED
    BY <1>2, <2>3 DEF NotesRewritten, Full, Holds, Checks
<1>. QED
  BY <1>1, <1>2

\* A reset takes the notes, and wipes.
LEMMA ResetStep ==
    ASSUME SInd, NEW kind \in {"regenerate", "clear"}, ResetStarts(kind) \/ ResetWipes(kind)
    PROVE  SInd'
<1>. USE DEF SInd
<1>0. notes \in Kept /\ NoWipe.notes \in Kept
  BY DEF Typed, notes, Kept, NoWipe, Body
<1>1. CASE ResetStarts(kind)
  <2>1. wipe' \in [kind : {"", "regenerate", "clear"}, notes : Kept]
    BY <1>0, <1>1 DEF ResetStarts
  <2>2. Typed'
    BY <1>1, <2>1, NoUpdTyped, AskCounts DEF ResetStarts, Typed, notes
  <2>. QED
    BY <1>1, <2>2, NoUpdTyped DEF ResetStarts, Full, Holds, Checks, notes, LoopFree, Free
<1>2. CASE ResetWipes(kind)
  <2>1. PICK old \in Kept : Wiped(kind, old)
    BY <1>0, <1>2 DEF ResetWipes, Typed
  <2>2. synced' \in Body \cup {Gone} /\ seen' \in Nat /\ print' \in Body /\ conflict' \in BOOLEAN
    BY <1>0, <2>1, KeptParts, DeletedKept DEF Wiped
  <2>3. pens' \in SUBSET Kept
    BY <2>1, DeletedKept DEF Wiped, Typed
  <2>4. NoWipe \in [kind : {"", "regenerate", "clear"}, notes : Kept]
    BY <1>0 DEF NoWipe
  <2>5. /\ made' \in [edits : Nat, changes : Nat, updates : Nat, asks : Nat]
        /\ made'.edits <= MaxEdits /\ made'.changes <= MaxChanges
    BY <1>2, AskCounts DEF ResetWipes, Typed
  <2>6. Typed'
    BY <2>1, <2>2, <2>3, <2>4, <2>5, Numbers DEF Wiped, Typed
  <2>. QED
    BY <2>1, <2>6 DEF Wiped, Full, Holds, Checks
<1>. QED
  BY <1>1, <1>2

\* Studio starts anew: what it held in memory is gone.
LEMMA RestartStep ==
    ASSUME SInd, Restart
    PROVE  SInd'
<1>1. NoView \in [rev : Body, ver : Nat, body : Body]
  BY DEF NoView, Body
<1>2. Free \in Stretches /\ Free.at = "free" /\ Free.by = ""
  BY DEF Free, Stretches, Body
<1>3. NoWipe \in [kind : {"", "regenerate", "clear"}, notes : Kept]
  BY DEF NoWipe, Kept, Body
<1>4. Typed'
  BY <1>1, <1>2, <1>3, IdleIsRead, NoUpdTyped, AskCounts DEF SInd, Restart, Typed, notes
<1>. QED
  BY <1>2, <1>4, IdleIsRead, NoUpdTyped DEF SInd, Restart, Full, Holds, Checks, notes

\* Every step keeps the types, and keeps the lock with who has it.
LEMMA TypedStep ==
    ASSUME SInd, [Next]_vars
    PROVE  SInd'
<1>1. CASE PreviewSend
  <2>1. preview' \in [rev : Body, ver : Nat, body : Body]
    BY <1>1, Counted DEF PreviewSend, SInd, Typed, Body
  <2>2. Typed'
    BY <1>1, <2>1, AskCounts DEF PreviewSend, SInd, Typed, notes
  <2>. QED
    BY <1>1, <2>2 DEF PreviewSend, SInd, Full, Holds, Checks, notes
<1>2. ASSUME NEW prep \in BOOLEAN, SaveToVendoo(prep) \/ EnqueueReviewed(prep)
      PROVE  SInd'
  <2>1. preview \in [rev : Body, ver : Nat, body : Body]
    BY DEF SInd, Typed
  <2>2. NoView \in [rev : Body, ver : Nat, body : Body] /\ None \in Body
    BY DEF NoView, Body
  <2>3. CASE SaveToVendoo(prep)
    BY <2>1, <2>2, <2>3, BeginStep DEF SaveToVendoo
  <2>4. CASE EnqueueReviewed(prep)
    <3>1. preview.ver \in Nat /\ preview.body \in Body
      BY <2>1
    <3>. QED
      BY <2>2, <2>4, <3>1, BeginStep DEF EnqueueReviewed
  <2>. QED
    BY <1>2, <2>3, <2>4
<1>3. CASE UNCHANGED vars
  <2>1. Typed'
    BY <1>3 DEF vars, notes, history, SInd, Typed
  <2>. QED
    BY <1>3, <2>1 DEF vars, notes, history, SInd, Full, Holds, Checks
<1>. QED
  BY <1>1, <1>2, <1>3, EditStep, SyncStep, LoopStep, DiscardStep, SaveStep, WriteStep, ResetStep,
     RestartStep, NotesStep
     DEF Next, Seller, Chrome, SyncEnds

\* The invariant holds at first.
LEMMA TypedInit == Init => SInd
<1>1. SUFFICES ASSUME Init PROVE SInd
  OBVIOUS
<1>2. cur \in Bodies /\ synced \in Body \cup {Gone} /\ seen \in Nat /\ print \in Body
  <2>1. Start \in Bodies /\ Start \in Body /\ None \in Body
    BY Numbers DEF Body
  <2>2. CASE synced = cur /\ seen = 1 /\ print = Start
    BY <1>1, <2>1, <2>2 DEF Init
  <2>3. CASE synced = None /\ seen = 0 /\ print = None
    BY <1>1, <2>1, <2>3 DEF Init
  <2>. QED
    BY <1>1, <2>2, <2>3 DEF Init
<1>3. item \in Item
  BY <1>1, Numbers DEF Init, Item
<1>4. made \in [edits : Nat, changes : Nat, updates : Nat, asks : Nat]
      /\ made.edits <= MaxEdits /\ made.changes <= MaxChanges
  <2>1. made = [edits |-> 0, changes |-> 0, updates |-> 0, asks |-> 0]
    BY <1>1 DEF Init
  <2>. QED
    BY <2>1, Numbers
<1>5. Free \in Stretches /\ Free.at = "free" /\ Free.by = ""
  BY DEF Free, Stretches, Body
<1>6. /\ NoView \in [rev : Body, ver : Nat, body : Body]
      /\ NoWipe \in [kind : {"", "regenerate", "clear"}, notes : Kept]
  BY DEF NoView, NoWipe, Kept, Body
<1>7. Typed
  BY <1>1, <1>2, <1>3, <1>4, <1>5, <1>6, IdleIsRead, NoUpdTyped DEF Init, Typed
<1>8. Full /\ Holds
  BY <1>1, <1>5, IdleIsRead, NoUpdTyped DEF Init, Full, Holds, Checks
<1>. QED
  BY <1>7, <1>8 DEF SInd

\* Types and locks, in every state.
LEMMA SInvariant == SSpec => []SInd
<1>1. SInd /\ [Next]_vars => SInd'
  BY TypedStep
<1>. QED
  BY <1>1, TypedInit, PTL DEF SSpec

\* Whoever works on a listing holds its lock: a sync and an update never work
\* on it together.
THEOREM OneAtATime == SSpec => []SyncTypeOK
<1>1. SInd => SyncTypeOK
  <2>1. SInd => \A old \in pens : old[1] \in Body \cup {Gone} /\ old[2] \in Nat
    BY KeptParts DEF SInd, Typed
  <2>. QED
    BY <2>1 DEF SInd, Typed, Full, Holds, Checks, SyncTypeOK, Read, Body
<1>. QED
  BY <1>1, SInvariant, PTL

----------------------------------------------------------------------------
(* What an update may write over.                                          *)

\* Whoever knows the draft's version knows what is in it: a preview, an update
\* of what the preview showed, and a write that is still under way; and the
\* second write of an update follows only on its first.
Versions ==
    /\ item.ver >= 1
    /\ preview # NoView =>
        /\ preview.ver \in 1 .. item.ver
        /\ preview.ver = item.ver => preview.body = item.body
    /\ upd.shown # None =>
        /\ upd.ver \in 1 .. item.ver
        /\ upd.ver = item.ver => upd.shown = item.body
    /\ \A op \in ops :
        /\ op.ver <= item.ver /\ op.no <= made.updates
        /\ op.ver = item.ver => op.base = item.body[op.part]
    /\ upd.no <= made.updates
    /\ upd.at = "general" =>
        \A op \in ops : op.no = upd.no /\ op.ver = item.ver =>
            upd.base = item.body /\ (upd.shown = None \/ upd.shown = item.body)

\* A newer version: nobody knows it.
LEMMA NewVersion ==
    ASSUME SInd, Versions, item'.ver = item.ver + 1, made'.updates = made.updates,
           UNCHANGED <<preview, upd>>, ops' \subseteq ops
    PROVE  Versions'
<1>1. /\ item.ver \in Nat /\ made.updates \in Nat
      /\ \A op \in ops : op.ver \in Nat /\ op.no \in Nat
  BY Counted DEF SInd, Typed, OpSet
<1>2. /\ item'.ver >= 1
      /\ preview # NoView => preview.ver \in 1 .. item'.ver /\ preview.ver # item'.ver
      /\ upd.shown # None => upd.ver \in 1 .. item'.ver /\ upd.ver # item'.ver
      /\ \A op \in ops : op.ver <= item'.ver /\ op.ver # item'.ver
  BY <1>1 DEF Versions
<1>. QED
  BY <1>2 DEF Versions

\* The same version, and nothing new about it.
LEMMA SameVersion ==
    ASSUME Versions, UNCHANGED item, made'.updates = made.updates, ops' \subseteq ops,
           preview' \in {preview, NoView},
           \/ UNCHANGED upd \/ upd' = NoUpd
           \/ /\ upd'.at # "general" /\ upd'.no = upd.no
              /\ upd'.shown = upd.shown /\ upd'.ver = upd.ver,
           made.updates \in Nat
    PROVE  Versions'
<1>1. NoUpd.shown = None /\ NoUpd.at = "idle" /\ NoUpd.no = 0
  BY DEF NoUpd
<1>2. CASE UNCHANGED upd
  BY <1>2 DEF Versions
<1>3. CASE upd' = NoUpd
  BY <1>1, <1>3 DEF Versions
<1>4. CASE /\ upd'.at # "general" /\ upd'.no = upd.no
           /\ upd'.shown = upd.shown /\ upd'.ver = upd.ver
  BY <1>4 DEF Versions
<1>. QED
  BY <1>2, <1>3, <1>4

\* Every step keeps that who knows the draft's version knows its content.
LEMMA VersionsStep ==
    ASSUME SInd, Versions, [Next]_vars
    PROVE  Versions'
<1>0. /\ item.ver \in Nat /\ made.updates \in Nat /\ made.updates + 1 \in Nat
      /\ \A op \in ops : op \in OpSet /\ op.ver \in Nat /\ op.no \in Nat
      /\ upd.no \in Nat /\ preview.ver \in Nat /\ upd.ver \in Nat
  BY Counted DEF SInd, Typed, OpSet, Updates
<1>1. ASSUME NEW P \in SUBSET Parts, VendooChanges(P)
      PROVE  Versions'
  <2>1. item'.ver = item.ver + 1 /\ made'.updates = made.updates
    BY <1>1 DEF VendooChanges, SInd, Typed
  <2>. QED
    BY <1>1, <2>1, NewVersion DEF VendooChanges
<1>2. CASE PreviewSend
  <2>1. preview' = [rev |-> cur, ver |-> item.ver, body |-> item.body]
        /\ made'.updates = made.updates /\ UNCHANGED <<item, upd, ops>>
    BY <1>2 DEF PreviewSend, Ask, SInd, Typed
  <2>2. preview'.ver \in 1 .. item'.ver /\ preview'.body = item'.body
    BY <1>0, <2>1 DEF Versions
  <2>. QED
    BY <2>1, <2>2 DEF Versions
<1>3. ASSUME NEW prep \in BOOLEAN, SaveToVendoo(prep) \/ EnqueueReviewed(prep)
      PROVE  Versions'
  <2>1. /\ UNCHANGED <<item, ops>> /\ made'.updates = made.updates + 1
        /\ upd'.no = made'.updates /\ upd'.at = "waits"
        /\ preview' \in {preview, NoView}
        /\ \/ upd'.shown = None
           \/ preview # NoView /\ upd'.ver = preview.ver /\ upd'.shown = preview.body
    <3>1. made' = [made EXCEPT !.updates = made.updates + 1]
          /\ made \in [edits : Nat, changes : Nat, updates : Nat, asks : Nat]
      BY <1>3 DEF SaveToVendoo, EnqueueReviewed, Begin, SInd, Typed
    <3>2. made'.updates = made.updates + 1
      BY <3>1
    <3>. QED
      BY <1>3, <3>2 DEF SaveToVendoo, EnqueueReviewed, Begin
  <2>2. \A op \in ops : op.no <= made'.updates
    BY <1>0, <2>1 DEF Versions
  <2>. QED
    BY <1>0, <2>1, <2>2 DEF Versions
<1>4. CASE SaveReads
  <2>0. upd \in Updates /\ item.body \in Bodies
    BY Counted DEF SInd, Typed
  <2>1. PICK first \in {"forms", "general"} :
            /\ upd' = [upd EXCEPT !.at = first, !.base = item.body]
            /\ ops' = ops \cup {Write(first, item.ver, item.body)}
    BY <1>4 DEF SaveReads
  <2>2. /\ UNCHANGED <<item, made, preview>>
        /\ upd'.at = first /\ upd'.base = item.body /\ upd'.no = upd.no
        /\ upd'.shown = upd.shown /\ upd'.ver = upd.ver
    BY <1>4, <2>0, <2>1 DEF SaveReads, history, Updates
  <2>3. upd.shown # None => upd.shown = item.body
    BY <1>0, <1>4 DEF SaveReads, Approved, Versions
  <2>4. LET w == Write(first, item.ver, item.body)
        IN  w.ver = item.ver /\ w.no = upd.no /\ w.part = first /\ w.base = item.body[w.part]
    BY <2>3 DEF Write
  <2>. QED
    BY <1>0, <2>1, <2>2, <2>3, <2>4 DEF Versions
<1>5. ASSUME NEW op \in ops, ChromeWrites(op)
      PROVE  Versions'
  <2>1. /\ item'.ver = item.ver + 1 /\ UNCHANGED <<preview, made>> /\ op.ver = item.ver
        /\ item'.body = [item.body EXCEPT ![op.part] = op.value]
    BY <1>5 DEF ChromeWrites, Written, StillThatVersion
  <2>2. CASE UNCHANGED upd /\ ops' = ops \ {op}
    BY <2>1, <2>2, NewVersion
  <2>3. CASE /\ Awaited(op) /\ op.part = "general"
             /\ upd' = [upd EXCEPT !.at = "forms"]
             /\ ops' = (ops \ {op}) \cup {Write("forms", item'.ver, upd.base)}
    <3>1. /\ upd'.at = "forms" /\ upd'.no = upd.no /\ upd'.shown = upd.shown /\ upd'.ver = upd.ver
      BY <2>3 DEF SInd, Typed, Updates
    <3>2. upd.base = item.body /\ (upd.shown = None \/ upd.shown = item.body)
      BY <2>1, <2>3 DEF Awaited, Versions
    <3>3. item'.body["forms"] = item.body["forms"]
      BY <2>1, <2>3, Counted DEF Bodies, Parts
    <3>4. LET w == Write("forms", item'.ver, upd.base)
          IN  w.ver = item'.ver /\ w.no = upd.no /\ w.part = "forms" /\ w.base = item'.body["forms"]
      BY <3>2, <3>3 DEF Write
    <3>5. /\ item'.ver >= 1 /\ item'.ver \in Nat
          /\ preview # NoView => preview.ver \in 1 .. item'.ver /\ preview.ver # item'.ver
          /\ upd.shown # None => upd.ver \in 1 .. item'.ver /\ upd.ver # item'.ver
          /\ \A o \in ops : o.ver <= item'.ver /\ o.ver # item'.ver
      BY <1>0, <2>1 DEF Versions
    <3>. QED
      BY <2>1, <2>3, <3>1, <3>4, <3>5 DEF Versions
  <2>4. CASE upd' = [upd EXCEPT !.at = "verify"] /\ ops' = ops \ {op}
    <3>1. upd'.at = "verify" /\ upd'.no = upd.no /\ upd'.shown = upd.shown /\ upd'.ver = upd.ver
      BY <2>4 DEF SInd, Typed, Updates
    <3>2. /\ item'.ver >= 1
          /\ preview # NoView => preview.ver \in 1 .. item'.ver /\ preview.ver # item'.ver
          /\ upd.shown # None => upd.ver \in 1 .. item'.ver /\ upd.ver # item'.ver
          /\ \A o \in ops : o.ver <= item'.ver /\ o.ver # item'.ver
      BY <1>0, <2>1 DEF Versions
    <3>. QED
      BY <2>1, <2>4, <3>1, <3>2 DEF Versions
  <2>. QED
    BY <1>5, <2>2, <2>3, <2>4 DEF ChromeWrites
<1>6. ASSUME UNCHANGED item, made'.updates = made.updates, ops' \subseteq ops,
             preview' \in {preview, NoView},
             \/ UNCHANGED upd \/ upd' = NoUpd
             \/ /\ upd'.at # "general" /\ upd'.no = upd.no
                /\ upd'.shown = upd.shown /\ upd'.ver = upd.ver
      PROVE  Versions'
  BY <1>0, <1>6, SameVersion
<1>7. made \in [edits : Nat, changes : Nat, updates : Nat, asks : Nat] /\ upd \in Updates
  BY DEF SInd, Typed
<1>8. CASE TakeLock
  <2>1. /\ upd'.at # "general" /\ upd'.no = upd.no /\ upd'.shown = upd.shown /\ upd'.ver = upd.ver
    BY <1>7, <1>8 DEF TakeLock, Updates
  <2>. QED
    BY <1>6, <1>8, <2>1 DEF TakeLock, history
<1>9. CASE SaveVerifies \/ SaveFails
  BY <1>6, <1>9 DEF SaveVerifies, SaveFails, history
<1>10. CASE Loop
  BY <1>6, <1>10 DEF Loop, PullMerges, SavesOver, PullEnds, SaveEnds, CheckEnds, history
<1>11. ASSUME NEW op \in ops, WriteDropped(op)
       PROVE  Versions'
  BY <1>6, <1>11 DEF WriteDropped, history
<1>12. ASSUME NEW P \in SUBSET Parts, Edit(P) \/ Automation(P)
       PROVE  Versions'
  <2>1. made'.updates = made.updates
    BY <1>7, <1>12 DEF Edit, Automation
  <2>. QED
    BY <1>6, <1>12, <2>1 DEF Edit, Automation
<1>13. CASE StartSync \/ ChromeReads \/ SyncEnds \/ DiscardEnds \/ UNCHANGED vars
  BY <1>6, <1>13
     DEF StartSync, ChromeReads, SyncEnds, SyncAnswered, SyncUnavailable, DiscardEnds, history, vars
<1>15. CASE NotesRead \/ \E old \in pens : NotesRewritten(old)
  <2>1. made'.updates = made.updates
    BY <1>7, <1>15 DEF NotesRead, NotesRewritten, Ask
  <2>. QED
    BY <1>6, <1>15, <2>1 DEF NotesRead, NotesRewritten
<1>14. CASE StartDiscard \/ Restart \/ \E kind \in {"regenerate", "clear"} : ResetStarts(kind) \/ ResetWipes(kind)
  <2>1. made'.updates = made.updates
    BY <1>7, <1>14 DEF StartDiscard, Restart, ResetStarts, ResetWipes, Ask
  <2>. QED
    BY <1>6, <1>14, <2>1 DEF StartDiscard, Restart, ResetStarts, ResetWipes, Wiped
<1>. QED
  BY <1>1, <1>2, <1>3, <1>4, <1>5, <1>8, <1>9, <1>10, <1>11, <1>12, <1>13, <1>14, <1>15
     DEF Next, Seller, Chrome, Save

\* At first nobody knows a version.
LEMMA VersionsInit == Init => Versions
<1>1. NoUpd.shown = None /\ NoUpd.at = "idle" /\ NoUpd.no = 0
  BY DEF NoUpd
<1>2. SUFFICES ASSUME Init PROVE Versions
  OBVIOUS
<1>3. /\ item = [stamp |-> 1, ver |-> 1, body |-> Start]
      /\ made = [edits |-> 0, changes |-> 0, updates |-> 0, asks |-> 0]
      /\ preview = NoView /\ upd = NoUpd /\ ops = {}
  BY <1>2 DEF Init
<1>4. item.ver = 1 /\ made.updates = 0
  BY <1>3
<1>. QED
  BY <1>1, <1>3, <1>4 DEF Versions

\* Studio never writes over an edit made in Vendoo that it, or the seller when
\* she reviewed the send, did not see.
THEOREM NothingUnread == SSpec => OnlyWhatWasRead
<1>1. Init => Versions
  BY VersionsInit
<1>2. SInd /\ Versions /\ [Next]_vars => Versions'
  BY VersionsStep
<1>3. Versions /\ [Next]_vars =>
        [\A op \in ops \ ops' : item' # item => item.body[op.part] = op.base]_vars
  <2>1. ASSUME Versions, Next, NEW op \in ops \ ops', item' # item
        PROVE  item.body[op.part] = op.base
    <3>0. /\ Seller \/ Loop \/ SyncEnds \/ DiscardEnds \/ Save \/ Restart => ops \subseteq ops'
          /\ ChromeReads => ops' = ops
          /\ \A o \in ops : WriteDropped(o) => item' = item
      <4>1. Seller => ops' = ops
        BY DEF Seller, Edit, NotesRead, NotesRewritten, Automation, VendooChanges, StartSync, StartDiscard, PreviewSend,
               SaveToVendoo, EnqueueReviewed, Begin, ResetStarts, ResetWipes, Wiped
      <4>2. Loop \/ SyncEnds \/ DiscardEnds \/ Restart => ops' = ops
        BY DEF Loop, PullMerges, SavesOver, PullEnds, SaveEnds, CheckEnds, SyncEnds, SyncAnswered,
               SyncUnavailable, DiscardEnds, Restart
      <4>3. Save => ops \subseteq ops'
        BY DEF Save, TakeLock, SaveReads, SaveVerifies, SaveFails
      <4>. QED
        BY <4>1, <4>2, <4>3 DEF ChromeReads, WriteDropped
    <3>1. PICK o \in ops : ChromeWrites(o)
      BY <2>1, <3>0 DEF Next, Chrome
    <3>2. o = op /\ op.ver = item.ver
      BY <2>1, <3>1 DEF ChromeWrites, Written, StillThatVersion
    <3>. QED
      BY <2>1, <3>2 DEF Versions
  <2>. QED
    BY <2>1
<1>. QED
  BY <1>1, <1>2, <1>3, SInvariant, PTL DEF SSpec, OnlyWhatWasRead

=============================================================================
