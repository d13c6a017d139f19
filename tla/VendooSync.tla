----------------------------- MODULE VendooSync -----------------------------
(* A listing kept in step with its Vendoo draft, while both sides are edited: *)
(* syncs (services/vendoo_watch.py), Update Vendoo and reviewed sends         *)
(* (routes/vendoo_api.py, services/send_review.py), Discard, Regenerate and   *)
(* Clear, and the seller's edits here and in Vendoo.                          *)
(*                                                                            *)
(* Syncs, updates and discards run on one asyncio loop; an edit is saved by a *)
(* thread (a plain route) with a compare-and-set, and can fall between two    *)
(* commits of the loop; so can the notes, which threads read whole and write  *)
(* back whole. A listing is abstracted to what each part of its form was last *)
(* set by: the general form, and the marketplaces' forms, which Studio writes *)
(* in two requests.                                                           *)
EXTENDS Naturals, FiniteSets

CONSTANTS
    MaxEdits,     \* bound: the seller's edits in Studio
    MaxChanges,   \* bound: the seller's edits in Vendoo, and listings there
    MaxUpdates,   \* bound: updates of the draft Studio starts
    MaxAsks       \* bound: discards, previews, resets, restarts, and notes written back

ASSUME SyncBounds ==
    MaxEdits \in Nat /\ MaxChanges \in Nat /\ MaxUpdates \in Nat /\ MaxAsks \in Nat

Parts  == {"general", "forms"}
Here   == 1 .. MaxEdits                             \* edits made in Studio
There  == MaxEdits + 1 .. MaxEdits + MaxChanges     \* edits made in Vendoo
Blank  == MaxEdits + MaxChanges + 1                 \* an empty field
None   == [p \in Parts |-> Blank + 1]               \* no listing at all
Gone   == [p \in Parts |-> Blank + 2]               \* a revision that was deleted
NoListing == [p \in Parts |-> Blank]                 \* after a reset
Bodies == [Parts -> 0 .. Blank]
Item   == [stamp : Nat, ver : Nat, body : Bodies]

VARIABLES
    cur,      \* the listing's current revision: what is in it
    synced,   \* SYNCED_REVISION: the revision Studio is level with
    seen,     \* SYNCED_AT: Vendoo's stamp when it was
    print,    \* CONTENT_FINGERPRINT: Vendoo's content when it was
    conflict, \* SYNC_CONFLICT
    item,     \* the draft in Vendoo
    lock,     \* who holds listing_lock
    sync,     \* a sync: what Chrome read for it
    discard,  \* a Discard: what Chrome read for it
    upd,      \* an Update Vendoo, or a reviewed send
    preview,  \* a send preview the seller is looking at
    loop,     \* a stretch of the loop cut by the edits of threads
    wipe,     \* the notes a reset read before it waited
    pens,     \* the notes that threads read, to write them back
    ops,      \* writes under way in the extension
    made,     \* how many edits, changes, updates and others there were
    sent,     \* history: Studio's edits that were in Vendoo
    known,    \* history: Vendoo's edits that were here, or that an update was level with
    slipped   \* history: Vendoo, or the marks, changed in a way that they do not show

notes == <<synced, seen, print, conflict>>
history == <<made, sent, known, slipped>>
vars == <<cur, notes, item, lock, sync, discard, upd, preview, loop, wipe, pens, ops, history>>

NoItem  == [stamp |-> 0, ver |-> 1, body |-> None]
Idle    == [at |-> "idle", item |-> NoItem]
NoUpd   == [at |-> "idle", no |-> 0, rev |-> None, ver |-> 0, base |-> None, shown |-> None, prep |-> FALSE]
NoView  == [rev |-> None, ver |-> 0, body |-> None]
Free    == [at |-> "free", by |-> "", item |-> NoItem, rev |-> None, race |-> {}]
NoWipe  == [kind |-> "", notes |-> <<None, 0, None, FALSE>>]

Start == [p \in Parts |-> 0]

Init ==
    /\ cur = Start
    /\ item = [stamp |-> 1, ver |-> 1, body |-> Start]
    /\ \/ synced = cur /\ seen = 1 /\ print = Start         \* level
       \/ synced = None /\ seen = 0 /\ print = None        \* stored otherwise than sent
    /\ conflict = FALSE
    /\ lock = "" /\ sync = Idle /\ discard = Idle /\ upd = NoUpd
    /\ preview = NoView /\ loop = Free /\ wipe = NoWipe /\ pens = {} /\ ops = {}
    /\ made = [edits |-> 0, changes |-> 0, updates |-> 0, asks |-> 0]
    /\ sent = {} /\ known = {} /\ slipped = FALSE

LoopFree == loop = Free

Ask == made.asks < MaxAsks /\ made' = [made EXCEPT !.asks = @ + 1]

----------------------------------------------------------------------------
(* Edits.                                                                   *)

\* save_listing_edit, and the other writers that name the revision they read:
\* what was saved meanwhile refuses them. What it has for the notes follows.
Edit(P) ==
    /\ made.edits < MaxEdits
    /\ LET e == made.edits + 1
       IN /\ cur' = [p \in Parts |-> IF p \in P THEN e ELSE cur[p]]
          /\ made' = [made EXCEPT !.edits = e]
          /\ loop' = IF LoopFree THEN loop ELSE [loop EXCEPT !.race = @ \cup {e}]
    /\ UNCHANGED <<notes, item, lock, sync, discard, upd, preview, wipe, pens, ops, sent, known, slipped>>

\* The end of that save, Item Details and a rename set a field of the notes: a
\* thread reads them ...
NotesRead ==
    /\ Ask
    /\ pens' = pens \cup {notes}
    /\ UNCHANGED <<cur, notes, item, lock, sync, discard, upd, preview, loop, wipe, ops, sent, known, slipped>>

\* ... and writes back all of them, whatever was marked meanwhile; the loop,
\* which does the same, may write over that.
NotesRewritten(old) ==
    /\ old \in pens
    /\ pens' = pens \ {old}
    /\ \/ UNCHANGED notes
       \/ synced' = old[1] /\ seen' = old[2] /\ print' = old[3] /\ conflict' = old[4]
    /\ slipped' = (slipped \/ (loop.by = "label" /\ notes' # notes))
    /\ UNCHANGED <<cur, item, lock, sync, discard, upd, preview, loop, wipe, ops, made, sent, known>>

\* The seller edits the draft in Vendoo, or a listing there restamps it.
VendooChanges(P) ==
    /\ made.changes < MaxChanges
    /\ LET c == made.changes + 1
       IN /\ item' = [stamp |-> item.stamp + 1, ver |-> item.ver + 1,
                      body |-> [p \in Parts |-> IF p \in P THEN MaxEdits + c ELSE item.body[p]]]
          /\ made' = [made EXCEPT !.changes = c]
    /\ UNCHANGED <<cur, notes, lock, sync, discard, upd, preview, loop, wipe, pens, ops, sent, known, slipped>>

----------------------------------------------------------------------------
(* Syncs.                                                                   *)

\* sync_conversation: another check, or an update, answers for this one too.
StartSync ==
    /\ LoopFree /\ lock = "" /\ sync = Idle /\ upd.at # "waits"
    /\ lock' = "sync"
    /\ sync' = [Idle EXCEPT !.at = "asking"]
    /\ UNCHANGED <<cur, notes, item, discard, upd, preview, loop, wipe, pens, ops, history>>

\* Chrome reads the draft; its reply is handled later.
ChromeReads ==
    /\ \/ sync.at = "asking" /\ sync' = [at |-> "read", item |-> item] /\ UNCHANGED discard
       \/ discard.at = "asking" /\ discard' = [at |-> "read", item |-> item] /\ UNCHANGED sync
    /\ UNCHANGED <<cur, notes, item, lock, upd, preview, loop, wipe, pens, ops, history>>

UnavailableLocked ==
    /\ LoopFree /\ sync # Idle
    /\ sync' = Idle
    /\ UNCHANGED <<cur, notes, item, lock, discard, upd, preview, loop, wipe, pens, ops, history>>

\* Vendoo does not answer in time.
SyncUnavailable ==
    /\ LoopFree /\ sync # Idle
    /\ sync' = Idle /\ lock' = ""
    /\ UNCHANGED <<cur, notes, item, discard, upd, preview, loop, wipe, pens, ops, history>>

Moved(i) == seen # 0 /\ i.stamp > seen

VendooContentUnchanged(i) == print = i.body

ConflictsUnpushed == conflict /\ cur # synced
StudioHasUnpushedEdits == cur # NoListing /\ synced # None /\ cur # synced

\* sync_state
State(i) ==
    IF seen = 0 THEN "pull"
    ELSE IF Moved(i) /\ VendooContentUnchanged(i) THEN "label"
    ELSE IF Moved(i) /\ StudioHasUnpushedEdits THEN "conflict"
    ELSE IF Moved(i) THEN "pull" ELSE "none"

\* apply_label_sync: the content has not moved, so Studio is as far ahead as it was.
LabelLevel(i) == seen' = i.stamp /\ print' = i.body /\ conflict' = FALSE /\ synced' = cur
ApplyLabel(i) ==
    /\ seen' = i.stamp /\ print' = i.body /\ conflict' = FALSE
    /\ UNCHANGED synced

ConflictStamped(i) == conflict' = TRUE /\ seen' = i.stamp /\ print' = i.body /\ UNCHANGED synced
ApplyConflict(i) == conflict' = TRUE /\ UNCHANGED <<synced, seen, print>>

\* Without a revision it is level with, Studio knows of no edit of its own.
Puller == IF seen = 0 \/ synced = None THEN "first" ELSE "sync"

\* The reply is in: label, conflict or pull ...
SyncAnswered ==
    /\ LoopFree /\ sync.at = "read"
    /\ sync' = Idle
    /\ LET i == sync.item
       IN \/ /\ State(i) \in {"label", "none"}
             /\ loop' = [Free EXCEPT !.at = "check", !.by = "label", !.item = i]
          \/ /\ State(i) = "conflict"
             /\ loop' = [Free EXCEPT !.at = "check", !.by = "conflict", !.item = i]
          \/ /\ State(i) = "pull"
             /\ loop' = [Free EXCEPT !.at = "merge", !.by = Puller, !.item = i]
    /\ UNCHANGED <<cur, notes, item, lock, discard, upd, preview, wipe, pens, ops, history>>

\* ... and is marked so in the notes as they are by then.
CheckEnds ==
    /\ loop.at = "check"
    /\ \/ loop.by = "label" /\ ApplyLabel(loop.item)
       \/ loop.by = "conflict" /\ ApplyConflict(loop.item)
    /\ loop' = Free /\ lock' = ""
    /\ UNCHANGED <<cur, item, sync, discard, upd, preview, wipe, pens, ops, history>>

----------------------------------------------------------------------------
(* Pulls, by a sync or by Discard.                                          *)

\* merge_pulled_listing: Vendoo's value wins where it has one.
Merged(body, pulled) == [p \in Parts |-> IF pulled[p] = Blank THEN body[p] ELSE pulled[p]]

\* apply_pull reads the listing again ...
PullMerges ==
    /\ loop.at = "merge"
    /\ loop' = [loop EXCEPT !.at = "save", !.rev = Merged(cur, loop.item.body)]
    /\ UNCHANGED <<cur, notes, item, lock, sync, discard, upd, preview, wipe, pens, ops, history>>

\* ... and saves on top of whatever is current by then: save_revision without
\* the revision it expects. So do an automation, which stops there, and
\* save_prepared_revision.
SavesOver ==
    /\ loop.at = "save"
    /\ cur' = loop.rev
    /\ known' = known \cup ({loop.rev[p] : p \in Parts} \cap There)
    /\ loop' = IF loop.by = "automation" THEN Free ELSE [loop EXCEPT !.at = "mark"]
    /\ UNCHANGED <<notes, item, lock, sync, discard, upd, preview, wipe, pens, ops, made, sent, slipped>>

\* apply_local: an automation changes the listing it read.
Automation(P) ==
    /\ LoopFree /\ cur # NoListing /\ made.edits < MaxEdits
    /\ LET e == made.edits + 1
       IN /\ loop' = [Free EXCEPT !.at = "save", !.by = "automation",
                        !.rev = [p \in Parts |-> IF p \in P THEN e ELSE cur[p]]]
          /\ made' = [made EXCEPT !.edits = e]
    /\ UNCHANGED <<cur, notes, item, lock, sync, discard, upd, preview, wipe, pens, ops, sent, known, slipped>>

\* mark_synced
MarkSynced(rev, i) ==
    /\ synced' = rev /\ seen' = i.stamp /\ print' = i.body /\ conflict' = FALSE

PullEnds ==
    /\ loop.at = "mark" /\ loop.by # "update"
    /\ MarkSynced(loop.rev, loop.item)
    /\ lock' = IF loop.by = "discard" THEN lock ELSE ""
    /\ slipped' = (slipped \/ (loop.by = "discard" /\ lock # ""))
    /\ loop' = Free
    /\ UNCHANGED <<cur, item, sync, discard, upd, preview, wipe, pens, ops, made, sent, known>>

\* pull_from_vendoo: the seller takes Vendoo's copy. It does not wait for the lock.
StartDiscard ==
    /\ LoopFree /\ discard = Idle /\ Ask
    /\ discard' = [Idle EXCEPT !.at = "asking"]
    /\ UNCHANGED <<cur, notes, item, lock, sync, upd, preview, loop, wipe, pens, ops, sent, known, slipped>>

DiscardEnds ==
    /\ LoopFree /\ discard # Idle
    /\ discard' = Idle
    /\ \/ UNCHANGED loop
       \/ /\ discard.at = "read"
          /\ loop' = [Free EXCEPT !.at = "merge", !.by = "discard", !.item = discard.item]
    /\ UNCHANGED <<cur, notes, item, lock, sync, upd, preview, wipe, pens, ops, history>>

----------------------------------------------------------------------------
(* Update Vendoo.                                                           *)

\* preview_send: what an update would overwrite, and of which version.
PreviewSend ==
    /\ LoopFree /\ cur # NoListing /\ made.updates < MaxUpdates /\ Ask
    /\ preview' = [rev |-> cur, ver |-> item.ver, body |-> item.body]
    /\ UNCHANGED <<cur, notes, item, lock, sync, discard, upd, loop, wipe, pens, ops, sent, known, slipped>>

\* prep: its empty fields were filled, and there is a prepared listing to save.
Begin(ver, shown, prep) ==
    /\ LoopFree /\ cur # NoListing /\ upd = NoUpd /\ wipe = NoWipe
    /\ made.updates < MaxUpdates
    /\ made' = [made EXCEPT !.updates = @ + 1]
    /\ upd' = [at |-> "waits", no |-> made'.updates, rev |-> cur, ver |-> ver,
               base |-> None, shown |-> shown, prep |-> prep]
    /\ UNCHANGED <<cur, notes, item, lock, sync, discard, loop, wipe, pens, ops, sent, known, slipped>>

\* save_to_vendoo
SaveToVendoo(prep) == Begin(0, None, prep) /\ UNCHANGED preview

\* enqueue_send: only of the listing the seller reviewed.
EnqueueReviewed(prep) ==
    /\ preview # NoView /\ preview.rev = cur
    /\ Begin(preview.ver, preview.body, prep)
    /\ preview' = NoView

TakeHeldLock ==
    /\ LoopFree /\ upd.at = "waits"
    /\ lock' = "save"
    /\ upd' = [upd EXCEPT !.at = "reads"]
    /\ UNCHANGED <<cur, notes, item, sync, discard, preview, loop, wipe, pens, ops, history>>

\* _save_claimed_draft waits out a sync.
TakeLock ==
    /\ LoopFree /\ upd.at = "waits" /\ lock = ""
    /\ lock' = "save"
    /\ upd' = [upd EXCEPT !.at = "reads"]
    /\ UNCHANGED <<cur, notes, item, sync, discard, preview, loop, wipe, pens, ops, history>>

\* What Vendoo is to hold: empty values are not written.
Desired(base) == [p \in Parts |-> IF upd.rev[p] = Blank THEN base[p] ELSE upd.rev[p]]

\* A request to write one part, if the draft still is the version it was.
Write(p, ver, base) ==
    [no |-> upd.no, part |-> p, ver |-> ver, value |-> Desired(base)[p],
     base |-> IF upd.shown = None THEN base[p] ELSE upd.shown[p]]

Approved(i) == upd.ver \in {0, i.ver}

\* The draft is read, and refused when it is not the one that was reviewed. The
\* general form is written only with a change somewhere, which it stamps; the
\* marketplaces' forms always are.
SaveReads ==
    /\ LoopFree /\ upd.at = "reads" /\ Approved(item)
    /\ LET first == IF Desired(item.body) = item.body THEN "forms" ELSE "general"
       IN /\ upd' = [upd EXCEPT !.at = first, !.base = item.body]
          /\ ops' = ops \cup {Write(first, item.ver, item.body)}
    /\ UNCHANGED <<cur, notes, item, lock, sync, discard, preview, loop, wipe, pens, history>>

AnyVersion(op) == TRUE
StillThatVersion(op) == op.ver = item.ver

Awaited(op) == upd.at = op.part /\ upd.no = op.no

\* The extension carries a write out, whoever still waits for it.
Written(op) ==
    /\ StillThatVersion(op)
    /\ item' = [stamp |-> item.stamp + (IF op.part = "general" THEN 1 ELSE 0), ver |-> item.ver + 1,
                body |-> [item.body EXCEPT ![op.part] = op.value]]
    /\ sent' = sent \cup ({op.value} \cap Here)
    /\ slipped' = (slipped \/ ~Awaited(op) \/ discard # Idle)
    /\ UNCHANGED <<cur, notes, lock, sync, discard, preview, loop, wipe, pens, made, known>>

ChromeWrites(op) ==
    /\ op \in ops /\ LoopFree /\ Written(op)
    /\ \/ /\ Awaited(op) /\ op.part = "general"
          /\ upd' = [upd EXCEPT !.at = "forms"]
          /\ ops' = (ops \ {op}) \cup {Write("forms", item'.ver, upd.base)}
       \/ /\ Awaited(op) /\ op.part = "forms"
          /\ upd' = [upd EXCEPT !.at = "verify"]
          /\ ops' = ops \ {op}
       \/ ~Awaited(op) /\ UNCHANGED upd /\ ops' = ops \ {op}

\* Vendoo refuses it, or it is lost with the page; its update gives up.
WriteDropped(op) ==
    /\ op \in ops
    /\ ops' = ops \ {op}
    /\ UNCHANGED <<cur, notes, item, lock, sync, discard, upd, preview, loop, wipe, pens, history>>

\* diff_updates: the parts it meant to change are read back.
Retained(i) == \A p \in Parts : Desired(upd.base)[p] # upd.base[p] => i.body[p] = Desired(upd.base)[p]

\* Read back, the preparation is saved unless there is a newer edit, and the
\* listing is marked level with what was read.
SaveVerifies ==
    /\ LoopFree /\ upd.at = "verify" /\ Retained(item)
    /\ loop' = [Free EXCEPT !.at = IF upd.prep /\ cur = upd.rev THEN "save" ELSE "mark",
                            !.by = "update", !.item = item, !.rev = upd.rev]
    /\ UNCHANGED <<cur, notes, item, lock, sync, discard, upd, preview, wipe, pens, ops, history>>

SaveEnds ==
    /\ loop.at = "mark" /\ loop.by = "update"
    /\ MarkSynced(loop.rev, loop.item)
    /\ slipped' = (slipped \/ loop.item.body # Desired(upd.base))
    /\ known' = known \cup ({loop.item.body[p] : p \in Parts} \cap There)
    /\ upd' = NoUpd /\ lock' = "" /\ loop' = Free
    /\ UNCHANGED <<cur, item, sync, discard, preview, wipe, pens, ops, made, sent>>

\* Any request of it fails, is refused, times out or is cancelled.
SaveFails ==
    /\ LoopFree /\ upd # NoUpd
    /\ upd' = NoUpd
    /\ lock' = IF lock = "save" THEN "" ELSE lock
    /\ UNCHANGED <<cur, notes, item, sync, discard, preview, loop, wipe, pens, ops, history>>

----------------------------------------------------------------------------
(* Regenerate, Clear, and a restart.                                        *)

\* reset_conversation reads the notes, cancels what runs, and waits for that.
ResetStarts(kind) ==
    /\ LoopFree /\ wipe = NoWipe /\ upd # NoUpd /\ Ask
    /\ wipe' = [kind |-> kind, notes |-> notes]
    /\ upd' = NoUpd
    /\ lock' = IF lock = "save" THEN "" ELSE lock
    /\ UNCHANGED <<cur, notes, item, sync, discard, preview, loop, pens, ops, sent, known, slipped>>

\* The revision that notes name is deleted with the listing.
Deleted(old) == <<IF old[1] = None THEN None ELSE Gone, old[2], old[3], old[4]>>

\* It wipes the listing. Regenerate puts back the notes it read; Clear keeps
\* only the binding.
Wiped(kind, old) ==
    /\ cur' = NoListing
    /\ LET left == Deleted(IF kind = "regenerate" THEN old ELSE NoWipe.notes)
       IN synced' = left[1] /\ seen' = left[2] /\ print' = left[3] /\ conflict' = left[4]
    /\ pens' = {Deleted(n) : n \in pens}
    /\ wipe' = NoWipe
    /\ UNCHANGED <<item, lock, sync, discard, upd, preview, loop, ops, sent, known, slipped>>

ResetWipes(kind) ==
    /\ LoopFree
    /\ \/ wipe # NoWipe /\ kind = wipe.kind /\ Wiped(kind, wipe.notes) /\ UNCHANGED made
       \/ wipe = NoWipe /\ upd = NoUpd /\ Wiped(kind, notes) /\ Ask

Restart ==
    /\ Ask
    /\ lock' = "" /\ sync' = Idle /\ discard' = Idle /\ upd' = NoUpd
    /\ preview' = NoView /\ loop' = Free /\ wipe' = NoWipe /\ pens' = {}
    /\ UNCHANGED <<cur, notes, item, ops, sent, known, slipped>>

----------------------------------------------------------------------------
Seller ==
    \/ \E P \in SUBSET Parts \ {{}} : Edit(P) \/ Automation(P)
    \/ NotesRead \/ \E old \in pens : NotesRewritten(old)
    \/ \E P \in SUBSET Parts : VendooChanges(P)
    \/ StartSync \/ StartDiscard \/ PreviewSend
    \/ \E prep \in BOOLEAN : SaveToVendoo(prep) \/ EnqueueReviewed(prep)
    \/ \E kind \in {"regenerate", "clear"} : ResetStarts(kind) \/ ResetWipes(kind)

Chrome == ChromeReads \/ \E op \in ops : ChromeWrites(op) \/ WriteDropped(op)

Loop == PullMerges \/ SavesOver \/ PullEnds \/ SaveEnds \/ CheckEnds

SyncEnds == SyncAnswered \/ SyncUnavailable

Save == TakeLock \/ SaveReads \/ SaveVerifies \/ SaveFails

Next == Seller \/ Chrome \/ Loop \/ SyncEnds \/ DiscardEnds \/ Save \/ Restart

SSpec == Init /\ [][Next]_vars

\* The loop runs what is ready; a request to Chrome has a deadline, so a sync or
\* an update at one ends. An update that waits for the lock has none.
SFairSpec ==
    /\ SSpec
    /\ WF_vars(Loop)
    /\ SF_vars(SyncEnds)
    /\ SF_vars(TakeLock)
    /\ SF_vars(upd.at # "waits" /\ (SaveReads \/ SaveVerifies \/ SaveFails))

----------------------------------------------------------------------------
Checks == {"first", "sync", "label", "conflict"}

SyncTypeOK ==
    /\ cur \in Bodies
    /\ synced \in Bodies \cup {None, Gone}
    /\ seen \in Nat /\ print \in Bodies \cup {None} /\ conflict \in BOOLEAN
    /\ item \in Item
    /\ lock \in {"", "sync", "save"}
    /\ {sync.at, discard.at} \subseteq {"idle", "asking", "read"}
    /\ (lock = "save") <=> (upd.at \notin {"idle", "waits"})
    /\ sync # Idle => lock = "sync"
    /\ loop.by \in Checks => lock = "sync" /\ sync = Idle
    /\ lock = "sync" => sync # Idle \/ loop.by \in Checks
    /\ upd # NoUpd => upd.rev \in Bodies
    /\ \A old \in pens : old[1] \in Bodies \cup {None, Gone} /\ old[2] \in Nat

\* A sync never pulls Vendoo's copy over an edit of the seller's that is not in
\* Vendoo ("keep Studio's listing and flag a conflict"). It can only when its
\* notes name no revision it was level with (it never saw the draft, or such old
\* notes were written back), or to an edit saved between its decision and its
\* own save, which does not name the revision it expects.
EditKept ==
    [][loop.at = "save" /\ loop.by = "sync" =>
         \A p \in Parts : cur[p] \in Here \ (sent \cup loop.race) => cur'[p] = cur[p]]_vars

\* An update changes in Vendoo only what it read there, or what the seller was
\* shown when she reviewed the send: an edit made in Vendoo since then is never
\* written over, not even by a write nobody waits for any more.
OnlyWhatWasRead ==
    [][\A op \in ops \ ops' : item' # item => item.body[op.part] = op.base]_vars

\* A conflict stands: as long as each side has an edit the other never had, every
\* check of the draft finds it ("every later check sees the same conflict until
\* the seller settles it"), whatever was checked before, and also when the flag
\* itself was lost to notes written back. Only where the notes name no revision
\* Studio was level with is there none.
BothAhead ==
    /\ \E p \in Parts : cur[p] \in Here \ sent
    /\ \E p \in Parts : item.body[p] \in There \ known
ConflictStands == synced # None /\ BothAhead => State(item) = "conflict"

\* When a check would find nothing to do and the listing shows no unsent edits,
\* both sides hold the same, whatever else is under way, unless Vendoo changed
\* where the marks do not show it: between an update's last write and its reading
\* back, by a write that Studio had given up, or where a Discard, which takes no
\* lock, met another; or older notes were written back while a check marked its
\* answer.
ShownLevel == synced = cur /\ ~conflict /\ seen # 0 /\ (item.stamp <= seen \/ print = item.body)
Level == ShownLevel /\ ~slipped => \A p \in Parts : cur[p] \in {Blank, item.body[p]}

\* A sync lets the listing go, and an update that waits for it has its turn.
TurnsEnd ==
    /\ []<>(lock # "sync")
    /\ []<>(upd.at # "waits")
=============================================================================
