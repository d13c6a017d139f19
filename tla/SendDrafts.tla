------------------------------ MODULE SendDrafts ------------------------------
(***************************************************************************)
(* What the sends of SendQueue do at Vendoo: a send of a listing without a *)
(* draft names a new one, checkpoints the name, has Chrome create it, and  *)
(* reads it back.  A send that is interrupted anywhere in between is run   *)
(* again, by itself or by the seller, and picks the name up from the       *)
(* checkpoint.  Chrome carries out what it was given whether or not Studio *)
(* still waits for the answer, or still runs.                              *)
(*                                                                         *)
(* Every step is a step of SendQueue with what it does to the drafts.      *)
(***************************************************************************)
EXTENDS SendQueue

CONSTANT MaxNames   \* bound: item ids Vendoo ever hands out

ASSUME NamesBound == MaxNames \in Nat \ {0}

VARIABLES
    work,       \* create_item of a job: where it is, and its local variables
    ckpt,       \* item id of a job's last vendoo_api_checkpoint event, 0 without
    owner,      \* for which listing an item id was handed out
    sent,       \* create_item ops Chrome has and did not carry out yet
    drafts,     \* drafts at Vendoo that Studio made
    binding,    \* vendooItemId in a conversation's notes, 0 without
    doubled     \* history: listings that had two sends under way at once

dvars == <<work, ckpt, owner, sent, drafts, binding, doubled>>

NoName == 0
Names  == 1 .. MaxNames
Phases == {"none", "look", "prepare", "photos", "read", "stored"}

\* Mutant: the lookup's outcome is not initialised.
NoWorkUnset == [phase |-> "none", previous |-> NoName, item |-> NoName]

NoWork == [phase |-> "none", previous |-> NoName, item |-> NoName, recovered |-> FALSE]

DTypeOK ==
    /\ work \in [Jobs -> [phase : Phases, previous : Names \cup {NoName},
                          item : Names \cup {NoName}, recovered : BOOLEAN]]
    /\ ckpt \in [Jobs -> Names \cup {NoName}]
    /\ owner \in [Names -> Listings \cup {NoListing}]
    /\ sent \in SUBSET Names
    /\ drafts \in SUBSET Names
    /\ binding \in [Listings -> Names \cup {NoName}]
    /\ doubled \in SUBSET Listings

DInit ==
    /\ Init
    /\ work = [j \in Jobs |-> NoWork]
    /\ ckpt = [j \in Jobs |-> NoName]
    /\ owner = [id \in Names |-> NoListing]
    /\ sent = {} /\ drafts = {}
    /\ binding = [c \in Listings |-> NoName]
    /\ doubled = {}

----------------------------------------------------------------------------
(* create_item.                                                            *)

\* Mutant: the checkpoint of a cancelled send is not picked up.
PendingOnlyFailed(c) ==
    LET js == {j \in Jobs : conv[j] = c /\ ckpt[j] # NoName}
        j  == CHOOSE i \in js : \A k \in js : k <= i
    IN  IF js = {} \/ status[j] # "failed" THEN NoName ELSE ckpt[j]

\* pending_vendoo_send: the last checkpoint of the listing's newest job that
\* has one, unless that job completed.
Pending(c) ==
    LET js == {j \in Jobs : conv[j] = c /\ ckpt[j] # NoName}
        j  == CHOOSE i \in js : \A k \in js : k <= i
    IN  IF js = {} \/ status[j] = "completed" THEN NoName ELSE ckpt[j]

\* Mutant: the name is not committed before the create goes out.
CheckpointForgotten(j, id) == UNCHANGED ckpt

\* checkpoint: committed before any remote draft write can occur.
Checkpoint(j, id) == ckpt' = [ckpt EXCEPT ![j] = id]

\* create_item up to its first wait.  A save has its draft already.
Begin(j, c) ==
    work' = [work EXCEPT ![j] =
                [NoWork EXCEPT !.phase = IF Pending(c) = NoName THEN "prepare" ELSE "look",
                               !.previous = Pending(c)]]

StartSend(j) ==
    /\ RunSend(j)
    /\ IF worker'[j] = "run_send" /\ j \notin edits THEN Begin(j, conv[j]) ELSE UNCHANGED work
    /\ UNCHANGED <<ckpt, owner, sent, drafts, binding>>

SendDirectly(c) ==
    /\ SendNow(c)
    /\ IF c \notin bound THEN Begin(made + 1, c) ELSE UNCHANGED work
    /\ UNCHANGED <<ckpt, owner, sent, drafts, binding>>

\* The reply to get_item of the checkpointed draft: there, or an explicit 404.
Look(j) ==
    /\ LoopFree
    /\ work[j].phase = "look"
    /\ work' = [work EXCEPT ![j].phase = "prepare",
                            ![j].recovered = work[j].previous \in drafts]
    /\ UNCHANGED <<vars, ckpt, owner, sent, drafts, binding>>

\* Every other mark of a worker; the one for the photos is the last before the
\* item has a name.
MarkStep(j) ==
    /\ Mark(j)
    /\ work[j].phase \in {"none", "prepare", "stored"}
    /\ \/ UNCHANGED work
       \/ /\ work[j].phase = "prepare" /\ conn # "off"
          /\ work' = [work EXCEPT ![j].phase = "photos"]
    /\ UNCHANGED <<ckpt, owner, sent, drafts, binding>>

\* The reply with the photos and, for a new draft, its id: the checkpoint is
\* committed, then the job is marked, then Chrome gets the create.  A finished
\* job or a lost Chrome stops it after the checkpoint.
NameDraft(j, id) ==
    /\ work[j].phase = "photos"
    /\ IF work[j].previous # NoName
       THEN id = work[j].previous /\ UNCHANGED owner
       ELSE /\ owner[id] = NoListing
            /\ \A k \in Names : k < id => owner[k] # NoListing
            /\ owner' = [owner EXCEPT ![id] = conv[j]]
    /\ Checkpoint(j, id)
    /\ \/ /\ SendFails(j)
          /\ status[j] \in Terminal \/ conn = "off"
          /\ work' = [work EXCEPT ![j] = NoWork]
          /\ UNCHANGED sent
       \/ /\ Mark(j)
          /\ conn # "off" \/ work[j].recovered
          /\ sent' = IF work[j].recovered THEN sent ELSE sent \cup {id}
          /\ work' = [work EXCEPT ![j].item = id,
                         ![j].phase = IF work[j].recovered THEN "stored" ELSE "read"]
    /\ UNCHANGED <<drafts, binding>>

\* Mutant: the draft is taken as stored without being read.
ReadBackUnseen(j) ==
    /\ LoopFree
    /\ work[j].phase = "read"
    /\ work' = [work EXCEPT ![j].phase = "stored"]
    /\ UNCHANGED <<vars, ckpt, owner, sent, drafts, binding>>

\* The reply to create_item and get_item, or to a later get_item.
ReadBack(j) ==
    /\ LoopFree
    /\ work[j].phase = "read"
    /\ work[j].item \in drafts
    /\ work' = [work EXCEPT ![j].phase = "stored"]
    /\ UNCHANGED <<vars, ckpt, owner, sent, drafts, binding>>

\* Anything raised, at any wait.
GiveUp(j) ==
    /\ SendFails(j) \/ RequestCloses(j)
    /\ work' = [work EXCEPT ![j] = NoWork]
    /\ UNCHANGED <<ckpt, owner, sent, drafts, binding>>

\* The draft is stored: the notes are bound to it, unless the job was cancelled.
Complete(j) ==
    LET c == conv[j] IN
    /\ work[j].phase \in {"stored", "none"}
    /\ SendCompletes(j)
    /\ binding' = IF work[j].phase = "stored" /\ status[j] # "cancelled"
                  THEN [binding EXCEPT ![c] = work[j].item] ELSE binding
    /\ work' = [work EXCEPT ![j] = NoWork]
    /\ UNCHANGED <<ckpt, owner, sent, drafts>>

----------------------------------------------------------------------------
(* Chrome, and the rest of SendQueue.                                      *)

\* Chrome puts the item at the path its id names: a second create of the same
\* id finds the same draft.  Or the op fails.
ChromeCreates(id) ==
    /\ id \in sent
    /\ sent' = sent \ {id}
    /\ drafts' \in {drafts, drafts \cup {id}}
    /\ UNCHANGED <<vars, work, ckpt, owner, binding>>

ProcessDies ==
    /\ Crashes
    /\ work' = [j \in Jobs |-> NoWork]
    /\ UNCHANGED <<ckpt, owner, sent, drafts, binding>>

\* Requests but the direct send, which starts a worker.
OtherRequests ==
    \/ "enqueue" \in Happens /\ \E c \in Listings : EnqueueSend(c)
    \/ "native" \in Happens /\ \E c \in Listings, k \in Native : StartNative(c, k)
    \/ "cancel" \in Happens /\ \E j \in Jobs : CancelJob(j)
    \/ "update" \in Happens /\ CancelLeftoverJobs
    \/ "poll" \in Happens /\ GetQueue

Elsewhere ==
    /\ \/ OtherRequests \/ Dispatcher \/ WorkerEnd \/ Watchdog \/ Chrome
       \/ \E j \in Jobs : NativeWorker(j)
    /\ UNCHANGED <<work, ckpt, owner, sent, drafts, binding>>

DStep ==
    \/ "now" \in Happens /\ \E c \in Listings : SendDirectly(c)
    \/ \E j \in Jobs :
        \/ StartSend(j) \/ Look(j) \/ MarkStep(j)
        \/ \E id \in Names : NameDraft(j, id)
        \/ ReadBack(j) \/ GiveUp(j) \/ Complete(j)
    \/ \E id \in Names : ChromeCreates(id)
    \/ ProcessDies
    \/ Elsewhere

\* A send is under way while it is queued or runs, and while a coroutine or a
\* thread has it in hand.
UnderWay(j) ==
    j \in Active \/ worker[j] # "none" \/ Taken(j) \/ Swept(j) \/ Ending(j)

Doubling(c) ==
    \E i, j \in Jobs : i # j /\ conv[i] = c /\ conv[j] = c /\ UnderWay(i) /\ UnderWay(j)

DNext == DStep /\ doubled' = doubled \cup {c \in Listings : Doubling(c)'}

DSpec == DInit /\ [][DNext]_<<vars, dvars>>

----------------------------------------------------------------------------
(* Properties.                                                             *)

\* As long as a listing has one send under way at a time, Studio makes one
\* draft for it: whichever step the sends were cut off at, whoever cancelled
\* them, and however late Chrome carries a create out.
OneDraftEach ==
    \A a, b \in drafts \cup sent :
        owner[a] = owner[b] /\ owner[a] \notin doubled => a = b

\* And until the listing is bound, that draft is the one its next send picks up.
Recoverable ==
    \A id \in drafts \cup sent :
        owner[id] \notin bound \cup doubled => Pending(owner[id]) = id

\* Notes name a draft only when Vendoo has it.
BoundDraftExists ==
    \A c \in Listings : binding[c] # NoName => binding[c] \in drafts /\ owner[binding[c]] = c
=============================================================================
