--------------------------- MODULE NativeListings ---------------------------
(***************************************************************************)
(* An item's direct listings: List, Update and Save Draft on marketplaces, *)
(* each through its API or through Chrome, one job per action.  A job asks *)
(* for its steps one after another and writes the answers to the record;   *)
(* an answer that never came leaves the record "unknown" until Check reads *)
(* what the marketplace has, or the seller looks.                          *)
(*                                                                         *)
(* Chrome journals every step by its operation and runs one per            *)
(* marketplace; its service worker may be stopped, its socket closed.      *)
(* Studio's code runs on one event loop, so what has no await is one step. *)
(* The marketplaces are external: what is here is what the code reads of   *)
(* them and what its writes do.                                            *)
(***************************************************************************)
EXTENDS Naturals, Sequences, FiniteSets

CONSTANTS
    Markets,
    Chrome,      \* those Anteroom works through Chrome; the others have an API
    TwoStep,     \* those that publish a saved draft of their own
    Boosts,      \* those that may update what they just posted, as Depop's Boost
    Revs,        \* revisions of the listing
    NoRev,
    MaxMarkets,  \* bound: marketplaces the item is listed on
    MaxJobs,     \* bound: List, Update and Save Draft jobs
    MaxCrashes,  \* bound: crashes of Studio
    MaxDeaths    \* bound: stops of Chrome's service worker

ASSUME ListingConstants ==
    /\ Chrome \subseteq Markets /\ TwoStep \subseteq Markets /\ Boosts \subseteq TwoStep \cap Chrome
    /\ NoRev \notin Revs
    /\ MaxMarkets \in Nat /\ MaxJobs \in Nat /\ MaxCrashes \in Nat /\ MaxDeaths \in Nat

VARIABLES
    \* Studio's database.
    rec,         \* the record of each marketplace
    job,         \* the job it names: "none", "active", "completed", "failed", "cancelled"
    asked,       \* the last operation, with what its job's snapshot holds
    \* Studio's process.
    worker,      \* run_job: "none", "ready", "asked", "waiting", "reading"
    steps,       \* the steps it has still to ask for
    saves,       \* where the job's steps save a draft, those behind it included
    cancels,     \* _cancel_requested
    checking,    \* marketplaces whose check_result awaits its answer
    up,          \* Chrome is connected
    \* The operations, in Chrome or in an API's execute.
    sent,        \* marketplaces with an execute on its way to Chrome
    running,     \* the operation that holds the marketplace
    mine,        \* where that is the record's operation, not an older one
    stage,       \* how far it is: "started", or what it is about to answer
    note,        \* the journal of the record's operation
    \* The marketplaces.
    held,        \* what the draft holds
    live,        \* how many listings of the item are live
    shows,       \* what the last of them says
    late,        \* operations given up whose write is still to be carried out
    \* History.
    early,       \* where the seller looked while the item was still being posted
    slow,        \* where a read-back took what it saw for the end of a post
    ended,       \* where a listing ended: sold, deleted, delisted
    jobs, crashes, deaths

process == <<worker, steps, saves, cancels>>
chrome  == <<sent, running, mine, stage>>
market  == <<held, live, shows, late>>
history == <<early, slow, ended, jobs, crashes, deaths>>
nvars == <<rec, job, asked, worker, steps, saves, cancels, checking, up, sent, running, mine,
           stage, note, held, live, shows, late, early, slow, ended, jobs, crashes, deaths>>

Busy == {"saving", "publishing", "updating"}
Unsettled == Busy \cup {"unknown"}
Resting == {"not_saved", "draft"}
Actions == {"save_draft", "publish", "list", "update"}
Posting == {"publish", "list"}
Answers == {"ok", "refused", "gone", "unsure"}

NoOp == [action |-> "none", rev |-> NoRev, link |-> FALSE]
Ops == [action : Actions, rev : Revs, link : BOOLEAN]

StepState(step) ==
    CASE step = "save_draft" -> "saving"
      [] step \in {"publish", "list"} -> "publishing"
      [] step = "update" -> "updating"

NTypeOK ==
    /\ rec \in [Markets -> [state : Unsettled \cup Resting \cup {"published"},
                            action : Actions \cup {"none"},
                            rev : Revs \cup {NoRev}, prev : Revs \cup {NoRev}, link : BOOLEAN]]
    /\ job \in [Markets -> {"none", "active", "completed", "failed", "cancelled"}]
    /\ asked \in [Markets -> Ops \cup {NoOp}]
    /\ worker \in [Markets -> {"none", "ready", "asked", "waiting", "reading"}]
    /\ steps \in [Markets -> Seq(Actions)]
    /\ saves \in SUBSET Markets /\ cancels \in SUBSET Markets /\ checking \in SUBSET Markets
    /\ up \in BOOLEAN
    /\ sent \in SUBSET Chrome
    /\ running \in [Markets -> Ops \cup {NoOp}]
    /\ mine \in SUBSET Markets
    /\ stage \in [Markets -> Answers \cup {"started"}]
    /\ note \in [Markets -> Answers \cup {"none", "started"}]
    /\ held \in [Markets -> Revs \cup {NoRev}]
    /\ live \in [Markets -> Nat]
    /\ shows \in [Markets -> Revs \cup {NoRev}]
    /\ late \in [Markets -> SUBSET Ops]
    /\ early \in SUBSET Markets /\ slow \in SUBSET (Markets \ Chrome) /\ ended \in SUBSET Markets
    /\ jobs \in 0..MaxJobs /\ crashes \in 0..MaxCrashes /\ deaths \in 0..MaxDeaths

NInit ==
    /\ rec = [m \in Markets |-> [state |-> "not_saved", action |-> "none",
                                 rev |-> NoRev, prev |-> NoRev, link |-> FALSE]]
    /\ job = [m \in Markets |-> "none"]
    /\ asked = [m \in Markets |-> NoOp]
    /\ worker = [m \in Markets |-> "none"]
    /\ steps = [m \in Markets |-> <<>>]
    /\ saves = {} /\ cancels = {} /\ checking = {} /\ up = TRUE
    /\ sent = {} /\ mine = {}
    /\ running = [m \in Markets |-> NoOp]
    /\ stage = [m \in Markets |-> "started"]
    /\ note = [m \in Markets |-> "none"]
    /\ held = [m \in Markets |-> NoRev]
    /\ live = [m \in Markets |-> 0]
    /\ shows = [m \in Markets |-> NoRev]
    /\ late = [m \in Markets |-> {}]
    /\ early = {} /\ slow = {} /\ ended = {} /\ jobs = 0 /\ crashes = 0 /\ deaths = 0

----------------------------------------------------------------------------
(* What an operation does on its marketplace, and what it is told.         *)

\* It draws on the linked draft, as a save, a publish and a linked list do.
Draws(op) == op.link /\ op.action # "update"

GoesLive(m, r) ==
    /\ live' = [live EXCEPT ![m] = @ + 1]
    /\ shows' = [shows EXCEPT ![m] = r]

\* Saving writes the linked draft, or a new one; an API does not replace a lost one.
Saves(m, op) ==
    /\ Draws(op) /\ m \notin Chrome => held[m] # NoRev
    /\ held' = [held EXCEPT ![m] = op.rev]
    /\ UNCHANGED <<live, shows>>

\* Publishing posts the draft as it is.
Publishes(m) ==
    /\ held[m] # NoRev
    /\ GoesLive(m, held[m])
    /\ held' = [held EXCEPT ![m] = NoRev]

\* Listing in one step posts the linked draft, or a new listing.
Lists(m, op) ==
    /\ m \in Chrome \/ live[m] = 0
    /\ Draws(op) => held[m] # NoRev
    /\ GoesLive(m, op.rev)
    /\ held' = [held EXCEPT ![m] = IF Draws(op) THEN NoRev ELSE @]

\* Updating writes what is live.
Updates(m, op) ==
    /\ live[m] > 0
    /\ shows' = [shows EXCEPT ![m] = op.rev]
    /\ UNCHANGED <<held, live>>

Lands(m, op) ==
    \/ op.action = "save_draft" /\ Saves(m, op)
    \/ op.action = "publish" /\ Publishes(m)
    \/ op.action = "list" /\ Lists(m, op)
    \/ op.action = "update" /\ Updates(m, op)

\* What is in hand for a draft that is no more comes to nothing.
Spends(op) == op.action \in Posting /\ op.link
Left(m, op) == IF Spends(op) THEN {other \in late[m] : ~Draws(other)} ELSE late[m]

\* A write that lands may go unconfirmed; a save that was not kept whole is
\* refused by Depop's read and by an API.  Publishing wants the draft to hold
\* this revision.
Landed == {"ok", "unsure"}
Posts(m, op, answer) ==
    /\ \/ answer \in Landed
       \/ answer = "refused" /\ op.action = "save_draft" /\ (m \in Boosts \/ m \notin Chrome)
    /\ op.action = "publish" => held[m] = op.rev
    /\ Lands(m, op)
    /\ late' = [late EXCEPT ![m] = Left(m, op)]

\* One that does not may still be in hand where its answer left that open: in
\* Depop's queue, or in a request that timed out.  The same write in hand twice
\* counts once.
Open(m, op, answer) ==
    /\ answer = "unsure" \/ (answer = "refused" /\ op.action = "save_draft" /\ m \in Boosts)
    /\ Draws(op) => held[m] # NoRev
Misses(m, op, answer) ==
    /\ answer \in {"refused", "unsure"}
    /\ \/ UNCHANGED late
       \/ Open(m, op, answer) /\ late' = [late EXCEPT ![m] = @ \cup {op}]
    /\ UNCHANGED <<held, live, shows>>

\* It finds what is live already, and Depop and Vinted that the draft is gone
\* (Mercari refuses then).
Finds(m, op, answer) ==
    /\ \/ answer = "ok" /\ op.action = "publish" /\ m \notin Boosts
          /\ live[m] > 0 /\ held[m] = NoRev /\ (m \in Chrome \/ shows[m] = op.rev)
       \/ answer = "ok" /\ op.action = "list" /\ m \notin Chrome /\ live[m] > 0
       \/ answer = "gone" /\ op.action = "publish" /\ m \in TwoStep \cap Chrome /\ held[m] = NoRev
    /\ UNCHANGED market

Does(m, op, answer) == Misses(m, op, answer) \/ Finds(m, op, answer) \/ Posts(m, op, answer)

\* Mutant: a publish is taken for done when the draft holds what it was to post.
DraftShown(m) ==
    LET op == asked[m] IN
    IF op.action = "update" THEN live[m] > 0 ELSE held[m] = op.rev

\* Reading the marketplace back: it confirms what is there.  An API takes what
\* is not there for a refusal, Etsy's if the draft still is; Depop's queue tells
\* that it gave a publish up, and its edits are not read back.
Shown(m) ==
    LET op == asked[m] IN
    CASE op.action = "save_draft" -> held[m] = op.rev
      [] op.action \in Posting -> live[m] > 0
      [] op.action = "update" -> live[m] > 0 /\ shows[m] = op.rev
Reads(m, answer) ==
    \/ answer = "ok" /\ Shown(m) /\ (asked[m].action = "update" => m \notin Boosts)
    \/ answer = "unsure"
    \/ answer = "refused" /\ m \notin Chrome /\ ~Shown(m)
       /\ (asked[m].action = "publish" => held[m] # NoRev)
    \/ answer = "refused" /\ m \in Boosts
       /\ \/ asked[m].action = "save_draft"
          \/ asked[m].action = "publish" /\ ~Shown(m) /\ asked[m] \notin late[m]

\* The item may yet be posted by a write in hand.
InHand(m) == \E op \in late[m] : op.action \in Posting
Misread(m, answer) ==
    slow' = IF answer = "refused" /\ m \notin Chrome /\ InHand(m) THEN slow \cup {m} ELSE slow

----------------------------------------------------------------------------
(* Chrome's handler, and an API's execute.                                 *)

\* The marketplace is free: the operation is journaled and starts.
Claim(m) ==
    /\ m \in sent /\ up
    /\ running[m] = NoOp
    /\ sent' = sent \ {m}
    /\ running' = [running EXCEPT ![m] = asked[m]]
    /\ mine' = mine \cup {m}
    /\ stage' = [stage EXCEPT ![m] = "started"]
    /\ note' = [note EXCEPT ![m] = "started"]
    /\ UNCHANGED <<rec, job, asked, process, checking, up, market, history>>

Act(m) ==
    /\ running[m] # NoOp /\ stage[m] = "started"
    /\ \E answer \in Answers :
        /\ Does(m, running[m], answer)
        /\ stage' = [stage EXCEPT ![m] = answer]
    /\ UNCHANGED <<rec, job, asked, process, checking, up, sent, running, mine, note, history>>

\* The marketplace carries out a write after its answer: a new draft only where
\* the record has none by then, which it would not name.
LandsLate(m) ==
    /\ \E op \in late[m] :
        /\ op.action = "save_draft" /\ ~op.link => ~rec[m].link
        /\ Lands(m, op)
        /\ late' = [late EXCEPT ![m] = Left(m, op) \ {op}]
    /\ UNCHANGED <<rec, job, asked, process, checking, up, chrome, note, history>>

\* The answer is journaled, and the marketplace is free.
Done(m) ==
    /\ running[m] # NoOp /\ stage[m] # "started"
    /\ running' = [running EXCEPT ![m] = NoOp]
    /\ mine' = mine \ {m}
    /\ note' = IF m \in mine THEN [note EXCEPT ![m] = stage[m]] ELSE note
    /\ UNCHANGED <<rec, job, asked, process, checking, up, sent, stage, market, history>>

\* What was cut off under way may have been sent, and land late.
UnderWay(m) == running[m] # NoOp /\ stage[m] = "started" /\ Open(m, running[m], "unsure")
CutOff(cut) ==
    late' = [m \in Markets |-> IF m \in cut THEN late[m] \cup {running[m]} ELSE late[m]]

\* Chrome stops the service worker: what it ran is over, wherever it was.
Dies ==
    /\ deaths < MaxDeaths
    /\ deaths' = deaths + 1
    /\ \E cut \in SUBSET {m \in Chrome : UnderWay(m)} : CutOff(cut)
    /\ running' = [m \in Markets |-> IF m \in Chrome THEN NoOp ELSE running[m]]
    /\ mine' = mine \ Chrome
    /\ up' = FALSE /\ sent' = {}
    /\ UNCHANGED <<rec, job, asked, process, checking, stage, note, held, live, shows,
                   early, slow, ended, jobs, crashes>>

\* handleNativeMarketplaceMessage answers a question for the result: from the
\* journal, or by reading back when that is unfinished or unsure and the
\* marketplace is free.
Recovers(m) ==
    /\ running[m] = NoOp
    /\ note[m] \in {"started", "unsure"} \/ (note[m] = "none" /\ asked[m].link)
Unfinished(m) ==
    /\ note[m] \in {"none", "started"}
    /\ ~Recovers(m)
Answered(m, answer) ==
    IF m \in Chrome
    THEN /\ up /\ m \notin sent
         /\ IF Recovers(m) THEN Reads(m, answer) ELSE answer = note[m]
         /\ note' = [note EXCEPT ![m] = answer]
    ELSE /\ Reads(m, answer)
         /\ UNCHANGED note

----------------------------------------------------------------------------
(* Answers and the record: _outcome, _apply_result, run_job, _finish_job.  *)

RestingState(link) == IF link THEN "draft" ELSE "not_saved"

\* Mutant: an answer that leaves it open is taken for a refusal.
OutcomeOrRefusal(m, answer) ==
    LET old == rec[m] IN
    [old EXCEPT !.state = CASE answer = "ok" /\ old.action = "save_draft" -> "draft"
                            [] answer = "ok" /\ old.action # "save_draft" -> "published"
                            [] old.action = "update" -> "published"
                            [] OTHER -> RestingState(old.link)]

\* The record after an answer for its action.
Outcome(m, answer) ==
    LET old == rec[m] IN
    CASE answer = "ok" /\ old.action = "save_draft" -> [old EXCEPT !.state = "draft", !.link = TRUE]
      [] answer = "ok" /\ old.action = "publish" -> [old EXCEPT !.state = "published", !.link = TRUE]
      [] answer = "ok" /\ old.action \in {"list", "update"} -> [old EXCEPT !.state = "published"]
      [] answer = "refused" /\ old.action = "update" -> [old EXCEPT !.state = "published"]
      [] answer = "refused" /\ old.action = "save_draft" ->
            [old EXCEPT !.state = RestingState(old.link), !.rev = old.prev]
      [] answer = "refused" /\ old.action \in {"publish", "list"} ->
            [old EXCEPT !.state = RestingState(old.link)]
      [] answer = "gone" -> [old EXCEPT !.state = "not_saved", !.link = FALSE]
      [] answer = "unsure" -> [old EXCEPT !.state = "unknown"]

\* Mutant: the job takes the record's state for its status.
EndedAs(m, state, error) == IF error THEN "failed" ELSE state

\* _finish_job, with the error or none the last answer left.
Ended(m, state, error) ==
    CASE m \in cancels /\ (state # "published" \/ error) -> "cancelled"
      [] ~error /\ state \in {"published", "draft"} -> "completed"
      [] OTHER -> "failed"
FinishJob(m, after, error) ==
    LET state == IF after.state \in Busy THEN "unknown" ELSE after.state IN
    /\ rec' = [rec EXCEPT ![m] = [after EXCEPT !.state = state]]
    /\ job' = [job EXCEPT ![m] = Ended(m, state, error \/ after.state \in Busy)]
    /\ worker' = [worker EXCEPT ![m] = "none"]
    /\ steps' = [steps EXCEPT ![m] = <<>>]
    /\ UNCHANGED saves
    /\ cancels' = cancels \ {m}

\* The steps after an answer: a draft that was not saved ends the job, a draft
\* that is gone is saved anew once, and what Depop posted may be boosted.
Further(m, answer) ==
    CASE rec[m].action = "save_draft" /\ answer # "ok" -> {<<>>}
      [] answer = "gone" /\ m \notin saves -> {<<"save_draft", "publish">>}
      [] answer = "ok" /\ rec[m].action = "publish" /\ m \in Boosts -> {steps[m], <<"update">>}
      [] OTHER -> {steps[m]}

Apply(m, answer) ==
    LET after == Outcome(m, answer) IN
    \E further \in Further(m, answer) :
        IF further = <<>>
        THEN FinishJob(m, after, answer # "ok")
        ELSE /\ rec' = [rec EXCEPT ![m] = after]
             /\ worker' = [worker EXCEPT ![m] = "ready"]
             /\ steps' = [steps EXCEPT ![m] = further]
             /\ saves' = IF Head(further) = "save_draft" THEN saves \cup {m} ELSE saves
             /\ UNCHANGED <<job, cancels>>

----------------------------------------------------------------------------
(* The List or Update job.                                                 *)

\* _plan: a draft that holds the revision is published as it is, unless its
\* photos changed since.
Plans(m, kind, r) ==
    CASE kind \in {"save_draft", "update"} -> {<<kind>>}
      [] kind = "list" /\ m \notin TwoStep -> {<<"list">>}
      [] kind = "list" /\ m \in TwoStep ->
            {<<"save_draft", "publish">>} \cup
            (IF rec[m].state = "draft" /\ rec[m].rev = r /\ rec[m].link
             THEN {<<"publish">>} ELSE {})

\* Mutant: an unconfirmed action does not stop a new one.
StartAnyway(m, kind, r) ==
    /\ jobs < MaxJobs
    /\ Cardinality({m} \cup {n \in Markets : asked[n] # NoOp}) <= MaxMarkets
    /\ m \in Chrome => up
    /\ (kind = "update") <=> (rec[m].state = "published")
    /\ job[m] # "active" /\ m \notin checking
    /\ LET step == IF kind = "list" /\ m \in TwoStep THEN "save_draft" ELSE kind IN
        /\ steps' = [steps EXCEPT ![m] = IF step = kind THEN <<kind>> ELSE <<step, "publish">>]
        /\ saves' = IF step = "save_draft" THEN saves \cup {m} ELSE saves \ {m}
        /\ rec' = [rec EXCEPT ![m].state = StepState(step), ![m].action = step,
                              ![m].prev = rec[m].rev, ![m].rev = r]
        /\ asked' = [asked EXCEPT ![m] = [action |-> step, rev |-> r, link |-> rec[m].link]]
    /\ note' = [note EXCEPT ![m] = "none"]
    /\ mine' = mine \ {m}
    /\ job' = [job EXCEPT ![m] = "active"]
    /\ worker' = [worker EXCEPT ![m] = "ready"]
    /\ jobs' = jobs + 1
    /\ UNCHANGED <<cancels, checking, up, sent, running, stage, market,
                   early, slow, ended, crashes, deaths>>

\* _start, under the gate: no unconfirmed action, no other job on the marketplace.
Start(m, kind, r) ==
    /\ jobs < MaxJobs
    /\ Cardinality({m} \cup {n \in Markets : asked[n] # NoOp}) <= MaxMarkets
    /\ m \in Chrome => up
    /\ rec[m].state \notin Unsettled
    /\ (kind = "update") <=> (rec[m].state = "published")
    /\ job[m] # "active" /\ m \notin checking
    /\ \E plan \in Plans(m, kind, r) :
        /\ steps' = [steps EXCEPT ![m] = plan]
        /\ saves' = IF Head(plan) = "save_draft" THEN saves \cup {m} ELSE saves \ {m}
        /\ rec' = [rec EXCEPT ![m].state = StepState(Head(plan)), ![m].action = Head(plan),
                              ![m].prev = rec[m].rev, ![m].rev = r]
        /\ asked' = [asked EXCEPT ![m] = [action |-> Head(plan), rev |-> r, link |-> rec[m].link]]
    /\ note' = [note EXCEPT ![m] = "none"]
    /\ mine' = mine \ {m}
    /\ job' = [job EXCEPT ![m] = "active"]
    /\ worker' = [worker EXCEPT ![m] = "ready"]
    /\ jobs' = jobs + 1
    /\ UNCHANGED <<cancels, checking, up, sent, running, stage, market,
                   early, slow, ended, crashes, deaths>>

\* run_job asks for the next step, each under an operation of its own.
StepBegins(m) ==
    LET step == Head(steps[m]) IN
    /\ worker[m] = "ready" /\ m \notin cancels
    /\ rec' = [rec EXCEPT ![m].state = StepState(step), ![m].action = step]
    /\ asked' = [asked EXCEPT ![m] = [action |-> step, rev |-> rec[m].rev, link |-> rec[m].link]]
    /\ steps' = [steps EXCEPT ![m] = Tail(@)]
    /\ IF m \in Chrome
       THEN /\ sent' = IF up THEN sent \cup {m} ELSE sent
            /\ worker' = [worker EXCEPT ![m] = IF up THEN "asked" ELSE "waiting"]
            /\ note' = [note EXCEPT ![m] = "none"]
            /\ mine' = mine \ {m}
            /\ UNCHANGED <<running, stage>>
       ELSE /\ worker' = [worker EXCEPT ![m] = "asked"]
            /\ running' = [running EXCEPT ![m] = asked'[m]]
            /\ mine' = mine \cup {m}
            /\ stage' = [stage EXCEPT ![m] = "started"]
            /\ note' = [note EXCEPT ![m] = "started"]
            /\ UNCHANGED sent
    /\ UNCHANGED <<job, saves, cancels, checking, up, market, history>>

\* It was cancelled before the step, or the approved photos are not there.
StepStops(m) ==
    /\ worker[m] = "ready" /\ m \in cancels
    /\ FinishJob(m, rec[m], FALSE)
    /\ UNCHANGED <<asked, checking, up, chrome, note, market, history>>
StepBreaks(m) ==
    /\ worker[m] = "ready" /\ m \notin cancels
    /\ FinishJob(m, [rec[m] EXCEPT !.state = StepState(Head(steps[m])), !.action = Head(steps[m])], FALSE)
    /\ asked' = [asked EXCEPT ![m].action = Head(steps[m])]
    /\ note' = [note EXCEPT ![m] = "none"]
    /\ UNCHANGED <<checking, up, chrome, market, history>>

\* The answer comes; one of an API that leaves it open is read back at once.
AnswerComes(m) ==
    /\ worker[m] = "asked" /\ note[m] \in Answers
    /\ m \in Chrome => up
    /\ IF m \notin Chrome /\ note[m] = "unsure"
       THEN /\ rec' = [rec EXCEPT ![m] = Outcome(m, "unsure")]
            /\ worker' = [worker EXCEPT ![m] = "reading"]
            /\ UNCHANGED <<job, steps, saves, cancels>>
       ELSE Apply(m, note[m])
    /\ UNCHANGED <<asked, checking, up, chrome, note, market, history>>

\* Chrome refuses an operation while an older one holds the marketplace.
Refused(m) ==
    /\ m \in sent /\ up /\ running[m] # NoOp
    /\ sent' = sent \ {m}
    /\ IF worker[m] = "asked"
       THEN Apply(m, "refused")
       ELSE UNCHANGED <<rec, job, process>>
    /\ UNCHANGED <<asked, checking, up, running, mine, stage, note, market, history>>

ReadsBack(m) ==
    /\ worker[m] = "reading"
    /\ \E answer \in Answers : Reads(m, answer) /\ Misread(m, answer) /\ Apply(m, answer)
    /\ UNCHANGED <<asked, checking, up, chrome, note, market, early, ended, jobs, crashes, deaths>>

\* Chrome's answer is late or lost: _wait_for_chrome asks for the result.
AnswerLate(m) ==
    /\ worker[m] = "asked" /\ m \in Chrome
    /\ worker' = [worker EXCEPT ![m] = "waiting"]
    /\ UNCHANGED <<rec, job, asked, steps, saves, cancels, checking, up, chrome, note, market, history>>
ResultComes(m) ==
    /\ worker[m] = "waiting"
    /\ ~Unfinished(m)
    /\ \E answer \in Answers : Answered(m, answer) /\ Apply(m, answer)
    /\ UNCHANGED <<asked, checking, up, chrome, market, history>>

\* Mutant: the wait ends only with a result.
WaitsOn(m) ==
    /\ worker[m] = "waiting" /\ m \notin sent /\ up
    /\ note[m] = "unsure"
    /\ Apply(m, "unsure")
    /\ UNCHANGED <<asked, checking, up, chrome, note, market, history>>

\* Eight minutes are over; by then Chrome has read what it was sent.
GivesUp(m) ==
    /\ worker[m] = "waiting" /\ m \notin sent
    /\ Apply(m, "unsure")
    /\ UNCHANGED <<asked, checking, up, chrome, note, market, history>>

Cancel(m) ==
    /\ worker[m] # "none" /\ m \notin cancels
    /\ cancels' = cancels \cup {m}
    /\ UNCHANGED <<rec, job, asked, worker, steps, saves, checking, up, chrome, note, market, history>>

----------------------------------------------------------------------------
(* Check, Reset, and the seller's marks.                                   *)

CheckStarts(m) ==
    /\ asked[m] # NoOp /\ worker[m] = "none" /\ (m \in Chrome => up)
    /\ job[m] # "active" /\ m \notin checking
    /\ checking' = checking \cup {m}
    /\ UNCHANGED <<rec, job, asked, process, up, chrome, note, market, history>>

\* A result, that Chrome has none, or no answer.
Checked(m) ==
    /\ m \in checking
    /\ checking' = checking \ {m}
    /\ \/ /\ m \notin Chrome \/ ~Unfinished(m)
          /\ \E answer \in Answers :
              /\ Answered(m, answer) /\ Misread(m, answer)
              /\ rec' = [rec EXCEPT ![m] = Outcome(m, answer)]
              /\ job' = [job EXCEPT ![m] = IF answer = "ok" /\ @ = "failed" THEN "completed" ELSE @]
       \/ /\ m \in Chrome /\ up /\ Unfinished(m)
          /\ rec' = [rec EXCEPT ![m].state = "unknown"]
          /\ UNCHANGED <<job, note, slow>>
       \/ UNCHANGED <<rec, job, note, slow>>
    /\ UNCHANGED <<asked, process, up, chrome, market, early, ended, jobs, crashes, deaths>>

\* The item may yet be posted, by Chrome or by the marketplace.
StillAtIt(m) ==
    \/ asked[m].action \in Posting /\ (m \in sent \/ (m \in mine /\ stage[m] = "started"))
    \/ InHand(m)
Looks(m) == early' = IF StillAtIt(m) THEN early \cup {m} ELSE early

\* The seller looked: what the record rests on is what the marketplace shows.
Reset(m) ==
    /\ rec[m].state \in Unsettled /\ worker[m] = "none"
    /\ IF rec[m].action = "update"
       THEN /\ live[m] > 0
            /\ rec' = [rec EXCEPT ![m].state = "published"]
       ELSE /\ live[m] = 0
            /\ rec' = [rec EXCEPT ![m].state = RestingState(rec[m].link), ![m].rev = NoRev]
    /\ Looks(m)
    /\ UNCHANGED <<job, asked, process, checking, up, chrome, note, market,
                   slow, ended, jobs, crashes, deaths>>

MarkListed(m) ==
    /\ live[m] > 0 /\ rec[m].state # "published" /\ worker[m] = "none"
    /\ rec' = [rec EXCEPT ![m].state = "published"]
    /\ UNCHANGED <<job, asked, process, checking, up, chrome, note, market, history>>

MarkNotListed(m) ==
    /\ live[m] = 0 /\ rec[m].state \in Unsettled \cup {"published"} /\ worker[m] = "none"
    /\ rec' = [rec EXCEPT ![m].state = RestingState(rec[m].link), ![m].rev = NoRev]
    /\ Looks(m)
    /\ UNCHANGED <<job, asked, process, checking, up, chrome, note, market,
                   slow, ended, jobs, crashes, deaths>>

\* The listing is sold, deleted or delisted; the seller deletes the draft.
ListingEnds(m) ==
    /\ live[m] > 0
    /\ live' = [live EXCEPT ![m] = 0]
    /\ ended' = ended \cup {m}
    /\ UNCHANGED <<rec, job, asked, process, checking, up, chrome, note, held, shows, late,
                   early, slow, jobs, crashes, deaths>>
DraftGone(m) ==
    /\ held[m] # NoRev
    /\ held' = [held EXCEPT ![m] = NoRev]
    /\ late' = [late EXCEPT ![m] = {op \in @ : ~Draws(op)}]
    /\ UNCHANGED <<rec, job, asked, process, checking, up, chrome, note, live, shows, history>>

----------------------------------------------------------------------------
(* Restarts and reconnects.                                                *)

Crash ==
    /\ crashes < MaxCrashes
    /\ crashes' = crashes + 1
    /\ \E cut \in SUBSET {m \in Markets \ Chrome : UnderWay(m)} : CutOff(cut)
    /\ worker' = [m \in Markets |-> "none"]
    /\ steps' = [m \in Markets |-> <<>>]
    /\ saves' = {} /\ cancels' = {} /\ checking' = {}
    /\ running' = [m \in Markets |-> IF m \in Chrome THEN running[m] ELSE NoOp]
    /\ mine' = mine \cap Chrome
    /\ up' = FALSE /\ sent' = {}
    /\ UNCHANGED <<rec, job, asked, stage, note, held, live, shows,
                   early, slow, ended, jobs, deaths>>

Disconnects ==
    /\ up
    /\ up' = FALSE /\ sent' = {}
    /\ UNCHANGED <<rec, job, asked, process, checking, running, mine, stage, note, market, history>>

\* mark_interrupted, after a job nothing runs any more was ended.
Orphan(m) == job[m] = "active" /\ worker[m] = "none"
Interrupted(m) == IF rec[m].state \in Busy THEN [rec[m] EXCEPT !.state = "unknown"] ELSE rec[m]

\* requeue_interrupted ends them all when Chrome is back.
Reconnects ==
    /\ ~up
    /\ up' = TRUE
    /\ job' = [m \in Markets |-> IF Orphan(m) THEN "failed" ELSE job[m]]
    /\ rec' = [m \in Markets |-> IF Orphan(m) THEN Interrupted(m) ELSE rec[m]]
    /\ UNCHANGED <<asked, process, checking, chrome, note, market, history>>

\* The watchdog ends one, or the seller does in the jobs list.
Sweep(m) ==
    /\ Orphan(m)
    /\ \E status \in {"failed", "cancelled"} : job' = [job EXCEPT ![m] = status]
    /\ rec' = [rec EXCEPT ![m] = Interrupted(m)]
    /\ UNCHANGED <<asked, process, checking, up, chrome, note, market, history>>

----------------------------------------------------------------------------

Works(m) ==
    \/ StepBegins(m) \/ StepStops(m) \/ StepBreaks(m)
    \/ AnswerComes(m) \/ Refused(m) \/ ReadsBack(m)
    \/ AnswerLate(m) \/ ResultComes(m) \/ GivesUp(m)

Operates(m) == Claim(m) \/ Act(m) \/ Done(m)

NNext ==
    \/ \E m \in Markets :
        \/ \E kind \in {"list", "update", "save_draft"}, r \in Revs : Start(m, kind, r)
        \/ Works(m) \/ Operates(m) \/ Cancel(m)
        \/ CheckStarts(m) \/ Checked(m) \/ Reset(m) \/ MarkListed(m) \/ MarkNotListed(m)
        \/ LandsLate(m) \/ ListingEnds(m) \/ DraftGone(m) \/ Sweep(m)
    \/ Dies \/ Crash \/ Disconnects \/ Reconnects

NSpec == NInit /\ [][NNext]_nvars

\* The event loop goes on with a job that can go on: every wait has a limit.
\* Chrome reads its socket, and an API's request ends.
NFairSpec ==
    /\ NSpec
    /\ \A m \in Markets : WF_nvars(Works(m)) /\ WF_nvars(Operates(m))

----------------------------------------------------------------------------
(* Properties.                                                             *)

\* The item never has two listings live on a marketplace, whatever was lost, cut
\* off or done late; through Chrome, unless the seller looked while the item was
\* still being posted.
OneLive == \A m \in Markets \ (early \cap Chrome) : live[m] <= 1

\* A record from which List can start again means that nothing is live there,
\* unless the seller looked, or an API was read, while the item was still being
\* posted.
RestsWhenNothingIsLive ==
    \A m \in Markets \ (early \cup slow) : rec[m].state \in Resting => live[m] = 0

\* A record that says the item is listed is right until that listing ended.
ListedIsLive ==
    \A m \in Markets \ ended : rec[m].state = "published" => live[m] > 0

\* Every job comes to its end, and gives its marketplace back.
JobEnds == \A m \in Markets : []<>(worker[m] = "none")
=============================================================================
