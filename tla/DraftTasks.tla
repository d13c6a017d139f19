------------------------------ MODULE DraftTasks ------------------------------
(***************************************************************************)
(* The hosted draft queue.  A seller submits a draft to be generated or    *)
(* chatted about; a worker on one of several machines claims the task,     *)
(* holds it on a lease it renews, and writes the draft and the task's      *)
(* events in transactions that check the lease again.  The seller watches  *)
(* the events, saves the draft while no task has it, and may stop a task.  *)
(*                                                                         *)
(* The database is PostgreSQL at READ COMMITTED: one transaction that only *)
(* waits at its start is one action; one that reads before it waits, or    *)
(* holds a row while it waits for another, is split there.                 *)
(***************************************************************************)
EXTENDS Naturals, Sequences, FiniteSets

CONSTANTS
    Workers,     \* worker loops, each on its machine
    Drafts,
    NoDraft,
    MaxTasks,    \* bound: tasks ever submitted
    MaxWrites,   \* bound: editions of a draft
    MaxEvents,   \* bound: events of a task
    Viewed,      \* bound: tasks that write events and may be watched
    MaxCrashes,  \* bound: machines that stop while they work
    Page,        \* the 200 events one poll reads
    Faults       \* bound: which other faults occur, of FaultKinds

FaultKinds == {"stall", "database"}

ASSUME DraftConstants ==
    /\ NoDraft \notin Drafts
    /\ MaxTasks \in Nat /\ MaxWrites \in Nat /\ MaxEvents \in Nat /\ MaxCrashes \in Nat
    /\ Page \in Nat \ {0}
    /\ 0 \notin Workers
    /\ Viewed \subseteq 1 .. MaxTasks
    /\ Faults \subseteq FaultKinds

Tasks == 1 .. MaxTasks     \* in the order of created_at
NoTask == 0
Seller == 0

VARIABLES
    \* The database.
    status,      \* of a task; "new" before it is submitted
    on,          \* its draft
    lease,       \* "none", "live", or "past" once leased_until is over
    base,        \* the edition its payload was made from
    label,       \* a draft's status
    log,         \* who wrote each edition of a draft
    events,      \* rows in background_task_events
    \* Sellers' requests under way.
    stop,        \* tasks a stop read as active; it holds the draft's row
    watch,       \* the task a viewer's stream is about
    seen,        \* its poll: "idle", or the status it read
    got,         \* events the viewer has
    done,        \* the viewer was told [DONE]
    \* Workers.
    loop,        \* "up", "crashed", or "ended" by an exception
    serving,     \* the task in hand
    sweep,       \* a claim's snapshot: expired tasks, drafts in progress
    by,          \* who claimed a task
    started,     \* _execute is past its check and goes on
    fin,         \* finish of the task in hand: "no", begun while the lease was
                 \* "fresh" or too "late", or it "has" the task's row
    out,         \* the status it is to set
    txn,         \* a task's transaction: "none", "write" or "events"
    fresh,       \* it began while the lease was live: now() is its start
    locked,      \* it holds the task's row
    \* History.
    crashes,
    stranded     \* drafts whose label a sweep left behind

tables  == <<status, on, lease, base, label, log, events>>
viewing == <<watch, seen, got, done>>
running == <<loop, serving, sweep, by, started>>
ending  == <<fin, out>>
saving  == <<txn, fresh, locked>>
past    == <<crashes, stranded>>
dvars == <<status, on, lease, base, label, log, events, stop, watch, seen, got, done,
           loop, serving, sweep, by, started, fin, out, txn, fresh, locked, crashes, stranded>>

Active == {"queued", "running"}
Ended  == {"completed", "failed", "cancelled"}

TasksTypeOK ==
    /\ status \in [Tasks -> Active \cup Ended \cup {"new"}]
    /\ on \in [Tasks -> Drafts \cup {NoDraft}]
    /\ lease \in [Tasks -> {"none", "live", "past"}]
    /\ base \in [Tasks -> Nat]
    /\ label \in [Drafts -> {"draft", "in_progress"}]
    /\ log \in [Drafts -> Seq(Tasks \cup {Seller})]
    /\ events \in [Tasks -> Nat]
    /\ stop \in [Drafts -> SUBSET Tasks]
    /\ watch \in Tasks \cup {NoTask}
    /\ seen \in Active \cup Ended \cup {"idle"}
    /\ got \in Nat
    /\ done \in BOOLEAN
    /\ loop \in [Workers -> {"up", "crashed", "ended"}]
    /\ serving \in [Workers -> Tasks \cup {NoTask}]
    /\ sweep \in [Workers -> [open : BOOLEAN, tasks : SUBSET Tasks, drafts : SUBSET Drafts]]
    /\ by \in [Tasks -> Workers \cup {0}]
    /\ started \in [Workers -> BOOLEAN]
    /\ fin \in [Workers -> {"no", "fresh", "late", "has"}]
    /\ out \in [Workers -> {"completed", "failed"}]
    /\ txn \in [Tasks -> {"none", "write", "events"}]
    /\ fresh \in [Tasks -> BOOLEAN]
    /\ locked \in [Tasks -> BOOLEAN]
    /\ crashes \in Nat
    /\ stranded \in SUBSET Drafts

NoSweep == [open |-> FALSE, tasks |-> {}, drafts |-> {}]

DInit ==
    /\ status = [t \in Tasks |-> "new"]
    /\ on = [t \in Tasks |-> NoDraft]
    /\ lease = [t \in Tasks |-> "none"]
    /\ base = [t \in Tasks |-> 0]
    /\ label = [d \in Drafts |-> "draft"]
    /\ log = [d \in Drafts |-> <<>>]
    /\ events = [t \in Tasks |-> 0]
    /\ stop = [d \in Drafts |-> {}]
    /\ watch = NoTask /\ seen = "idle" /\ got = 0 /\ done = FALSE
    /\ loop = [w \in Workers |-> "up"]
    /\ serving = [w \in Workers |-> NoTask]
    /\ sweep = [w \in Workers |-> NoSweep]
    /\ by = [t \in Tasks |-> 0]
    /\ started = [w \in Workers |-> FALSE]
    /\ fin = [w \in Workers |-> "no"] /\ out = [w \in Workers |-> "completed"]
    /\ txn = [t \in Tasks |-> "none"]
    /\ fresh = [t \in Tasks |-> FALSE] /\ locked = [t \in Tasks |-> FALSE]
    /\ crashes = 0
    /\ stranded = {}

\* The row of a task that a finish has, or a save or an append_events of its worker.
Finishing(t) == \E w \in Workers : serving[w] = t /\ fin[w] = "has"
RowTaken(t)  == locked[t] \/ Finishing(t)

ActiveOn(d) == {t \in Tasks : on[t] = d /\ status[t] \in Active}

\* require_idle, once it has the draft's row: no stop has it.
Idle(d) == stop[d] = {} /\ ActiveOn(d) = {}

\* Mutant: a label no draft has.
NoLabel(d) == [label EXCEPT ![d] = "cancelled"]

\* What cancel and finish make of the labels.
Drafted(d) == [label EXCEPT ![d] = "draft"]

----------------------------------------------------------------------------
(* The seller.                                                             *)

\* Mutant: enqueue does not look for an active task.
SubmitUnchecked(d, t) ==
    /\ \E w \in Workers : loop[w] = "up"
    /\ status[t] = "new" /\ \A u \in 1 .. t - 1 : status[u] # "new"
    /\ status' = [status EXCEPT ![t] = "queued"]
    /\ on' = [on EXCEPT ![t] = d]
    /\ base' = [base EXCEPT ![t] = Len(log[d])]
    /\ UNCHANGED <<lease, label, log, events, stop, viewing, running, ending, saving, past>>

\* submit: require_idle, then enqueue.  The photos and the notes were read
\* before that, maybe long before, so the payload may be of an earlier edition.
Submit(d, t) ==
    /\ \E w \in Workers : loop[w] = "up"
    /\ Idle(d)
    /\ status[t] = "new" /\ \A u \in 1 .. t - 1 : status[u] # "new"
    /\ status' = [status EXCEPT ![t] = "queued"]
    /\ on' = [on EXCEPT ![t] = d]
    /\ \E b \in 0 .. Len(log[d]) : base' = [base EXCEPT ![t] = b]
    /\ UNCHANGED <<lease, label, log, events, stop, viewing, running, ending, saving, past>>

\* Mutant: a manual save takes no notice of tasks.
SaveUnlocked(d) ==
    /\ Len(log[d]) < MaxWrites
    /\ log' = [log EXCEPT ![d] = Append(@, Seller)]
    /\ UNCHANGED <<status, on, lease, base, label, events, stop, viewing, running, ending, saving, past>>

\* A manual save, whichever of the editor's routes it takes.
Save(d) ==
    /\ Idle(d)
    /\ Len(log[d]) < MaxWrites
    /\ log' = [log EXCEPT ![d] = Append(@, Seller)]
    /\ UNCHANGED <<status, on, lease, base, label, events, stop, viewing, running, ending, saving, past>>

\* stop: owned_conversation locks the draft, and the active tasks are read.
StopReads(d) ==
    /\ stop[d] = {}
    /\ ActiveOn(d) # {}
    /\ stop' = [stop EXCEPT ![d] = ActiveOn(d)]
    /\ UNCHANGED <<tables, viewing, running, ending, saving, past>>

\* queue.cancel waits for the task's row, and then goes by the status it read
\* before: a task that ended in between is relabelled.
StopCancels(d) ==
    /\ stop[d] # {}
    /\ \A t \in stop[d] : ~RowTaken(t)
    /\ status' = [t \in Tasks |-> IF t \in stop[d] THEN "cancelled" ELSE status[t]]
    /\ lease' = [t \in Tasks |-> IF t \in stop[d] THEN "none" ELSE lease[t]]
    /\ label' = Drafted(d)
    /\ stop' = [stop EXCEPT ![d] = {}]
    /\ UNCHANGED <<on, base, log, events, viewing, running, ending, saving, past>>

\* A viewer's stream begins, with submit or with a generate that finds the task.
Watch(t) ==
    /\ watch = NoTask /\ t \in Viewed /\ status[t] # "new"
    /\ watch' = t
    /\ UNCHANGED <<tables, stop, seen, got, done, running, ending, saving, past>>

\* task_stream.poll reads the task, and then its rows.
PollStatus ==
    /\ watch # NoTask /\ ~done /\ seen = "idle"
    /\ seen' = status[watch]
    /\ UNCHANGED <<tables, stop, watch, got, done, running, ending, saving, past>>

Rows == IF events[watch] - got < Page THEN events[watch] - got ELSE Page

\* A full page is followed by another poll before [DONE] is considered.
PollRows ==
    /\ seen # "idle"
    /\ got' = got + Rows
    /\ done' = (Rows < Page /\ seen \notin Active)
    /\ seen' = "idle"
    /\ UNCHANGED <<tables, stop, watch, running, ending, saving, past>>

----------------------------------------------------------------------------
(* Claiming.                                                               *)

\* claim_background_task, with the snapshot its first statement took: it fails
\* what expired, gives the drafts back that it saw in progress, and takes the
\* oldest task that is queued.
Claims(w, expired, drafts) ==
    LET freed == {on[t] : t \in expired} \cap drafts
        next  == {t \in Tasks : /\ status[t] = "queued"
                                /\ \A u \in 1 .. t - 1 : status[u] # "queued"}
    IN
    /\ \A t \in expired : ~RowTaken(t)
    /\ \A d \in freed : stop[d] = {}
    /\ status' = [t \in Tasks |-> IF t \in expired THEN "failed"
                                  ELSE IF t \in next THEN "running" ELSE status[t]]
    /\ lease' = [t \in Tasks |-> IF t \in expired THEN "none"
                                 ELSE IF t \in next THEN "live" ELSE lease[t]]
    /\ by' = [t \in Tasks |-> IF t \in next THEN w ELSE by[t]]
    /\ \/ next = {} /\ UNCHANGED serving
       \/ \E t \in next : serving' = [serving EXCEPT ![w] = t]
    /\ label' = [d \in Drafts |-> IF d \in freed THEN "draft" ELSE label[d]]
    /\ stranded' = stranded \cup
           {d \in Drafts \ drafts : label[d] = "in_progress" /\ \E t \in expired : on[t] = d}
    /\ UNCHANGED <<on, base, log, events, stop, viewing, loop, started, ending, saving, crashes>>

\* Mutant: nothing is ever overdue.
NothingOverdue == {}

Overdue == {t \in Tasks : status[t] = "running" /\ lease[t] = "past"}
InProgress == {d \in Drafts : label[d] = "in_progress"}
Polls(w) == loop[w] = "up" /\ serving[w] = NoTask /\ ~sweep[w].open

Claim(w) == Polls(w) /\ Claims(w, Overdue, InProgress) /\ UNCHANGED sweep

\* A writer or a finish has the row of an expired task: the claim waits with its snapshot,
\* and its update of the drafts goes by that although the writer moved on.
ClaimWaits(w) ==
    /\ Polls(w)
    /\ \E t \in Overdue : RowTaken(t)
    /\ sweep' = [sweep EXCEPT ![w] = [open |-> TRUE, tasks |-> Overdue, drafts |-> InProgress]]
    /\ UNCHANGED <<tables, stop, viewing, loop, serving, by, started, ending, saving, past>>

ClaimResumes(w) ==
    /\ sweep[w].open
    /\ Claims(w, sweep[w].tasks \cap Overdue, sweep[w].drafts)
    /\ sweep' = [sweep EXCEPT ![w] = NoSweep]

----------------------------------------------------------------------------
(* Working: _execute and run_claimed.                                      *)

\* The lease as a transaction of the worker's sees it that begins now.
Held(t) == status[t] = "running" /\ lease[t] = "live"

\* _execute's check of the lease, the edition and the inputs.
Start(w, t) ==
    /\ serving[w] = t /\ ~started[w] /\ fin[w] = "no"
    /\ ~RowTaken(t) /\ Held(t)
    /\ base[t] = Len(log[on[t]])
    /\ started' = [started EXCEPT ![w] = TRUE]
    /\ UNCHANGED <<tables, stop, viewing, loop, serving, sweep, by, ending, saving, past>>

\* A session of the task's opens; a thread of append_events does the same.  The
\* work goes on while a finish with the error is under way.
Begin(w, t, kind) ==
    /\ serving[w] = t /\ started[w] /\ txn[t] = "none"
    /\ kind = "write" => Len(log[on[t]]) < MaxWrites
    /\ kind = "events" => t \in Viewed /\ events[t] < MaxEvents
    /\ txn' = [txn EXCEPT ![t] = kind]
    /\ fresh' = [fresh EXCEPT ![t] = lease[t] = "live"]
    /\ UNCHANGED <<tables, stop, viewing, running, ending, locked, past>>

\* Mutant: an expired or cancelled lease is not looked at.
TakeRowAnyway(t) ==
    /\ txn[t] # "none" /\ ~RowTaken(t)
    /\ locked' = [locked EXCEPT ![t] = TRUE] /\ fresh' = [fresh EXCEPT ![t] = FALSE]
    /\ UNCHANGED <<tables, stop, viewing, running, ending, txn, past>>

\* check_write_lease, in the writing transaction: it now has the task's row.
TakeRow(t) ==
    /\ txn[t] # "none" /\ ~RowTaken(t)
    /\ status[t] = "running" /\ fresh[t]
    /\ locked' = [locked EXCEPT ![t] = TRUE] /\ fresh' = [fresh EXCEPT ![t] = FALSE]
    /\ UNCHANGED <<tables, stop, viewing, running, ending, txn, past>>

\* TaskLeaseExpired.
Refused(t) ==
    /\ txn[t] # "none" /\ ~locked[t]
    /\ ~(status[t] = "running" /\ fresh[t])
    /\ txn' = [txn EXCEPT ![t] = "none"] /\ fresh' = [fresh EXCEPT ![t] = FALSE]
    /\ UNCHANGED <<tables, stop, viewing, running, ending, locked, past>>

\* A save commits; generation and chat set the draft's label both ways.
CommitWrite(t, to) ==
    /\ locked[t] /\ txn[t] = "write"
    /\ stop[on[t]] = {}
    /\ log' = [log EXCEPT ![on[t]] = Append(@, t)]
    /\ label' = [label EXCEPT ![on[t]] = to]
    /\ txn' = [txn EXCEPT ![t] = "none"] /\ locked' = [locked EXCEPT ![t] = FALSE]
    /\ UNCHANGED <<status, on, lease, base, events, stop, viewing, running, ending, fresh, past>>

\* append_events commits one more row.
CommitEvents(t) ==
    /\ locked[t] /\ txn[t] = "events"
    /\ events' = [events EXCEPT ![t] = @ + 1]
    /\ txn' = [txn EXCEPT ![t] = "none"] /\ locked' = [locked EXCEPT ![t] = FALSE]
    /\ UNCHANGED <<status, on, lease, base, label, log, stop, viewing, running, ending, fresh, past>>

\* A stop has the draft's row and waits for the task's; the task's writer the
\* other way round.  PostgreSQL aborts one of the two.
DeadlockWrite(t) ==
    /\ locked[t] /\ txn[t] = "write"
    /\ stop[on[t]] # {}
    /\ txn' = [txn EXCEPT ![t] = "none"] /\ locked' = [locked EXCEPT ![t] = FALSE]
    /\ UNCHANGED <<tables, stop, viewing, running, ending, fresh, past>>

\* So do a finish, and a claim that fails an expired task, once they come to a
\* draft that is in progress; an aborted claim is tried again.
DeadlockStop(d) ==
    /\ \E t \in stop[d] :
          \/ locked[t] /\ txn[t] = "write"
          \/ label[d] = "in_progress" /\ Finishing(t)
          \/ label[d] = "in_progress" /\ t \in Overdue /\ \E w \in Workers : Polls(w)
    /\ stop' = [stop EXCEPT ![d] = {}]
    /\ UNCHANGED <<tables, viewing, running, ending, saving, past>>

\* finish begins its transaction, when the work is done, or with the error when
\* the work or the heartbeat failed.  Threads of append_events may still run.
FinishBegins(w, t, outcome) ==
    /\ serving[w] = t /\ fin[w] = "no"
    /\ outcome = "completed" => started[w] /\ txn[t] = "none"
    /\ started' = [started EXCEPT ![w] = outcome = "failed" /\ started[w]]
    /\ fin' = [fin EXCEPT ![w] = IF lease[t] = "live" THEN "fresh" ELSE "late"]
    /\ out' = [out EXCEPT ![w] = outcome]
    /\ UNCHANGED <<tables, stop, viewing, loop, serving, sweep, by, saving, past>>

\* The first update has the task's row.
FinishTakes(w, t) ==
    /\ serving[w] = t /\ fin[w] = "fresh"
    /\ ~RowTaken(t) /\ status[t] = "running"
    /\ fin' = [fin EXCEPT ![w] = "has"]
    /\ UNCHANGED <<tables, stop, viewing, running, out, saving, past>>

\* The loop is done with the task, and claims the next one if it goes on.
LetsGo(w) ==
    /\ serving' = [serving EXCEPT ![w] = NoTask]
    /\ started' = [started EXCEPT ![w] = FALSE]
    /\ fin' = [fin EXCEPT ![w] = "no"] /\ out' = [out EXCEPT ![w] = "completed"]
    /\ UNCHANGED <<stop, viewing, sweep, by, saving, past>>

\* TaskLeaseExpired, which a finish with the error would meet again.
FinishRefused(w, t) ==
    /\ serving[w] = t
    /\ fin[w] = "late" \/ (fin[w] = "fresh" /\ status[t] # "running")
    /\ LetsGo(w)
    /\ UNCHANGED <<tables, loop>>

\* Mutant: finish leaves the draft as the work labelled it.
FinishKeepsLabel(w, t) ==
    /\ serving[w] = t /\ fin[w] = "has"
    /\ status' = [status EXCEPT ![t] = out[w]]
    /\ lease' = [lease EXCEPT ![t] = "none"]
    /\ LetsGo(w)
    /\ UNCHANGED <<on, base, label, log, events, loop>>

\* The second update, of a draft in progress, waits for a stop that has its row.
FinishCommits(w, t) ==
    /\ serving[w] = t /\ fin[w] = "has"
    /\ label[on[t]] = "in_progress" => stop[on[t]] = {}
    /\ status' = [status EXCEPT ![t] = out[w]]
    /\ lease' = [lease EXCEPT ![t] = "none"]
    /\ label' = Drafted(on[t])
    /\ LetsGo(w)
    /\ UNCHANGED <<on, base, log, events, loop>>

\* finish raises: that stop waits for the task's row and PostgreSQL aborts the
\* finish, or the database is away.  What failed to complete is finished with
\* the error; nothing in serve catches what that raises, and the machine stays up.
FinishAborts(w, t) ==
    /\ serving[w] = t /\ fin[w] # "no"
    /\ \/ fin[w] = "has" /\ label[on[t]] = "in_progress" /\ t \in stop[on[t]]
       \/ "database" \in Faults
    /\ IF out[w] = "completed"
       THEN /\ fin' = [fin EXCEPT ![w] = IF lease[t] = "live" THEN "fresh" ELSE "late"]
            /\ out' = [out EXCEPT ![w] = "failed"]
            /\ UNCHANGED <<stop, viewing, running, saving, past>>
       ELSE /\ loop' = [loop EXCEPT ![w] = "ended"]
            /\ LetsGo(w)
    /\ UNCHANGED tables

----------------------------------------------------------------------------
(* Time and machines.                                                      *)

\* Two minutes without a renewal: the worker is gone, or it hangs.
LeaseRunsOut(t) ==
    /\ lease[t] = "live"
    /\ serving[by[t]] # t \/ "stall" \in Faults
    /\ lease' = [lease EXCEPT ![t] = "past"]
    /\ UNCHANGED <<status, on, base, label, log, events, stop, viewing, running, ending, saving, past>>

\* A machine stops: the open transactions of its tasks roll back.
Crash(w) ==
    /\ loop[w] # "crashed" /\ crashes < MaxCrashes
    /\ crashes' = crashes + 1
    /\ loop' = [loop EXCEPT ![w] = "crashed"]
    /\ serving' = [serving EXCEPT ![w] = NoTask]
    /\ started' = [started EXCEPT ![w] = FALSE]
    /\ fin' = [fin EXCEPT ![w] = "no"] /\ out' = [out EXCEPT ![w] = "completed"]
    /\ sweep' = [sweep EXCEPT ![w] = NoSweep]
    /\ txn' = [t \in Tasks |-> IF by[t] = w THEN "none" ELSE txn[t]]
    /\ locked' = [t \in Tasks |-> IF by[t] = w THEN FALSE ELSE locked[t]]
    /\ fresh' = [t \in Tasks |-> IF by[t] = w THEN FALSE ELSE fresh[t]]
    /\ UNCHANGED <<tables, stop, viewing, by, stranded>>

Restart(w) ==
    /\ loop[w] = "crashed"
    /\ loop' = [loop EXCEPT ![w] = "up"]
    /\ UNCHANGED <<tables, stop, viewing, serving, sweep, by, started, ending, saving, past>>

----------------------------------------------------------------------------

Commits(t) == CommitEvents(t) \/ \E to \in {"draft", "in_progress"} : CommitWrite(t, to)
Works(w, t) ==
    \/ Start(w, t)
    \/ \E kind \in {"write", "events"} : Begin(w, t, kind)
Ends(w, t)   == \E outcome \in {"completed", "failed"} : FinishBegins(w, t, outcome)
Settles(w, t) == FinishTakes(w, t) \/ FinishRefused(w, t)
Finishes(w, t) == FinishCommits(w, t) \/ FinishAborts(w, t)

DNext ==
    \/ PollStatus \/ PollRows
    \/ \E d \in Drafts :
        \/ Save(d) \/ StopReads(d) \/ StopCancels(d) \/ DeadlockStop(d)
        \/ \E t \in Tasks : Submit(d, t)
    \/ \E t \in Tasks :
        \/ Watch(t)
        \/ TakeRow(t) \/ Refused(t) \/ Commits(t) \/ DeadlockWrite(t)
        \/ LeaseRunsOut(t)
        \/ \E w \in Workers : Works(w, t) \/ Ends(w, t) \/ Settles(w, t) \/ Finishes(w, t)
    \/ \E w \in Workers :
        \/ Claim(w) \/ ClaimWaits(w) \/ ClaimResumes(w)
        \/ Crash(w) \/ Restart(w)

DSpec == DInit /\ [][DNext]_dvars

\* The loops poll, transactions end, work ends by its time limits, time passes,
\* and a machine that stopped is started.  PostgreSQL queues who waits for a
\* row, so a claim and a finish are not overtaken for ever.
DFairSpec ==
    /\ DSpec
    /\ \A w \in Workers :
        /\ SF_dvars(Claim(w)) /\ SF_dvars(ClaimResumes(w)) /\ WF_dvars(Restart(w))
        /\ WF_dvars(\E t \in Tasks : Ends(w, t))
        /\ SF_dvars(\E t \in Tasks : Settles(w, t))
        /\ WF_dvars(\E t \in Tasks : Finishes(w, t))
    /\ \A t \in Tasks :
        /\ WF_dvars(TakeRow(t) \/ Refused(t))
        /\ WF_dvars(Commits(t) \/ DeadlockWrite(t))
        /\ WF_dvars(LeaseRunsOut(t) /\ serving[by[t]] # t)
    /\ \A d \in Drafts : WF_dvars(StopCancels(d) \/ DeadlockStop(d))

----------------------------------------------------------------------------
(* Properties.                                                             *)

\* Between the edition a task was given and its last write, nobody else has
\* written the draft: no seller's save is lost under a task's, and a task that
\* was stopped or given up never writes over what came after it.
OwnDraft ==
    \A d \in Drafts : \A i \in DOMAIN log[d] :
        LET t == log[d][i] IN
        t # Seller => \A j \in base[t] + 1 .. i : log[d][j] = t

\* A draft no task has is one the seller sees among the drafts and may save,
\* unless a sweep waited for the write that labelled it.
IdleIsEditable ==
    \A d \in Drafts : ActiveOn(d) = {} /\ label[d] = "in_progress" => d \in stranded

\* A viewer who was told [DONE] has every event the task will ever have.
DoneHasAll == done => got = events[watch]

\* Every task that was submitted is over some time, or the loop of every machine
\* has ended in a failed finish: nothing waits in the queue, and no task keeps its
\* draft from the seller for ever, also when the loop that had it ended.
TaskEnds ==
    \A t \in Tasks :
        status[t] \in Active ~> status[t] \in Ended \/ \A w \in Workers : loop[w] = "ended"

\* Whose turn it is: the task's from its submission to its end.
TurnOf(d) == IF ActiveOn(d) = {} THEN Seller ELSE CHOOSE t \in ActiveOn(d) : TRUE

Turns == INSTANCE DraftTurns WITH
    turn <- [d \in Drafts |-> TurnOf(d)],
    had <- {t \in Tasks : status[t] # "new"}

\* The queue implements turns at writing a draft.
TurnsSpec == Turns!Spec
=============================================================================
