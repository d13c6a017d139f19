------------------------------ MODULE SendQueue ------------------------------
(***************************************************************************)
(* The automation slot of the Studio server: jobs waiting in the Send      *)
(* queue, the one that holds Chrome, and everybody who writes a job's      *)
(* status -- request handlers, the worker of a send, the dispatcher, the   *)
(* watchdog, a Chrome reconnect, an app update and a crash.                *)
(*                                                                         *)
(* Request handlers, workers and reconnects run on one asyncio loop, so a  *)
(* stretch of their code without an await is one step.  _next_dispatch and *)
(* fail_stalled_jobs run in threads: they read a job, and write it later   *)
(* from the object they read.  The synchronous end of a worker is cut into *)
(* the commits (tail) such a thread can come between.                      *)
(***************************************************************************)
EXTENDS Naturals, FiniteSets

CONSTANTS
    Listings,     \* conversations a send can be about
    Imported,     \* those that are bound to a Vendoo draft from the start
    Markets,      \* marketplaces a direct (native) action can be on
    NoListing,    \* conversation of a job that does not exist yet
    MaxJobs,      \* bound: jobs ever created
    Happens,      \* bound: which requests and faults occur, of EventKinds
    MaxTorn       \* bound: crashes between the two commits of a requeue

EventKinds == {"enqueue", "now", "native", "cancel", "update", "poll",
               "held", "drop", "flap", "crash"}

ASSUME BoundsAssumption ==
    /\ MaxJobs \in Nat \ {0}
    /\ MaxTorn \in Nat
    /\ Happens \subseteq EventKinds
ASSUME NamesAssumption ==
    /\ NoListing \notin Listings
    /\ Imported \subseteq Listings
    /\ Markets \cap {"none", "api", "exclusive", "free"} = {}

VARIABLES
    \* Rows of the jobs table and their events; they survive a crash.
    status,       \* Job.status
    step,         \* what Job.current_step says the job does
    err,          \* Job.last_error: one of INTERRUPTED_SEND_ERRORS, or any other or none
    conv,         \* Job.conversation_id
    edits,        \* jobs with a vendoo_item_id: they save, the others create
    retried,      \* jobs with a vendoo_api_auto_retry event
    bound,        \* conversations whose notes name a Vendoo draft
    made,         \* how many jobs were created; jobs are numbered by created_at
    \* Memory of the process.
    live,         \* _live_api_job_ids
    worker,       \* the coroutine working on a job, and who runs it
    tail,         \* the synchronous end of a worker, on the loop
    disp,         \* the _next_dispatch thread
    kick,         \* a dispatch_queued_jobs() call waits for _dispatch_lock
    wd,           \* the fail_stalled_jobs thread
    conn,         \* the extension's socket
    \* Counters: how often each send was put back, and the torn requeues.
    resumes, torn

rows  == <<status, step, err, conv, edits, retried, bound, made>>
procs == <<live, worker, tail, disp, kick, wd, conn>>
count == <<resumes, torn>>
vars  == <<status, step, err, conv, edits, retried, bound, made,
           live, worker, tail, disp, kick, wd, conn,
           resumes, torn>>

Jobs      == 1 .. MaxJobs
\* Mutants: a misspelt status, and "cancelled" missing from the terminal ones.
TerminalMisspelt == {"completed", "canceled", "failed"}
TerminalWithoutCancelled == {"completed", "failed"}
Terminal  == {"completed", "cancelled", "failed"}
Statuses  == {"none", "queued", "dispatched"} \cup Terminal
Steps     == {"none", "api", "exclusive"} \cup Markets
Native    == {"exclusive"} \cup Markets

End(j, at, then) == [job |-> j, at |-> at, then |-> then]
Disp(j, at)      == [job |-> j, at |-> at]
Sweep(j, at)     == [job |-> j, at |-> at, kind |-> "api", quiet |-> 1]

NoEnd    == End(1, "idle", "done")
DispIdle == Disp(1, "idle")
WdIdle   == Sweep(1, "idle")

TypeOK ==
    /\ status \in [Jobs -> Statuses]
    /\ step \in [Jobs -> Steps]
    /\ err \in [Jobs -> {"interrupted", "other"}]
    /\ conv \in [Jobs -> Listings \cup {NoListing}]
    /\ edits \in SUBSET Jobs
    /\ retried \in SUBSET Jobs
    /\ bound \in SUBSET Listings
    /\ made \in 0 .. MaxJobs
    /\ live \in SUBSET Jobs
    /\ worker \in [Jobs -> {"none", "spawned", "run_send", "request", "native"}]
    /\ tail \in [job : Jobs, at : {"idle", "abandon", "release", "requeue", "except"},
                 then : {"done", "except", "again"}]
    /\ disp \in [job : Jobs, at : {"idle", "picked", "marked", "claimed"}]
    /\ kick \in {0, 1}
    /\ wd \in [job : Jobs, at : {"idle", "read", "dead", "after"},
               kind : {"api", "native"}, quiet : {1, 2}]
    /\ conn \in {"off", "settling", "on"}
    /\ resumes \in [Jobs -> Nat]
    /\ torn \in 0 .. MaxTorn

Init ==
    /\ status = [j \in Jobs |-> "none"]
    /\ step = [j \in Jobs |-> "none"]
    /\ err = [j \in Jobs |-> "other"]
    /\ conv = [j \in Jobs |-> NoListing]
    /\ edits = {} /\ retried = {} /\ live = {}
    /\ bound = Imported
    /\ made = 0
    /\ worker = [j \in Jobs |-> "none"]
    /\ tail = NoEnd /\ disp = DispIdle /\ wd = WdIdle
    /\ kick = 0
    /\ conn = "off"
    /\ resumes = [j \in Jobs |-> 0]
    /\ torn = 0

----------------------------------------------------------------------------
(* JobRepo: the queries and the writes everybody shares.                   *)

Running == {j \in Jobs : status[j] = "dispatched"}
Waiting == {j \in Jobs : status[j] = "queued"}
Active  == Running \cup Waiting

\* The loop runs one callback at a time; a worker's end is such a callback.
LoopFree == tail.at = "idle"

\* start_gate: check-and-claim of a new job.  Only the dispatcher's thread
\* keeps it from one step to the next.
GateOpen == disp.at # "marked"

\* The columns an UPDATE of job j sets.
Write(j, s, st, e) ==
    /\ status' = [status EXCEPT ![j] = s]
    /\ step' = [step EXCEPT ![j] = st]
    /\ err' = [err EXCEPT ![j] = e]

\* JobRepo.create.  A send of a bound listing carries its item id.
Create(c, s, st) ==
    LET j == made + 1 IN
    /\ made < MaxJobs
    /\ made' = j
    /\ Write(j, s, st, "other")
    /\ conv' = [conv EXCEPT ![j] = c]
    /\ edits' = IF st = "api" /\ c \in bound THEN edits \cup {j} ELSE edits
    /\ UNCHANGED bound

\* Mutant: the vendoo_api_auto_retry event is not looked at.
RequeueableAgain(s, e, st, j) == s = "failed" /\ e = "interrupted" /\ st = "api"

\* The conditions of requeue_interrupted_send, on the values it reads.
Requeueable(s, e, st, j) ==
    /\ s = "failed"
    /\ e = "interrupted"
    /\ st = "api"
    /\ j \notin retried

\* Mutant: the event is never added.
RequeueForgotten(j) ==
    IF Requeueable(status[j], err[j], step[j], j)
    THEN /\ Write(j, "queued", "api", "other")
         /\ resumes' = [resumes EXCEPT ![j] = @ + 1]
         /\ UNCHANGED retried
    ELSE UNCHANGED <<status, step, err, retried, resumes>>

\* requeue_interrupted_send: the row and then the event, in two commits.  Only
\* a crash between them tells them apart (CrashMidRequeue).
RequeueInterruptedSend(j) ==
    IF Requeueable(status[j], err[j], step[j], j)
    THEN /\ Write(j, "queued", "api", "other")
         /\ retried' = retried \cup {j}
         /\ resumes' = [resumes EXCEPT ![j] = @ + 1]
    ELSE UNCHANGED <<status, step, err, retried, resumes>>

----------------------------------------------------------------------------
(* Requests.                                                               *)

\* POST /api/jobs/send: approve a send of listing c.
EnqueueSend(c) ==
    /\ LoopFree /\ GateOpen
    /\ \A j \in Active : conv[j] # c
    /\ Create(c, "queued", "api")
    /\ kick' = 1
    /\ UNCHANGED <<retried, live, worker, tail, disp, wd, conn, count>>

\* POST vendoo-api/create or /save: the request is itself the worker.
SendNow(c) ==
    /\ LoopFree /\ GateOpen
    /\ \A j \in Active : conv[j] # c
    /\ Running = {}
    /\ Create(c, "dispatched", "api")
    /\ live' = live \cup {made + 1}
    /\ worker' = [worker EXCEPT ![made + 1] = "request"]
    /\ UNCHANGED <<retried, tail, disp, kick, wd, conn, count>>

\* Mutant: an action looks at its own marketplace only.
BlockedByOwnMarket(k) == \E j \in Active : step[j] = k

\* blocking_job: marketplace actions run side by side, one per marketplace;
\* a delist, a promotion or a page inspection wants nothing else active.
Blocked(k) ==
    IF k \in Markets THEN \E j \in Active : step[j] \notin Markets \ {k}
                     ELSE Active # {}

StartNative(c, k) ==
    /\ LoopFree /\ GateOpen
    /\ k \in Native
    /\ ~Blocked(k)
    /\ Create(c, "dispatched", k)
    /\ live' = live \cup {made + 1}
    /\ worker' = [worker EXCEPT ![made + 1] = "native"]
    /\ UNCHANGED <<retried, tail, disp, kick, wd, conn, count>>

\* POST /api/jobs/{id}/cancel.  A live direct action is only asked to stop;
\* FinishNative ends it.
CancelJob(j) ==
    /\ LoopFree
    /\ status[j] \notin {"none", "completed", "cancelled"}
    /\ IF step[j] \in Native
       THEN /\ j \notin live
            /\ status[j] \notin Terminal
            /\ Write(j, "cancelled", step[j], "other")
            /\ UNCHANGED kick
       ELSE /\ Write(j, "cancelled", "none", err[j])
            /\ kick' = 1
    /\ UNCHANGED <<conv, edits, retried, bound, made, live, worker, tail, disp, wd, conn, count>>

\* _cancel_leftover_jobs, before an app update replaces the program.
CancelLeftoverJobs ==
    /\ LoopFree
    /\ Active # {}
    /\ status' = [j \in Jobs |-> IF j \in Active THEN "cancelled" ELSE status[j]]
    /\ step' = [j \in Jobs |-> IF j \in Active THEN "none" ELSE step[j]]
    /\ err' = [j \in Jobs |-> IF j \in Active THEN "other" ELSE err[j]]
    /\ UNCHANGED <<conv, edits, retried, bound, made, procs, count>>

\* GET /api/jobs/queue: the interface polls, and each poll kicks the queue.
GetQueue ==
    /\ LoopFree
    /\ kick' = 1
    /\ UNCHANGED <<rows, live, worker, tail, disp, wd, conn, count>>

----------------------------------------------------------------------------
(* The dispatcher: dispatch_queued_jobs on the loop, _next_dispatch in a   *)
(* thread.                                                                 *)

\* The first reads of _next_dispatch: nothing runs, Chrome is connected, and
\* the oldest waiting job is taken as an object.  The kick comes to nothing
\* while Vendoo is switched off or its categories are being read.
NextDispatchPick ==
    /\ disp.at = "idle"
    /\ kick = 1
    /\ kick' = 0
    /\ \/ "held" \in Happens /\ UNCHANGED disp
       \/ IF Running = {} /\ Waiting # {} /\ conn # "off"
          THEN \E j \in Waiting :
                /\ \A i \in Waiting : j <= i
                /\ disp' = Disp(j, "picked")
          ELSE UNCHANGED disp
    /\ UNCHANGED <<rows, live, worker, tail, wd, conn, count>>

\* Mutant: the slot is not read again.
NextDispatchMarkUnchecked ==
    LET j == disp.job IN
    /\ disp.at = "picked"
    /\ worker[j] # "spawned"
    /\ Write(j, "dispatched", "api", err[j])
    /\ disp' = Disp(j, "marked")
    /\ UNCHANGED <<conv, edits, retried, bound, made, live, worker, tail, kick, wd, conn, count>>

\* Under start_gate: the slot is read again, the job is not.  update_status
\* writes from the object read by the pick, whatever the row holds by now.  A
\* run_send already spawned for the job is at the head of the loop's queue and
\* reads the row before a thread submitted after it comes to this commit.
NextDispatchMark ==
    LET j == disp.job IN
    /\ disp.at = "picked"
    /\ worker[j] # "spawned"
    /\ IF Running = {}
       THEN Write(j, "dispatched", "api", err[j]) /\ disp' = Disp(j, "marked")
       ELSE UNCHANGED <<status, step, err>> /\ disp' = DispIdle
    /\ UNCHANGED <<conv, edits, retried, bound, made, live, worker, tail, kick, wd, conn, count>>

\* claim_api_job, after the commit: on the loop a reconnect may have found the
\* job dispatched and not live, and queued it again.
NextDispatchClaim ==
    /\ disp.at = "marked"
    /\ live' = live \cup {disp.job}
    /\ disp' = Disp(disp.job, "claimed")
    /\ UNCHANGED <<rows, worker, tail, kick, wd, conn, count>>

\* Mutant: the task of run_send is never started.
SpawnForgotten ==
    /\ LoopFree
    /\ disp.at = "claimed"
    /\ disp' = DispIdle
    /\ UNCHANGED <<rows, live, worker, tail, kick, wd, conn, count>>

\* Back on the loop: spawn(run_send(job_id)).
SpawnRunSend ==
    /\ LoopFree
    /\ disp.at = "claimed"
    /\ worker' = [worker EXCEPT ![disp.job] = "spawned"]
    /\ disp' = DispIdle
    /\ UNCHANGED <<rows, live, tail, kick, wd, conn, count>>

----------------------------------------------------------------------------
(* The worker of a send: run_send for a queued one, the request handler    *)
(* for a direct one.                                                       *)

Sending(j) == worker[j] \in {"run_send", "request"}

\* A worker returns or raises: what is left is its synchronous end.
Ends(j, then) ==
    /\ worker' = [worker EXCEPT ![j] = "none"]
    /\ tail' = End(j, "abandon", then)

\* run_send starts: it returns when the job is not dispatched any more, and
\* refuses when the photos changed since the approval.
RunSend(j) ==
    /\ LoopFree
    /\ worker[j] = "spawned"
    /\ \/ /\ status[j] # "dispatched"
          /\ Ends(j, "done")
          /\ UNCHANGED <<status, step, err>>
       \/ /\ status[j] = "dispatched"
          /\ worker' = [worker EXCEPT ![j] = "run_send"]
          /\ UNCHANGED <<status, step, err, tail>>
       \/ /\ status[j] = "dispatched"
          /\ Write(j, "failed", step[j], "other")
          /\ Ends(j, "done")
    /\ UNCHANGED <<conv, edits, retried, bound, made, live, disp, kick, wd, conn, count>>

\* mark: the worker moves on to its next Chrome op, or to the model step.
\* update_status leaves a finished job alone, and mark then raises (SendFails).
Mark(j) ==
    /\ LoopFree
    /\ Sending(j)
    /\ status[j] \notin Terminal
    /\ Write(j, "dispatched", "api", err[j])
    /\ UNCHANGED <<conv, edits, retried, bound, made, live, worker, tail, disp, kick, wd, conn, count>>

\* What follows the first _finish_api_send of a worker that raised.
AfterRaise(j) ==
    IF worker[j] = "run_send" /\ j \notin edits THEN "except" ELSE "done"

\* The work raised: an op failed, timed out or was cancelled, or mark found the
\* job finished.  The handler fails a job that is still running, unless the
\* error says "cancelled": then it leaves the row as it is, and run_send's except
\* clause fails that of a save.
SendFails(j) ==
    /\ LoopFree
    /\ Sending(j)
    /\ \/ /\ status[j] \in Terminal \/ worker[j] = "request" \/ j \notin edits
          /\ UNCHANGED <<status, step, err>>
       \/ /\ status[j] \notin Terminal
          /\ Write(j, "failed", step[j], "other")
    /\ Ends(j, AfterRaise(j))
    /\ UNCHANGED <<conv, edits, retried, bound, made, live, disp, kick, wd, conn, count>>

\* The browser closed the request: the handler is cancelled where it waits and
\* leaves the row to _finish_api_send.
RequestCloses(j) ==
    /\ LoopFree
    /\ worker[j] = "request"
    /\ Ends(j, "done")
    /\ UNCHANGED <<rows, live, disp, kick, wd, conn, count>>

\* The last reply came.  A cancelled job raises; update_status completes a
\* running one and leaves one that was failed meanwhile.
SendCompletes(j) ==
    /\ LoopFree
    /\ Sending(j)
    /\ IF status[j] \in Terminal
       THEN UNCHANGED <<status, step, err, edits>>
       ELSE Write(j, "completed", "api", err[j]) /\ edits' = edits \cup {j}
    /\ bound' = IF status[j] = "cancelled" THEN bound ELSE bound \cup {conv[j]}
    /\ Ends(j, IF status[j] = "cancelled" THEN AfterRaise(j)
               ELSE IF worker[j] = "run_send" /\ j \notin edits THEN "again"
               ELSE "done")
    /\ UNCHANGED <<conv, retried, made, live, disp, kick, wd, conn, count>>

----------------------------------------------------------------------------
(* The synchronous end: _finish_api_send, once or twice, and run_send's    *)
(* except clause between them.                                             *)

\* abandon_api_job_if_still_running.
Abandon ==
    LET j == tail.job IN
    /\ tail.at = "abandon"
    /\ IF status[j] = "dispatched" /\ step[j] = "api"
       THEN Write(j, "failed", "api", "interrupted")
       ELSE UNCHANGED <<status, step, err>>
    /\ tail' = End(j, "release", tail.then)
    /\ UNCHANGED <<conv, edits, retried, bound, made, live, worker, disp, kick, wd, conn, count>>

Release ==
    /\ tail.at = "release"
    /\ live' = live \ {tail.job}
    /\ tail' = End(tail.job, "requeue", tail.then)
    /\ UNCHANGED <<rows, worker, disp, kick, wd, conn, count>>

\* What follows the exit: the except clause, the second _finish, or nothing.
AfterExit ==
    CASE tail.then = "except" -> End(tail.job, "except", "done")
      [] tail.then = "again"  -> End(tail.job, "abandon", "done")
      [] OTHER                -> NoEnd

\* Mutant: the queue is not kicked after a worker ends.
RequeueWithoutKick ==
    LET j == tail.job IN
    /\ tail.at = "requeue"
    /\ RequeueInterruptedSend(j)
    /\ tail' = AfterExit
    /\ UNCHANGED <<conv, edits, bound, made, live, worker, disp, kick, wd, conn, torn>>

RequeueAfterExit ==
    LET j == tail.job IN
    /\ tail.at = "requeue"
    /\ RequeueInterruptedSend(j)
    /\ tail' = AfterExit
    /\ kick' = 1
    /\ UNCHANGED <<conv, edits, bound, made, live, worker, disp, wd, conn, torn>>

\* run_send's except clause: "only a send still running is failed here".
RunSendExcept ==
    LET j == tail.job IN
    /\ tail.at = "except"
    /\ IF status[j] = "dispatched"
       THEN Write(j, "failed", step[j], "other")
       ELSE UNCHANGED <<status, step, err>>
    /\ tail' = End(j, "abandon", "done")
    /\ UNCHANGED <<conv, edits, retried, bound, made, live, worker, disp, kick, wd, conn, count>>

\* A direct action's worker ends its job, releases it and kicks the queue.  A
\* result check may also settle an earlier failed action on its marketplace.
FinishNative(j, s, settled) ==
    /\ LoopFree
    /\ worker[j] = "native"
    /\ settled \subseteq {i \in Jobs : status[i] = "failed" /\ step[i] = step[j]
                                       /\ step[j] \in Markets /\ conv[i] = conv[j]}
    /\ Cardinality(settled) <= 1
    /\ status' = [i \in Jobs |->
                    IF i = j /\ status[j] \notin Terminal THEN s
                    ELSE IF i \in settled THEN "completed" ELSE status[i]]
    /\ worker' = [worker EXCEPT ![j] = "none"]
    /\ live' = live \ {j}
    /\ kick' = 1
    /\ UNCHANGED <<step, err, conv, edits, retried, bound, made, tail, disp, wd, conn, count>>

----------------------------------------------------------------------------
(* The watchdog: fail_stalled_jobs in a thread, the rest of sweep on the   *)
(* loop.                                                                   *)

\* get_running and _last_heard: the job as it is now, and how long ago it was
\* heard from: past ORPHAN_GRACE (1) or past STALL_AFTER (2); a younger one is
\* passed over.  Time passes for a job that nothing is about to touch.  Every
\* Chrome op ends or records an event within STALL_AFTER; the model step of a
\* send need not.  Without a worker the first age decides already.
ReadRunning(j, quiet) ==
    /\ LoopFree
    /\ wd.at = "idle"
    /\ status[j] = "dispatched"
    /\ ~(disp.at \in {"marked", "claimed"} /\ disp.job = j)
    /\ worker[j] # "spawned"
    /\ quiet = 2 => Sending(j)
    /\ wd' = [job |-> j, at |-> "read", quiet |-> quiet,
              kind |-> IF step[j] \in Native THEN "native" ELSE "api"]
    /\ UNCHANGED <<rows, live, worker, tail, disp, kick, conn, count>>

\* The verdict on what was read: dead, silent, or left alone.  update_status
\* writes from the object read, so it does not see that the job ended since.
FailStalled ==
    LET j == wd.job
        isLive == j \in live
    IN
    /\ wd.at = "read"
    /\ IF wd.kind = "native"
       THEN IF isLive
            THEN UNCHANGED <<status, step, err>> /\ wd' = WdIdle
            ELSE Write(j, "failed", step[j], "other") /\ wd' = Sweep(1, "after")
       ELSE IF ~isLive
            THEN Write(j, "failed", step[j], "interrupted") /\ wd' = Sweep(j, "dead")
            ELSE IF wd.quiet = 2
            THEN Write(j, "failed", step[j], "other") /\ wd' = Sweep(1, "after")
            ELSE UNCHANGED <<status, step, err>> /\ wd' = WdIdle
    /\ UNCHANGED <<conv, edits, retried, bound, made, live, worker, tail, disp, kick, conn, count>>

\* "Nothing in this process runs it, so resuming cannot double up."
ResumeDead ==
    /\ wd.at = "dead"
    /\ RequeueInterruptedSend(wd.job)
    /\ wd' = Sweep(1, "after")
    /\ UNCHANGED <<conv, edits, bound, made, live, worker, tail, disp, kick, conn, torn>>

\* sweep, back on the loop: the failed job's waits are cancelled, which only
\* hastens SendFails, and the queue is kicked.
SweepEnds ==
    /\ LoopFree
    /\ wd.at = "after"
    /\ wd' = WdIdle
    /\ kick' = 1
    /\ UNCHANGED <<rows, live, worker, tail, disp, conn, count>>

----------------------------------------------------------------------------
(* Chrome's socket, and the process.                                       *)

\* Mutant: a reconnect also queues the sends a worker here still runs.
ResumableAnyway(j) == j \notin retried

\* A send no worker here runs, that was not resumed before.
Resumable(j) == j \notin live \cup retried

\* requeue_interrupted and _resume_interrupted_sends: every send that was
\* running is failed, and queued again unless a worker here still runs it.
ReconnectWork ==
    LET cut     == {j \in Running : ~(step[j] \in Native /\ j \in live)}
        sends   == {j \in cut : step[j] = "api"}
        resumed == {j \in sends : Resumable(j)}
    IN
    /\ status' = [j \in Jobs |-> IF j \in resumed THEN "queued"
                                 ELSE IF j \in cut THEN "failed" ELSE status[j]]
    /\ err' = [j \in Jobs |-> IF j \in resumed THEN "other"
                              ELSE IF j \in sends THEN "interrupted"
                              ELSE IF j \in cut THEN "other" ELSE err[j]]
    /\ retried' = retried \cup resumed
    /\ resumes' = [j \in Jobs |-> IF j \in resumed THEN resumes[j] + 1 ELSE resumes[j]]
    /\ kick' = 1
    /\ UNCHANGED step

\* An accepted pairing.  One too soon after the last is a flap: its reconnect
\* work is held until it has settled.
AfterPairing(flap) ==
    /\ LoopFree
    /\ conn = "off"
    /\ IF flap
       THEN /\ conn' = "settling"
            /\ UNCHANGED <<status, step, err, retried, kick, resumes>>
       ELSE conn' = "on" /\ ReconnectWork
    /\ UNCHANGED <<conv, edits, bound, made, live, worker, tail, disp, wd, torn>>

ReconnectWorkAfterSettle ==
    /\ LoopFree
    /\ conn = "settling"
    /\ conn' = "on"
    /\ ReconnectWork
    /\ UNCHANGED <<conv, edits, bound, made, live, worker, tail, disp, wd, torn>>

MarkDisconnected ==
    /\ LoopFree
    /\ conn # "off"
    /\ conn' = "off"
    /\ UNCHANGED <<rows, live, worker, tail, disp, kick, wd, count>>

\* Everything the process holds is gone; the rows stay.
ProcessGone ==
    /\ live' = {}
    /\ worker' = [j \in Jobs |-> "none"]
    /\ tail' = NoEnd /\ disp' = DispIdle /\ wd' = WdIdle
    /\ kick' = 0
    /\ conn' = "off"

Crash == ProcessGone /\ UNCHANGED <<rows, count>>

\* The crash that falls between the two commits of requeue_interrupted_send:
\* the job is queued and nothing records that it was resumed.
CrashMidRequeue(j) ==
    /\ \/ tail.at = "requeue" /\ tail.job = j
       \/ wd.at = "dead" /\ wd.job = j
    /\ Requeueable(status[j], err[j], step[j], j)
    /\ torn < MaxTorn
    /\ torn' = torn + 1
    /\ ProcessGone
    /\ Write(j, "queued", "api", "other")
    /\ resumes' = [resumes EXCEPT ![j] = @ + 1]
    /\ UNCHANGED <<conv, edits, retried, bound, made>>

----------------------------------------------------------------------------
Requests ==
    \/ "enqueue" \in Happens /\ \E c \in Listings : EnqueueSend(c)
    \/ "now" \in Happens /\ \E c \in Listings : SendNow(c)
    \/ "native" \in Happens /\ \E c \in Listings, k \in Native : StartNative(c, k)
    \/ "cancel" \in Happens /\ \E j \in Jobs : CancelJob(j)
    \/ "update" \in Happens /\ CancelLeftoverJobs
    \/ "poll" \in Happens /\ GetQueue

Dispatcher ==
    NextDispatchPick \/ NextDispatchMark \/ NextDispatchClaim \/ SpawnRunSend

SendWorker(j) ==
    \/ RunSend(j)
    \/ Mark(j) \/ SendFails(j) \/ RequestCloses(j) \/ SendCompletes(j)

WorkerEnd == Abandon \/ Release \/ RequeueAfterExit \/ RunSendExcept

NativeWorker(j) ==
    \E s \in Terminal, settled \in SUBSET Jobs : FinishNative(j, s, settled)

Watchdog == (\E j \in Jobs, quiet \in {1, 2} : ReadRunning(j, quiet)) \/ FailStalled \/ ResumeDead \/ SweepEnds

Chrome ==
    \/ \E flap \in BOOLEAN : (flap => "flap" \in Happens) /\ AfterPairing(flap)
    \/ ReconnectWorkAfterSettle
    \/ "drop" \in Happens /\ MarkDisconnected

Crashes ==
    \/ "crash" \in Happens /\ Crash
    \/ \E j \in Jobs : CrashMidRequeue(j)

Next ==
    \/ Requests
    \/ Dispatcher
    \/ \E j \in Jobs : SendWorker(j) \/ NativeWorker(j)
    \/ WorkerEnd
    \/ Watchdog
    \/ Chrome
    \/ Crashes

Spec == Init /\ [][Next]_vars

\* What the code keeps doing by itself: the loop runs its callbacks, threads
\* finish, every Chrome op and model call has a deadline, the clock moves and
\* the watchdog sweeps.  Requests, drops and crashes are nobody's duty.
Fairness ==
    /\ WF_vars(NextDispatchPick) /\ WF_vars(NextDispatchMark)
    /\ WF_vars(NextDispatchClaim) /\ WF_vars(SpawnRunSend)
    /\ WF_vars(WorkerEnd)
    /\ WF_vars(FailStalled) /\ WF_vars(ResumeDead) /\ WF_vars(SweepEnds)
    /\ WF_vars(ReconnectWorkAfterSettle)
    /\ \A j \in Jobs :
        /\ WF_vars(RunSend(j))
        /\ WF_vars(SendFails(j) \/ SendCompletes(j))
        /\ WF_vars(NativeWorker(j))
        /\ WF_vars(ReadRunning(j, 1))

FairSpec == Spec /\ Fairness

----------------------------------------------------------------------------
(* Properties.                                                             *)

\* Two jobs hold Chrome at once only as direct actions on two different
\* marketplaces: a Vendoo send, a delist, a promotion and a page inspection
\* have it to themselves (blocking_job, start_gate, _next_dispatch).
SlotExclusive ==
    \A i, j \in Running :
        i # j => /\ step[i] \in Markets /\ step[j] \in Markets
                 /\ step[i] # step[j]

\* The jobs table as the slot it implements: a dispatched job holds the slot
\* for what its step says.  Whatever the queue, the threads and the faults do,
\* each step takes the slot when there is room for it, gives it back, or
\* leaves it alone.
Slot == INSTANCE ChromeSlot WITH
    Shared <- Markets,
    Alone <- {"api", "exclusive"},
    holds <- [j \in Jobs |-> IF status[j] = "dispatched" THEN step[j] ELSE "free"]

SlotSpec == Slot!Spec

\* Nobody sends what is in the queue: neither the exit of the old worker, nor a
\* reconnect, nor the watchdog queues a send that is still being run ("resuming
\* cannot double up").  A reconnect between the dispatcher's commit and its claim
\* queues a send that is about to be spawned; that worker has not read its row
\* yet, and returns when it does (run_send).
QueuedIsNotSent ==
    \A j \in Waiting : worker[j] \in {"none", "spawned"}

\* The dispatcher never hands a job to a second worker.
ClaimedHasNoWorker ==
    disp.at = "claimed" => worker[disp.job] = "none"

\* A send puts itself back at most once; only a crash between the two commits
\* of requeue_interrupted_send can grant it another turn.
ResumedOnce == \A j \in Jobs : resumes[j] <= 1 + torn

\* Why the slot stays exclusive: mark writes "dispatched" without looking at
\* the slot, so no worker that got to work may ever hold a queued job.  Each way back into the
\* queue is closed by the job being live or having been resumed before, also
\* while a thread or the end of a worker still has its hands on it.
Taken(j)     == disp.at # "idle" /\ disp.job = j
Swept(j)     == wd.at \in {"read", "dead"} /\ wd.job = j
Watched(j)   == Swept(j) /\ (wd.at = "read" => wd.kind = "api")
Ending(j)    == tail.at # "idle" /\ tail.job = j

NumberedInv == \A j \in Jobs :
    /\ status[j] = "none" <=> j > made
    /\ conv[j] = NoListing <=> j > made
    /\ worker[j] # "none" \/ Taken(j) \/ Swept(j) \/ Ending(j) => status[j] # "none"

StepInv == \A j \in Running : step[j] \in Native \cup {"api"}

WorkerInv == \A j \in Jobs : worker[j] # "none" =>
    /\ status[j] = "queued" \/ Taken(j) => worker[j] = "spawned" /\ j \in retried
    /\ Taken(j) => disp.at = "picked"
    /\ ~Ending(j)
    /\ worker[j] = "native" => step[j] # "api"
    /\ worker[j] # "native" => step[j] \notin Native /\ j \in live \cup retried

DispatchInv == \A j \in Jobs : Taken(j) =>
    IF disp.at = "picked" THEN status[j] # "dispatched"
    ELSE /\ step[j] \notin Native
         /\ status[j] = "queued" => j \in retried
         /\ disp.at = "claimed" => j \in live \cup retried

EndingInv == \A j \in Jobs :
    Ending(j) /\ (status[j] = "queued" \/ Taken(j)) => j \in retried

WatchInv == \A j \in Jobs : Watched(j) =>
    /\ worker[j] # "native"
    /\ \/ j \in retried
       \/ /\ status[j] # "queued"
          /\ ~Taken(j)
          /\ wd.at = "dead" => worker[j] = "none"

IInv ==
    /\ TypeOK /\ NumberedInv /\ StepInv /\ SlotExclusive
    /\ WorkerInv /\ DispatchInv /\ EndingInv /\ WatchInv

\* A finished job changes hands only through a thread that read it before it
\* finished, through the exit that resumes it, or through the seller.
FinishedIsFinal ==
    [][\A j \in Jobs :
        status[j] \in {"completed", "cancelled"} /\ status'[j] # status[j] =>
            \/ disp.at = "picked" /\ disp.job = j /\ status'[j] = "dispatched"
            \/ wd.at = "read" /\ wd.job = j /\ status'[j] = "failed"]_vars

\* Chrome stays paired from some point on: no more drops, and no more crashes.
Settled == <>[](conn = "on")

\* Every job that holds the slot gives it up: a worker ends, and the watchdog
\* frees what a dead process or a silent worker left behind.
SlotIsFreed ==
    Settled => \A j \in Jobs : []<>(status[j] # "dispatched")

\* Every approved send leaves the queue without the interface polling: no kick
\* of the dispatcher is lost.
QueuedSendStarts ==
    Settled => \A j \in Jobs : []<>(status[j] # "queued")
=============================================================================
