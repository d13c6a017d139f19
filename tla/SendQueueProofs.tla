-------------------------- MODULE SendQueueProofs --------------------------
(***************************************************************************)
(* SendQueue for every number of jobs, listings and marketplaces.          *)
(*                                                                         *)
(* SlotExclusive is not inductive: mark and the dispatcher write           *)
(* "dispatched" from what they read earlier, so it rests on who has a job  *)
(* in hand -- a worker, the end of a worker, the dispatcher's thread or    *)
(* the watchdog's.  IInv says so, one conjunct per such holder.  There is  *)
(* one lemma per action, with one step per conjunct of IInv.               *)
(***************************************************************************)
EXTENDS SendQueue, TLAPS

\* UPDATE jobs keeps the columns in their domains.
LEMMA WriteTypes ==
    ASSUME TypeOK, NEW j \in Jobs, NEW s \in Statuses, NEW st \in Steps,
           NEW e \in {"interrupted", "other"}, Write(j, s, st, e)
    PROVE  /\ status' \in [Jobs -> Statuses]
           /\ step' \in [Jobs -> Steps]
           /\ err' \in [Jobs -> {"interrupted", "other"}]
BY DEF TypeOK, Write

\* requeue_interrupted_send keeps its columns, and its counts, in their domains.
LEMMA RequeueTypes ==
    ASSUME TypeOK, NEW j \in Jobs, RequeueInterruptedSend(j)
    PROVE  /\ status' \in [Jobs -> Statuses]
           /\ step' \in [Jobs -> Steps]
           /\ err' \in [Jobs -> {"interrupted", "other"}]
           /\ retried' \in SUBSET Jobs
           /\ resumes' \in [Jobs -> Nat]
<1>1. CASE Requeueable(status[j], err[j], step[j], j)
  <2>1. Write(j, "queued", "api", "other") BY <1>1 DEF RequeueInterruptedSend
  <2> QED BY <1>1, <2>1, WriteTypes DEF TypeOK, RequeueInterruptedSend, Statuses, Steps
<1>2. CASE ~Requeueable(status[j], err[j], step[j], j)
  BY <1>2 DEF TypeOK, RequeueInterruptedSend
<1> QED BY <1>1, <1>2

\* A step that only ends jobs, or leaves them alone, cannot crowd the slot.
LEMMA FewerHolders ==
    ASSUME SlotExclusive,
           \A j \in Jobs : status'[j] = "dispatched"
                               => status[j] = "dispatched" /\ step'[j] = step[j]
    PROVE  SlotExclusive'
BY DEF SlotExclusive, Running, Jobs

\* Approving a send numbers a new job, which no thread or worker knows yet.
LEMMA EnqueueSendInv ==
    ASSUME IInv, NEW c \in Listings, EnqueueSend(c)
    PROVE  IInv'
<1> USE NamesAssumption, BoundsAssumption DEF IInv, Jobs
<1>1. TypeOK'
  BY DEF TypeOK, Statuses, Steps, Terminal, Native, count, EnqueueSend,
      Create, Write, Active, Running, Waiting, LoopFree
<1>2. NumberedInv'
  BY DEF TypeOK, NumberedInv, WorkerInv, Taken, Swept, Ending, EnqueueSend,
      Create, Write, Active, Running, Waiting, LoopFree
<1>3. StepInv'
  BY DEF TypeOK, StepInv, WorkerInv, NumberedInv, Running, Native,
      EnqueueSend, Create, Write, Active, Waiting, LoopFree
<1>4. SlotExclusive'
  BY FewerHolders DEF TypeOK, EnqueueSend, Create, Write
<1>5. WorkerInv'
  BY DEF TypeOK, WorkerInv, NumberedInv, DispatchInv, EndingInv, WatchInv,
      Taken, Ending, Watched, Swept, Native, EnqueueSend, Create, Write,
      Active, Running, Waiting, LoopFree
<1>6. DispatchInv'
  BY DEF TypeOK, DispatchInv, NumberedInv, WorkerInv, EndingInv, WatchInv,
      Taken, Ending, Watched, Swept, Native, EnqueueSend, Create, Write,
      Active, Running, Waiting, LoopFree
<1>7. EndingInv'
  BY DEF TypeOK, EndingInv, NumberedInv, WorkerInv, Taken, Ending,
      EnqueueSend, Create, Write, Active, Running, Waiting, LoopFree
<1>8. WatchInv'
  BY DEF TypeOK, WatchInv, StepInv, NumberedInv, WorkerInv, DispatchInv,
      Taken, Watched, Swept, Native, EnqueueSend, Create, Write, Active,
      Running, Waiting, LoopFree
<1> QED BY <1>1, <1>2, <1>3, <1>4, <1>5, <1>6, <1>7, <1>8

\* A direct send finds the slot empty.
LEMMA SendNowInv == ASSUME IInv, NEW c \in Listings, SendNow(c) PROVE IInv'
<1> USE NamesAssumption, BoundsAssumption DEF IInv, Jobs
<1>1. TypeOK'
  BY DEF TypeOK, Statuses, Steps, Terminal, Native, count, SendNow, Create,
      Write, Active, Running, Waiting, LoopFree
<1>2. NumberedInv'
  BY DEF TypeOK, NumberedInv, WorkerInv, Taken, Swept, Ending, SendNow,
      Create, Write, Active, Running, Waiting, LoopFree
<1>3. StepInv'
  BY DEF TypeOK, StepInv, WorkerInv, NumberedInv, Running, Native, SendNow,
      Create, Write, Active, Waiting, LoopFree
<1>4. SlotExclusive'
  <2> DEFINE n == made + 1
  <2>1. n \in Jobs /\ status[n] = "none" BY DEF TypeOK, NumberedInv, SendNow, Create
  <2>2. \A i \in Jobs \ {n} : status'[i] = status[i] /\ step'[i] = step[i]
    BY <2>1 DEF TypeOK, SendNow, Create, Write
  <2> QED BY <2>1, <2>2 DEF SlotExclusive, Running, SendNow
<1>5. WorkerInv'
  BY DEF TypeOK, WorkerInv, NumberedInv, DispatchInv, EndingInv, WatchInv,
      Taken, Ending, Watched, Swept, Native, SendNow, Create, Write, Active,
      Running, Waiting, LoopFree
<1>6. DispatchInv'
  BY DEF TypeOK, DispatchInv, NumberedInv, WorkerInv, EndingInv, WatchInv,
      Taken, Ending, Watched, Swept, Native, SendNow, Create, Write, Active,
      Running, Waiting, LoopFree
<1>7. EndingInv'
  BY DEF TypeOK, EndingInv, NumberedInv, WorkerInv, Taken, Ending, SendNow,
      Create, Write, Active, Running, Waiting, LoopFree
<1>8. WatchInv'
  BY DEF TypeOK, WatchInv, StepInv, NumberedInv, WorkerInv, DispatchInv,
      Taken, Watched, Swept, Native, SendNow, Create, Write, Active, Running,
      Waiting, LoopFree
<1> QED BY <1>1, <1>2, <1>3, <1>4, <1>5, <1>6, <1>7, <1>8

\* A direct action finds the slot empty, or shared by other marketplaces.
LEMMA StartNativeInv ==
    ASSUME IInv, NEW c \in Listings, NEW k, StartNative(c, k)
    PROVE  IInv'
<1> USE NamesAssumption, BoundsAssumption DEF IInv, Jobs
<1>1. TypeOK'
  BY DEF TypeOK, Statuses, Steps, Terminal, Native, count, StartNative,
      Create, Write, Blocked, Active, Running, Waiting, LoopFree
<1>2. NumberedInv'
  BY DEF TypeOK, NumberedInv, WorkerInv, Taken, Swept, Ending, StartNative,
      Create, Write, Blocked, Active, Running, Waiting, LoopFree, Native
<1>3. StepInv'
  BY DEF TypeOK, StepInv, WorkerInv, NumberedInv, Running, Native,
      StartNative, Create, Write, Blocked, Active, Waiting, LoopFree
<1>4. SlotExclusive'
  <2> DEFINE n == made + 1
  <2>1. n \in Jobs /\ status[n] = "none" BY DEF TypeOK, NumberedInv, StartNative, Create
  <2>2. \A i \in Jobs \ {n} : status'[i] = status[i] /\ step'[i] = step[i]
    BY <2>1 DEF TypeOK, StartNative, Create, Write
  <2>3. step'[n] = k BY <2>1 DEF TypeOK, StartNative, Create, Write
  <2>4. \A i \in Running : k \in Markets /\ step[i] \in Markets \ {k}
    BY DEF StartNative, Blocked, Active
  <2> QED BY <2>1, <2>2, <2>3, <2>4 DEF SlotExclusive, Running
<1>5. WorkerInv'
  BY DEF TypeOK, WorkerInv, NumberedInv, DispatchInv, EndingInv, WatchInv,
      Taken, Ending, Watched, Swept, Native, StartNative, Create, Write,
      Blocked, Active, Running, Waiting, LoopFree
<1>6. DispatchInv'
  BY DEF TypeOK, DispatchInv, NumberedInv, WorkerInv, EndingInv, WatchInv,
      Taken, Ending, Watched, Swept, Native, StartNative, Create, Write,
      Blocked, Active, Running, Waiting, LoopFree
<1>7. EndingInv'
  BY DEF TypeOK, EndingInv, NumberedInv, WorkerInv, Taken, Ending,
      StartNative, Create, Write, Blocked, Active, Running, Waiting, LoopFree,
      Native
<1>8. WatchInv'
  BY DEF TypeOK, WatchInv, StepInv, NumberedInv, WorkerInv, DispatchInv,
      Taken, Watched, Swept, Native, StartNative, Create, Write, Blocked,
      Active, Running, Waiting, LoopFree
<1> QED BY <1>1, <1>2, <1>3, <1>4, <1>5, <1>6, <1>7, <1>8

\* Cancelling ends the job and leaves its worker to notice.
LEMMA CancelJobInv == ASSUME IInv, NEW j \in Jobs, CancelJob(j) PROVE IInv'
<1> USE NamesAssumption, BoundsAssumption DEF IInv, Jobs
<1>1. TypeOK'
  <2>1. status' \in [Jobs -> Statuses]
    BY DEF TypeOK, CancelJob, Write, Statuses, Terminal
  <2>2. step' \in [Jobs -> Steps]
    BY DEF TypeOK, CancelJob, Write, Steps
  <2>3. err' \in [Jobs -> {"interrupted", "other"}]
    BY DEF TypeOK, CancelJob, Write
  <2> QED BY <2>1, <2>2, <2>3 DEF TypeOK, CancelJob, count
<1>2. NumberedInv'
  BY DEF TypeOK, NumberedInv, WorkerInv, Taken, Swept, Ending, CancelJob,
      Write, LoopFree, Native
<1>3. StepInv'
  BY DEF TypeOK, StepInv, WorkerInv, NumberedInv, Running, Native, CancelJob,
      Write, LoopFree
<1>4. SlotExclusive'
  BY FewerHolders DEF TypeOK, CancelJob, Write
<1>5. WorkerInv'
  BY DEF TypeOK, WorkerInv, NumberedInv, DispatchInv, EndingInv, WatchInv,
      Taken, Ending, Watched, Swept, Native, CancelJob, Write, LoopFree
<1>6. DispatchInv'
  BY DEF TypeOK, DispatchInv, NumberedInv, WorkerInv, EndingInv, WatchInv,
      Taken, Ending, Watched, Swept, Native, CancelJob, Write, LoopFree
<1>7. EndingInv'
  BY DEF TypeOK, EndingInv, NumberedInv, WorkerInv, Taken, Ending, CancelJob,
      Write, LoopFree, Native
<1>8. WatchInv'
  BY DEF TypeOK, WatchInv, StepInv, NumberedInv, WorkerInv, DispatchInv,
      Taken, Watched, Swept, Native, CancelJob, Write, LoopFree
<1> QED BY <1>1, <1>2, <1>3, <1>4, <1>5, <1>6, <1>7, <1>8

\* An app update empties the slot and the queue.
LEMMA CancelLeftoverJobsInv == ASSUME IInv, CancelLeftoverJobs PROVE IInv'
<1> USE NamesAssumption, BoundsAssumption DEF IInv, Jobs
<1>1. TypeOK'
  BY DEF TypeOK, Statuses, Steps, Terminal, Native, count, CancelLeftoverJobs,
      Active, Running, Waiting, LoopFree, procs
<1>2. NumberedInv'
  BY DEF TypeOK, NumberedInv, WorkerInv, Taken, Swept, Ending,
      CancelLeftoverJobs, Active, Running, Waiting, LoopFree, procs
<1>3. StepInv'
  BY DEF TypeOK, StepInv, WorkerInv, NumberedInv, Running, Native,
      CancelLeftoverJobs, Active, Waiting, LoopFree, procs
<1>4. SlotExclusive'
  BY FewerHolders DEF TypeOK, CancelLeftoverJobs
<1>5. WorkerInv'
  BY DEF TypeOK, WorkerInv, NumberedInv, DispatchInv, EndingInv, WatchInv,
      Taken, Ending, Watched, Swept, Native, CancelLeftoverJobs, Active,
      Running, Waiting, LoopFree, procs
<1>6. DispatchInv'
  BY DEF TypeOK, DispatchInv, NumberedInv, WorkerInv, EndingInv, WatchInv,
      Taken, Ending, Watched, Swept, Native, CancelLeftoverJobs, Active,
      Running, Waiting, LoopFree, procs
<1>7. EndingInv'
  BY DEF TypeOK, EndingInv, NumberedInv, WorkerInv, Taken, Ending,
      CancelLeftoverJobs, Active, Running, Waiting, LoopFree, procs
<1>8. WatchInv'
  BY DEF TypeOK, WatchInv, StepInv, NumberedInv, WorkerInv, DispatchInv,
      Taken, Watched, Swept, Native, CancelLeftoverJobs, Active, Running,
      Waiting, LoopFree, procs
<1> QED BY <1>1, <1>2, <1>3, <1>4, <1>5, <1>6, <1>7, <1>8

\* A poll only kicks the dispatcher.
LEMMA GetQueueInv == ASSUME IInv, GetQueue PROVE IInv'
<1> USE NamesAssumption, BoundsAssumption DEF IInv, Jobs
<1>1. TypeOK'
  BY DEF TypeOK, Statuses, Steps, Terminal, Native, count, GetQueue, rows,
      LoopFree
<1>2. NumberedInv'
  BY DEF TypeOK, NumberedInv, WorkerInv, Taken, Swept, Ending, GetQueue, rows,
      LoopFree
<1>3. StepInv'
  BY DEF TypeOK, StepInv, WorkerInv, NumberedInv, Running, Native, GetQueue,
      rows, LoopFree
<1>4. SlotExclusive'
  BY DEF TypeOK, SlotExclusive, StepInv, NumberedInv, WorkerInv, Running,
      Statuses, Terminal, Native, GetQueue, rows, LoopFree
<1>5. WorkerInv'
  BY DEF TypeOK, WorkerInv, NumberedInv, DispatchInv, EndingInv, WatchInv,
      Taken, Ending, Watched, Swept, Native, GetQueue, rows, LoopFree
<1>6. DispatchInv'
  BY DEF TypeOK, DispatchInv, NumberedInv, WorkerInv, EndingInv, WatchInv,
      Taken, Ending, Watched, Swept, Native, GetQueue, rows, LoopFree
<1>7. EndingInv'
  BY DEF TypeOK, EndingInv, NumberedInv, WorkerInv, Taken, Ending, GetQueue,
      rows, LoopFree
<1>8. WatchInv'
  BY DEF TypeOK, WatchInv, StepInv, NumberedInv, WorkerInv, DispatchInv,
      Taken, Watched, Swept, Native, GetQueue, rows, LoopFree
<1> QED BY <1>1, <1>2, <1>3, <1>4, <1>5, <1>6, <1>7, <1>8

\* The job picked is queued, so no worker has it; if the end of its worker is
\* still running, that end has already used up its one resume.
LEMMA NextDispatchPickInv == ASSUME IInv, NextDispatchPick PROVE IInv'
<1> USE NamesAssumption, BoundsAssumption DEF IInv, Jobs
<1>1. TypeOK'
  BY DEF TypeOK, Statuses, Steps, Terminal, Native, count, NextDispatchPick,
      rows, Disp, Running, Waiting
<1>2. NumberedInv'
  BY DEF TypeOK, NumberedInv, WorkerInv, Taken, Swept, Ending,
      NextDispatchPick, rows, Disp, Running, Waiting
<1>3. StepInv'
  BY DEF TypeOK, StepInv, WorkerInv, NumberedInv, Running, Native,
      NextDispatchPick, rows, Disp, Waiting
<1>4. SlotExclusive'
  BY DEF TypeOK, SlotExclusive, StepInv, NumberedInv, WorkerInv, Running,
      Statuses, Terminal, Native, NextDispatchPick, rows, Disp, Waiting
<1>5. WorkerInv'
  BY DEF TypeOK, WorkerInv, NumberedInv, DispatchInv, EndingInv, WatchInv,
      Taken, Ending, Watched, Swept, Native, NextDispatchPick, rows, Disp,
      Running, Waiting
<1>6. DispatchInv'
  BY DEF TypeOK, DispatchInv, NumberedInv, WorkerInv, EndingInv, WatchInv,
      Taken, Ending, Watched, Swept, Native, NextDispatchPick, rows, Disp,
      Running, Waiting
<1>7. EndingInv'
  BY DEF TypeOK, EndingInv, NumberedInv, WorkerInv, Taken, Ending,
      NextDispatchPick, rows, Disp, Running, Waiting
<1>8. WatchInv'
  BY DEF TypeOK, WatchInv, StepInv, NumberedInv, WorkerInv, DispatchInv,
      Taken, Watched, Swept, Native, NextDispatchPick, rows, Disp, Running,
      Waiting
<1> QED BY <1>1, <1>2, <1>3, <1>4, <1>5, <1>6, <1>7, <1>8

\* The claim writes into an empty slot.
LEMMA NextDispatchMarkInv == ASSUME IInv, NextDispatchMark PROVE IInv'
<1> USE NamesAssumption, BoundsAssumption DEF IInv, Jobs
<1>1. TypeOK'
  <2>1. disp.job \in Jobs BY DEF TypeOK
  <2>2. status' \in [Jobs -> Statuses]
    BY <2>1 DEF TypeOK, NextDispatchMark, Write, Statuses, Terminal
  <2>3. step' \in [Jobs -> Steps]
    BY <2>1 DEF TypeOK, NextDispatchMark, Write, Steps
  <2>4. err' \in [Jobs -> {"interrupted", "other"}]
    BY <2>1 DEF TypeOK, NextDispatchMark, Write
  <2>5. disp' \in [job : Jobs, at : {"idle", "picked", "marked", "claimed"}]
    BY <2>1, BoundsAssumption DEF TypeOK, NextDispatchMark, Disp, DispIdle
  <2> QED BY <2>2, <2>3, <2>4, <2>5 DEF TypeOK, NextDispatchMark, count
<1>2. NumberedInv'
  BY DEF TypeOK, NumberedInv, WorkerInv, Taken, Swept, Ending,
      NextDispatchMark, Write, Running, DispIdle, Disp
<1>3. StepInv'
  <2>1. disp.job \in Jobs BY DEF TypeOK
  <2> QED BY <2>1 DEF TypeOK, StepInv, Running, NextDispatchMark, Write
<1>4. SlotExclusive'
  <2>1. CASE Running = {}
    <3>1. disp.job \in Jobs BY DEF TypeOK
    <3>2. Running' \subseteq {disp.job}
      BY <2>1, <3>1 DEF TypeOK, Running, NextDispatchMark, Write
    <3> QED BY <3>2 DEF SlotExclusive
  <2>2. CASE Running # {}
    BY <2>2 DEF SlotExclusive, Running, NextDispatchMark
  <2> QED BY <2>1, <2>2
<1>5. WorkerInv'
  BY DEF TypeOK, WorkerInv, NumberedInv, DispatchInv, EndingInv, WatchInv,
      Taken, Ending, Watched, Swept, Native, NextDispatchMark, Write,
      Running, DispIdle, Disp
<1>6. DispatchInv'
  BY DEF TypeOK, DispatchInv, NumberedInv, WorkerInv, EndingInv, WatchInv,
      Taken, Ending, Watched, Swept, Native, NextDispatchMark, Write,
      Running, DispIdle, Disp
<1>7. EndingInv'
  BY DEF TypeOK, EndingInv, NumberedInv, WorkerInv, Taken, Ending,
      NextDispatchMark, Write, Running, DispIdle, Disp
<1>8. WatchInv'
  BY DEF TypeOK, WatchInv, StepInv, NumberedInv, WorkerInv, DispatchInv,
      Taken, Watched, Swept, Native, NextDispatchMark, Write, Running,
      DispIdle, Disp
<1> QED BY <1>1, <1>2, <1>3, <1>4, <1>5, <1>6, <1>7, <1>8

\* Once claimed, the job is live; what the row says by now does not matter.
LEMMA NextDispatchClaimInv == ASSUME IInv, NextDispatchClaim PROVE IInv'
<1> USE NamesAssumption, BoundsAssumption DEF IInv, Jobs
<1>1. TypeOK'
  <2>1. disp.job \in Jobs BY DEF TypeOK
  <2>2. live' \in SUBSET Jobs
    <3>1. live' = live \cup {disp.job} BY DEF NextDispatchClaim
    <3>2. live \in SUBSET Jobs BY DEF TypeOK
    <3> QED BY ONLY <2>1, <3>1, <3>2
  <2>3. disp' \in [job : Jobs, at : {"idle", "picked", "marked", "claimed"}]
    BY <2>1 DEF NextDispatchClaim, Disp
  <2> QED BY <2>2, <2>3 DEF TypeOK, NextDispatchClaim, rows, count
<1>2. NumberedInv'
  BY DEF TypeOK, NumberedInv, WorkerInv, Taken, Swept, Ending, NextDispatchClaim, rows, Disp
<1>3. StepInv'
  BY DEF TypeOK, StepInv, Running, Native, NextDispatchClaim, rows, Disp
<1>4. SlotExclusive'
  BY DEF TypeOK, SlotExclusive, Running, NextDispatchClaim, rows, Disp
<1>5. WorkerInv'
  BY DEF TypeOK, WorkerInv, DispatchInv, Taken, Ending, Native, NextDispatchClaim, rows, Disp
<1>6. DispatchInv'
  BY DEF TypeOK, DispatchInv, Taken, Native, NextDispatchClaim, rows, Disp
<1>7. EndingInv'
  BY DEF TypeOK, EndingInv, Taken, Ending, NextDispatchClaim, rows, Disp
<1>8. WatchInv'
  BY DEF TypeOK, WatchInv, Taken, Watched, Swept, NextDispatchClaim, rows, Disp
<1> QED BY <1>1, <1>2, <1>3, <1>4, <1>5, <1>6, <1>7, <1>8

\* The claimed job gets its only worker.
LEMMA SpawnRunSendInv == ASSUME IInv, SpawnRunSend PROVE IInv'
<1> USE NamesAssumption, BoundsAssumption DEF IInv, Jobs
<1>1. TypeOK'
  BY DEF TypeOK, Statuses, Steps, Terminal, Native, count, SpawnRunSend, rows,
      LoopFree, DispIdle, Disp
<1>2. NumberedInv'
  BY DEF TypeOK, NumberedInv, WorkerInv, Taken, Swept, Ending, SpawnRunSend,
      rows, LoopFree, DispIdle, Disp
<1>3. StepInv'
  BY DEF TypeOK, StepInv, WorkerInv, NumberedInv, Running, Native,
      SpawnRunSend, rows, LoopFree, DispIdle, Disp
<1>4. SlotExclusive'
  BY DEF TypeOK, SlotExclusive, StepInv, NumberedInv, WorkerInv, Running,
      Statuses, Terminal, Native, SpawnRunSend, rows, LoopFree, DispIdle, Disp
<1>5. WorkerInv'
  BY DEF TypeOK, WorkerInv, NumberedInv, DispatchInv, EndingInv, WatchInv,
      Taken, Ending, Watched, Swept, Native, SpawnRunSend, rows, LoopFree,
      DispIdle, Disp
<1>6. DispatchInv'
  BY DEF TypeOK, DispatchInv, NumberedInv, WorkerInv, EndingInv, WatchInv,
      Taken, Ending, Watched, Swept, Native, SpawnRunSend, rows, LoopFree,
      DispIdle, Disp
<1>7. EndingInv'
  BY DEF TypeOK, EndingInv, NumberedInv, WorkerInv, Taken, Ending,
      SpawnRunSend, rows, LoopFree, DispIdle, Disp
<1>8. WatchInv'
  BY DEF TypeOK, WatchInv, StepInv, NumberedInv, WorkerInv, DispatchInv,
      Taken, Watched, Swept, Native, SpawnRunSend, rows, LoopFree, DispIdle,
      Disp
<1> QED BY <1>1, <1>2, <1>3, <1>4, <1>5, <1>6, <1>7, <1>8

\* A queued send's worker starts, or ends at once.
LEMMA RunSendInv == ASSUME IInv, NEW j \in Jobs, RunSend(j) PROVE IInv'
<1> USE NamesAssumption, BoundsAssumption DEF IInv, Jobs
<1>1. TypeOK'
  <2>1. status' \in [Jobs -> Statuses] /\ step' \in [Jobs -> Steps]
        /\ err' \in [Jobs -> {"interrupted", "other"}]
    BY WriteTypes DEF TypeOK, RunSend, Statuses, Steps, Terminal
  <2>2. tail' \in [job : Jobs, at : {"idle", "abandon", "release", "requeue", "except"},
                   then : {"done", "except", "again"}]
    BY DEF TypeOK, RunSend, Ends, End
  <2> QED BY <2>1, <2>2 DEF TypeOK, RunSend, Ends, count
<1>2. NumberedInv'
  BY DEF TypeOK, NumberedInv, WorkerInv, Taken, Swept, Ending, RunSend, Ends,
      End, Write, LoopFree
<1>3. StepInv'
  BY DEF TypeOK, StepInv, WorkerInv, NumberedInv, Running, Native, RunSend,
      Ends, End, Write, LoopFree
<1>4. SlotExclusive'
  BY FewerHolders DEF TypeOK, RunSend, Write
<1>5. WorkerInv'
  BY DEF TypeOK, WorkerInv, NumberedInv, DispatchInv, EndingInv, WatchInv,
      Taken, Ending, Watched, Swept, Native, RunSend, Ends, End, Write,
      LoopFree
<1>6. DispatchInv'
  BY DEF TypeOK, DispatchInv, NumberedInv, WorkerInv, EndingInv, WatchInv,
      Taken, Ending, Watched, Swept, Native, RunSend, Ends, End, Write,
      LoopFree
<1>7. EndingInv'
  BY DEF TypeOK, EndingInv, NumberedInv, WorkerInv, Taken, Ending, RunSend,
      Ends, End, Write, LoopFree
<1>8. WatchInv'
  BY DEF TypeOK, WatchInv, StepInv, NumberedInv, WorkerInv, DispatchInv,
      Taken, Watched, Swept, Native, RunSend, Ends, End, Write, LoopFree
<1> QED BY <1>1, <1>2, <1>3, <1>4, <1>5, <1>6, <1>7, <1>8

\* mark writes "dispatched" without reading the slot: the job already holds it.
LEMMA MarkInv == ASSUME IInv, NEW j \in Jobs, Mark(j) PROVE IInv'
<1> USE NamesAssumption, BoundsAssumption DEF IInv, Jobs
<1>1. TypeOK'
  BY DEF TypeOK, Statuses, Steps, Terminal, Native, count, Mark, Write,
      Sending, LoopFree
<1>2. NumberedInv'
  BY DEF TypeOK, NumberedInv, WorkerInv, Taken, Swept, Ending, Mark, Write,
      Sending, LoopFree
<1>3. StepInv'
  BY DEF TypeOK, StepInv, WorkerInv, NumberedInv, Running, Native, Mark,
      Write, Sending, LoopFree
<1>4. SlotExclusive'
  BY SMTT(60) DEF TypeOK, SlotExclusive, StepInv, NumberedInv, WorkerInv,
      Running, Statuses, Terminal, Native, Mark, Write, Sending, LoopFree
<1>5. WorkerInv'
  BY DEF TypeOK, WorkerInv, NumberedInv, DispatchInv, EndingInv, WatchInv,
      Taken, Ending, Watched, Swept, Native, Mark, Write, Sending, LoopFree
<1>6. DispatchInv'
  BY DEF TypeOK, DispatchInv, NumberedInv, WorkerInv, EndingInv, WatchInv,
      Taken, Ending, Watched, Swept, Native, Mark, Write, Sending, LoopFree
<1>7. EndingInv'
  BY DEF TypeOK, EndingInv, NumberedInv, WorkerInv, Taken, Ending, Mark,
      Write, Sending, LoopFree
<1>8. WatchInv'
  BY DEF TypeOK, WatchInv, StepInv, NumberedInv, WorkerInv, DispatchInv,
      Taken, Watched, Swept, Native, Mark, Write, Sending, LoopFree
<1> QED BY <1>1, <1>2, <1>3, <1>4, <1>5, <1>6, <1>7, <1>8

\* A failing worker frees the slot and begins its end.
LEMMA SendFailsInv == ASSUME IInv, NEW j \in Jobs, SendFails(j) PROVE IInv'
<1> USE NamesAssumption, BoundsAssumption DEF IInv, Jobs
<1>1. TypeOK'
  BY DEF TypeOK, Statuses, Steps, Terminal, Native, count, SendFails, Ends,
      End, AfterRaise, Write, Sending, LoopFree
<1>2. NumberedInv'
  BY DEF TypeOK, NumberedInv, WorkerInv, Taken, Swept, Ending, SendFails,
      Ends, End, AfterRaise, Write, Sending, LoopFree
<1>3. StepInv'
  BY DEF TypeOK, StepInv, WorkerInv, NumberedInv, Running, Native, SendFails,
      Ends, End, AfterRaise, Write, Sending, LoopFree
<1>4. SlotExclusive'
  BY FewerHolders DEF TypeOK, SendFails, Write
<1>5. WorkerInv'
  BY DEF TypeOK, WorkerInv, NumberedInv, DispatchInv, EndingInv, WatchInv,
      Taken, Ending, Watched, Swept, Native, SendFails, Ends, End, AfterRaise,
      Write, Sending, LoopFree
<1>6. DispatchInv'
  BY DEF TypeOK, DispatchInv, NumberedInv, WorkerInv, EndingInv, WatchInv,
      Taken, Ending, Watched, Swept, Native, SendFails, Ends, End, AfterRaise,
      Write, Sending, LoopFree
<1>7. EndingInv'
  BY DEF TypeOK, EndingInv, NumberedInv, WorkerInv, Taken, Ending, SendFails,
      Ends, End, AfterRaise, Write, Sending, LoopFree
<1>8. WatchInv'
  BY DEF TypeOK, WatchInv, StepInv, NumberedInv, WorkerInv, DispatchInv,
      Taken, Watched, Swept, Native, SendFails, Ends, End, AfterRaise, Write,
      Sending, LoopFree
<1> QED BY <1>1, <1>2, <1>3, <1>4, <1>5, <1>6, <1>7, <1>8

\* A closed request leaves the row to its end.
LEMMA RequestClosesInv ==
    ASSUME IInv, NEW j \in Jobs, RequestCloses(j)
    PROVE  IInv'
<1> USE NamesAssumption, BoundsAssumption DEF IInv, Jobs
<1>1. TypeOK'
  BY DEF TypeOK, Statuses, Steps, Terminal, Native, count, RequestCloses,
      Ends, End, rows, LoopFree
<1>2. NumberedInv'
  BY DEF TypeOK, NumberedInv, WorkerInv, Taken, Swept, Ending, RequestCloses,
      Ends, End, rows, LoopFree
<1>3. StepInv'
  BY DEF TypeOK, StepInv, WorkerInv, NumberedInv, Running, Native,
      RequestCloses, Ends, End, rows, LoopFree
<1>4. SlotExclusive'
  BY DEF TypeOK, SlotExclusive, StepInv, NumberedInv, WorkerInv, Running,
      Statuses, Terminal, Native, RequestCloses, Ends, End, rows, LoopFree
<1>5. WorkerInv'
  BY DEF TypeOK, WorkerInv, NumberedInv, DispatchInv, EndingInv, WatchInv,
      Taken, Ending, Watched, Swept, Native, RequestCloses, Ends, End, rows,
      LoopFree
<1>6. DispatchInv'
  BY DEF TypeOK, DispatchInv, NumberedInv, WorkerInv, EndingInv, WatchInv,
      Taken, Ending, Watched, Swept, Native, RequestCloses, Ends, End, rows,
      LoopFree
<1>7. EndingInv'
  BY DEF TypeOK, EndingInv, NumberedInv, WorkerInv, Taken, Ending,
      RequestCloses, Ends, End, rows, LoopFree
<1>8. WatchInv'
  BY DEF TypeOK, WatchInv, StepInv, NumberedInv, WorkerInv, DispatchInv,
      Taken, Watched, Swept, Native, RequestCloses, Ends, End, rows, LoopFree
<1> QED BY <1>1, <1>2, <1>3, <1>4, <1>5, <1>6, <1>7, <1>8

\* A completing worker frees the slot and begins its end.
LEMMA SendCompletesInv ==
    ASSUME IInv, NEW j \in Jobs, SendCompletes(j)
    PROVE  IInv'
<1> USE NamesAssumption, BoundsAssumption DEF IInv, Jobs
<1>1. TypeOK'
  <2>1. status' \in [Jobs -> Statuses]
    BY DEF TypeOK, SendCompletes, Write, Statuses, Terminal
  <2>2. step' \in [Jobs -> Steps]
    BY DEF TypeOK, SendCompletes, Write, Steps
  <2>3. err' \in [Jobs -> {"interrupted", "other"}]
    BY DEF TypeOK, SendCompletes, Write
  <2>4. edits' \in SUBSET Jobs
    <3>1. edits' = edits \cup {j} \/ edits' = edits BY DEF SendCompletes
    <3>2. edits \in SUBSET Jobs /\ j \in Jobs BY DEF TypeOK
    <3> QED BY ONLY <3>1, <3>2
  <2>5. bound' \in SUBSET Listings
    BY NamesAssumption DEF TypeOK, NumberedInv, SendCompletes, Sending
  <2>6. tail' \in [job : Jobs, at : {"idle", "abandon", "release", "requeue", "except"},
                   then : {"done", "except", "again"}]
    BY DEF TypeOK, SendCompletes, Ends, End, AfterRaise
  <2> QED BY <2>1, <2>2, <2>3, <2>4, <2>5, <2>6 DEF TypeOK, SendCompletes, Ends, count
<1>2. NumberedInv'
  BY DEF TypeOK, NumberedInv, WorkerInv, Taken, Swept, Ending, SendCompletes,
      Ends, End, AfterRaise, Write, Sending, LoopFree
<1>3. StepInv'
  BY DEF TypeOK, StepInv, WorkerInv, NumberedInv, Running, Native,
      SendCompletes, Ends, End, AfterRaise, Write, Sending, LoopFree
<1>4. SlotExclusive'
  BY FewerHolders DEF TypeOK, SendCompletes, Write
<1>5. WorkerInv'
  BY DEF TypeOK, WorkerInv, NumberedInv, DispatchInv, EndingInv, WatchInv,
      Taken, Ending, Watched, Swept, Native, SendCompletes, Ends, End,
      AfterRaise, Write, Sending, LoopFree
<1>6. DispatchInv'
  BY DEF TypeOK, DispatchInv, NumberedInv, WorkerInv, EndingInv, WatchInv,
      Taken, Ending, Watched, Swept, Native, SendCompletes, Ends, End,
      AfterRaise, Write, Sending, LoopFree
<1>7. EndingInv'
  BY DEF TypeOK, EndingInv, NumberedInv, WorkerInv, Taken, Ending,
      SendCompletes, Ends, End, AfterRaise, Write, Sending, LoopFree
<1>8. WatchInv'
  BY DEF TypeOK, WatchInv, StepInv, NumberedInv, WorkerInv, DispatchInv,
      Taken, Watched, Swept, Native, SendCompletes, Ends, End, AfterRaise,
      Write, Sending, LoopFree
<1> QED BY <1>1, <1>2, <1>3, <1>4, <1>5, <1>6, <1>7, <1>8

\* The end of a worker fails what it left running.
LEMMA AbandonInv == ASSUME IInv, Abandon PROVE IInv'
<1> USE NamesAssumption, BoundsAssumption DEF IInv, Jobs
<1>1. TypeOK'
  <2>1. tail.job \in Jobs BY DEF TypeOK
  <2>2. status' \in [Jobs -> Statuses] /\ step' \in [Jobs -> Steps]
        /\ err' \in [Jobs -> {"interrupted", "other"}]
    BY <2>1, WriteTypes DEF TypeOK, Abandon, Statuses, Steps, Terminal
  <2>3. tail' \in [job : Jobs, at : {"idle", "abandon", "release", "requeue", "except"},
                   then : {"done", "except", "again"}]
    BY DEF TypeOK, Abandon, End
  <2> QED BY <2>1, <2>2, <2>3 DEF TypeOK, Abandon, count
<1>2. NumberedInv'
  BY DEF TypeOK, NumberedInv, WorkerInv, Taken, Swept, Ending, Abandon, Write,
      End
<1>3. StepInv'
  BY DEF TypeOK, StepInv, WorkerInv, NumberedInv, Running, Native, Abandon,
      Write, End
<1>4. SlotExclusive'
  BY FewerHolders DEF TypeOK, Abandon, Write
<1>5. WorkerInv'
  BY DEF TypeOK, WorkerInv, NumberedInv, DispatchInv, EndingInv, WatchInv,
      Taken, Ending, Watched, Swept, Native, Abandon, Write, End
<1>6. DispatchInv'
  BY DEF TypeOK, DispatchInv, NumberedInv, WorkerInv, EndingInv, WatchInv,
      Taken, Ending, Watched, Swept, Native, Abandon, Write, End
<1>7. EndingInv'
  BY DEF TypeOK, EndingInv, NumberedInv, WorkerInv, Taken, Ending, Abandon,
      Write, End
<1>8. WatchInv'
  BY DEF TypeOK, WatchInv, StepInv, NumberedInv, WorkerInv, DispatchInv,
      Taken, Watched, Swept, Native, Abandon, Write, End
<1> QED BY <1>1, <1>2, <1>3, <1>4, <1>5, <1>6, <1>7, <1>8

\* A job is released when no worker has it; a dispatcher that took it again
\* finds it resumed before.
LEMMA ReleaseInv == ASSUME IInv, Release PROVE IInv'
<1> USE NamesAssumption, BoundsAssumption DEF IInv, Jobs
<1>1. TypeOK'
  BY DEF TypeOK, Statuses, Steps, Terminal, Native, count, Release, rows, End
<1>2. NumberedInv'
  BY DEF TypeOK, NumberedInv, WorkerInv, Taken, Swept, Ending, Release, rows,
      End
<1>3. StepInv'
  BY DEF TypeOK, StepInv, WorkerInv, NumberedInv, Running, Native, Release,
      rows, End
<1>4. SlotExclusive'
  BY DEF TypeOK, SlotExclusive, StepInv, NumberedInv, WorkerInv, Running,
      Statuses, Terminal, Native, Release, rows, End
<1>5. WorkerInv'
  BY DEF TypeOK, WorkerInv, NumberedInv, DispatchInv, EndingInv, WatchInv,
      Taken, Ending, Watched, Swept, Native, Release, rows, End
<1>6. DispatchInv'
  BY DEF TypeOK, DispatchInv, NumberedInv, WorkerInv, EndingInv, WatchInv,
      Taken, Ending, Watched, Swept, Native, Release, rows, End
<1>7. EndingInv'
  BY DEF TypeOK, EndingInv, NumberedInv, WorkerInv, Taken, Ending, Release,
      rows, End
<1>8. WatchInv'
  BY DEF TypeOK, WatchInv, StepInv, NumberedInv, WorkerInv, DispatchInv,
      Taken, Watched, Swept, Native, Release, rows, End
<1> QED BY <1>1, <1>2, <1>3, <1>4, <1>5, <1>6, <1>7, <1>8

\* The resume at a worker's exit happens once, and no worker is left.
LEMMA RequeueAfterExitInv == ASSUME IInv, RequeueAfterExit PROVE IInv'
<1> USE NamesAssumption, BoundsAssumption DEF IInv, Jobs
<1>1. TypeOK'
  <2>1. tail.job \in Jobs BY DEF TypeOK
  <2>3. tail' \in [job : Jobs, at : {"idle", "abandon", "release", "requeue", "except"},
                   then : {"done", "except", "again"}]
    BY DEF TypeOK, RequeueAfterExit, AfterExit, NoEnd, End
  <2> QED BY <2>1, <2>3, RequeueTypes DEF TypeOK, RequeueAfterExit
<1>2. NumberedInv'
  BY DEF TypeOK, NumberedInv, WorkerInv, Taken, Swept, Ending,
      RequeueAfterExit, AfterExit, RequeueInterruptedSend, Requeueable, Write,
      NoEnd, End
<1>3. StepInv'
  BY DEF TypeOK, StepInv, WorkerInv, NumberedInv, Running, Native,
      RequeueAfterExit, AfterExit, RequeueInterruptedSend, Requeueable, Write,
      NoEnd, End
<1>4. SlotExclusive'
  BY FewerHolders DEF TypeOK, RequeueAfterExit, RequeueInterruptedSend, Write
<1>5. WorkerInv'
  BY DEF TypeOK, WorkerInv, NumberedInv, DispatchInv, EndingInv, WatchInv,
      Taken, Ending, Watched, Swept, Native, RequeueAfterExit, AfterExit,
      RequeueInterruptedSend, Requeueable, Write, NoEnd, End
<1>6. DispatchInv'
  BY DEF TypeOK, DispatchInv, NumberedInv, WorkerInv, EndingInv, WatchInv,
      Taken, Ending, Watched, Swept, Native, RequeueAfterExit, AfterExit,
      RequeueInterruptedSend, Requeueable, Write, NoEnd, End
<1>7. EndingInv'
  BY DEF TypeOK, EndingInv, NumberedInv, WorkerInv, Taken, Ending,
      RequeueAfterExit, AfterExit, RequeueInterruptedSend, Requeueable, Write,
      NoEnd, End
<1>8. WatchInv'
  BY DEF TypeOK, WatchInv, StepInv, NumberedInv, WorkerInv, DispatchInv,
      Taken, Watched, Swept, Native, RequeueAfterExit, AfterExit,
      RequeueInterruptedSend, Requeueable, Write, NoEnd, End
<1> QED BY <1>1, <1>2, <1>3, <1>4, <1>5, <1>6, <1>7, <1>8

\* The except clause only ever frees the slot.
LEMMA RunSendExceptInv == ASSUME IInv, RunSendExcept PROVE IInv'
<1> USE NamesAssumption, BoundsAssumption DEF IInv, Jobs
<1>1. TypeOK'
  <2>1. tail.job \in Jobs BY DEF TypeOK
  <2>2. status' \in [Jobs -> Statuses] /\ step' \in [Jobs -> Steps]
        /\ err' \in [Jobs -> {"interrupted", "other"}]
    BY <2>1, WriteTypes DEF TypeOK, RunSendExcept, Statuses, Steps, Terminal
  <2>3. tail' \in [job : Jobs, at : {"idle", "abandon", "release", "requeue", "except"},
                   then : {"done", "except", "again"}]
    BY DEF TypeOK, RunSendExcept, End
  <2> QED BY <2>1, <2>2, <2>3 DEF TypeOK, RunSendExcept, count
<1>2. NumberedInv'
  BY DEF TypeOK, NumberedInv, WorkerInv, Taken, Swept, Ending, RunSendExcept,
      Write, End
<1>3. StepInv'
  BY DEF TypeOK, StepInv, WorkerInv, NumberedInv, Running, Native,
      RunSendExcept, Write, End
<1>4. SlotExclusive'
  BY FewerHolders DEF TypeOK, RunSendExcept, Write
<1>5. WorkerInv'
  BY DEF TypeOK, WorkerInv, NumberedInv, DispatchInv, EndingInv, WatchInv,
      Taken, Ending, Watched, Swept, Native, RunSendExcept, Write, End
<1>6. DispatchInv'
  BY DEF TypeOK, DispatchInv, NumberedInv, WorkerInv, EndingInv, WatchInv,
      Taken, Ending, Watched, Swept, Native, RunSendExcept, Write, End
<1>7. EndingInv'
  BY DEF TypeOK, EndingInv, NumberedInv, WorkerInv, Taken, Ending,
      RunSendExcept, Write, End
<1>8. WatchInv'
  BY DEF TypeOK, WatchInv, StepInv, NumberedInv, WorkerInv, DispatchInv,
      Taken, Watched, Swept, Native, RunSendExcept, Write, End
<1> QED BY <1>1, <1>2, <1>3, <1>4, <1>5, <1>6, <1>7, <1>8

\* A direct action ends its job and may complete an earlier failed one.
LEMMA FinishNativeInv ==
    ASSUME IInv, NEW j \in Jobs, NEW s \in Terminal, NEW settled, FinishNative(j, s, settled)
    PROVE  IInv'
<1> USE NamesAssumption, BoundsAssumption DEF IInv, Jobs
<1>1. TypeOK'
  BY DEF TypeOK, Statuses, Steps, Terminal, Native, count, FinishNative,
      LoopFree
<1>2. NumberedInv'
  BY DEF TypeOK, NumberedInv, Taken, Swept, Ending, FinishNative, LoopFree, Terminal
<1>3. StepInv'
  BY DEF TypeOK, StepInv, Running, FinishNative, Terminal
<1>4. SlotExclusive'
  BY FewerHolders DEF TypeOK, FinishNative, Terminal
<1>5. WorkerInv'
  BY DEF TypeOK, WorkerInv, NumberedInv, DispatchInv, EndingInv, WatchInv,
      Taken, Ending, Watched, Swept, Native, FinishNative, LoopFree
<1>6. DispatchInv'
  BY DEF TypeOK, DispatchInv, NumberedInv, WorkerInv, EndingInv, WatchInv,
      Taken, Ending, Watched, Swept, Native, FinishNative, LoopFree
<1>7. EndingInv'
  BY DEF TypeOK, EndingInv, NumberedInv, WorkerInv, Taken, Ending,
      FinishNative, LoopFree
<1>8. WatchInv'
  BY DEF TypeOK, WatchInv, StepInv, NumberedInv, WorkerInv, DispatchInv,
      Taken, Watched, Swept, Native, FinishNative, LoopFree
<1> QED BY <1>1, <1>2, <1>3, <1>4, <1>5, <1>6, <1>7, <1>8

\* The watchdog reads a job that runs: nothing has it in hand from the queue.
LEMMA ReadRunningInv ==
    ASSUME IInv, NEW j \in Jobs, NEW quiet \in {1, 2}, ReadRunning(j, quiet)
    PROVE  IInv'
<1> USE NamesAssumption, BoundsAssumption DEF IInv, Jobs
<1>1. TypeOK'
  BY DEF TypeOK, Statuses, Steps, Terminal, Native, count, ReadRunning, rows,
      LoopFree, Running
<1>2. NumberedInv'
  BY DEF TypeOK, NumberedInv, WorkerInv, Taken, Swept, Ending, ReadRunning,
      rows, LoopFree, Running, Native
<1>3. StepInv'
  BY DEF TypeOK, StepInv, WorkerInv, NumberedInv, Running, Native,
      ReadRunning, rows, LoopFree
<1>4. SlotExclusive'
  BY DEF TypeOK, SlotExclusive, StepInv, NumberedInv, WorkerInv, Running,
      Statuses, Terminal, Native, ReadRunning, rows, LoopFree
<1>5. WorkerInv'
  BY DEF TypeOK, WorkerInv, NumberedInv, DispatchInv, EndingInv, WatchInv,
      Taken, Ending, Watched, Swept, Native, ReadRunning, rows, LoopFree,
      Running
<1>6. DispatchInv'
  BY DEF TypeOK, DispatchInv, NumberedInv, WorkerInv, EndingInv, WatchInv,
      Taken, Ending, Watched, Swept, Native, ReadRunning, rows, LoopFree,
      Running
<1>7. EndingInv'
  BY DEF TypeOK, EndingInv, NumberedInv, WorkerInv, Taken, Ending,
      ReadRunning, rows, LoopFree, Running, Native
<1>8. WatchInv'
  BY DEF TypeOK, WatchInv, StepInv, NumberedInv, WorkerInv, DispatchInv,
      Taken, Watched, Swept, Native, ReadRunning, rows, LoopFree, Running
<1> QED BY <1>1, <1>2, <1>3, <1>4, <1>5, <1>6, <1>7, <1>8

\* The verdict only frees the slot; a job found dead has no worker, unless it
\* was resumed before.
LEMMA FailStalledInv == ASSUME IInv, FailStalled PROVE IInv'
<1> USE NamesAssumption, BoundsAssumption DEF IInv, Jobs
<1>1. TypeOK'
  <2>1. wd.job \in Jobs BY DEF TypeOK
  <2>2. status' \in [Jobs -> Statuses] /\ step' \in [Jobs -> Steps]
        /\ err' \in [Jobs -> {"interrupted", "other"}]
    BY <2>1, WriteTypes DEF TypeOK, FailStalled, Statuses, Steps, Terminal
  <2>3. wd' \in [job : Jobs, at : {"idle", "read", "dead", "after"},
                 kind : {"api", "native"}, quiet : {1, 2}]
    BY <2>1, BoundsAssumption DEF TypeOK, FailStalled, WdIdle, Sweep
  <2> QED BY <2>1, <2>2, <2>3 DEF TypeOK, FailStalled, count
<1>2. NumberedInv'
  <2>1. wd'.at = "dead" => wd'.job = wd.job /\ wd.kind = "api" /\ wd.job \notin live
    BY DEF TypeOK, FailStalled, WdIdle, Sweep
  <2>2. wd'.at # "read" BY DEF FailStalled, WdIdle, Sweep
  <2>3. \A i \in Jobs : Swept(i)' => Swept(i)
    BY <2>1, <2>2 DEF Swept, FailStalled
  <2>4. \A i \in Jobs : status'[i] = "none" <=> status[i] = "none"
    BY DEF TypeOK, NumberedInv, Swept, FailStalled, Write
  <2> QED BY <2>3, <2>4 DEF NumberedInv, Taken, Ending, FailStalled
<1>3. StepInv'
  BY DEF TypeOK, StepInv, WorkerInv, NumberedInv, Running, Native,
      FailStalled, Write, WdIdle, Sweep
<1>4. SlotExclusive'
  BY FewerHolders DEF TypeOK, FailStalled, Write
<1>5. WorkerInv'
  BY DEF TypeOK, WorkerInv, NumberedInv, DispatchInv, EndingInv, WatchInv,
      Taken, Ending, Watched, Swept, Native, FailStalled, Write, WdIdle, Sweep
<1>6. DispatchInv'
  BY DEF TypeOK, DispatchInv, NumberedInv, WorkerInv, EndingInv, WatchInv,
      Taken, Ending, Watched, Swept, Native, FailStalled, Write, WdIdle, Sweep
<1>7. EndingInv'
  BY DEF TypeOK, EndingInv, NumberedInv, WorkerInv, Taken, Ending,
      FailStalled, Write, WdIdle, Sweep
<1>8. WatchInv'
  <2>1. wd'.at = "dead" => wd'.job = wd.job /\ wd.kind = "api" /\ wd.job \notin live
    BY DEF TypeOK, FailStalled, WdIdle, Sweep
  <2>2. wd'.at # "read" BY DEF FailStalled, WdIdle, Sweep
  <2>3. \A i \in Jobs : Watched(i)' => Watched(i) /\ i = wd.job /\ i \notin live
    BY <2>1, <2>2 DEF Watched, Swept, FailStalled
  <2> QED BY <2>3 DEF TypeOK, WatchInv, NumberedInv, WorkerInv, Taken, FailStalled, Write
<1> QED BY <1>1, <1>2, <1>3, <1>4, <1>5, <1>6, <1>7, <1>8

\* A dead send is queued again only if nothing runs it.
LEMMA ResumeDeadInv == ASSUME IInv, ResumeDead PROVE IInv'
<1> USE NamesAssumption, BoundsAssumption DEF IInv, Jobs
<1>1. TypeOK'
  <2>1. wd.job \in Jobs BY DEF TypeOK
  <2>2. RequeueInterruptedSend(wd.job) BY DEF ResumeDead
  <2>3. wd' \in [job : Jobs, at : {"idle", "read", "dead", "after"},
                 kind : {"api", "native"}, quiet : {1, 2}]
    BY BoundsAssumption DEF ResumeDead, Sweep
  <2>4. /\ status' \in [Jobs -> Statuses] /\ step' \in [Jobs -> Steps]
        /\ err' \in [Jobs -> {"interrupted", "other"}]
        /\ retried' \in SUBSET Jobs /\ resumes' \in [Jobs -> Nat]
    BY <2>1, <2>2, RequeueTypes
  <2> QED BY <2>3, <2>4 DEF TypeOK, ResumeDead
<1>2. NumberedInv'
  BY DEF TypeOK, NumberedInv, WorkerInv, Taken, Swept, Ending, ResumeDead,
      RequeueInterruptedSend, Requeueable, Write, WdIdle, Sweep
<1>3. StepInv'
  BY DEF TypeOK, StepInv, WorkerInv, NumberedInv, Running, Native, ResumeDead,
      RequeueInterruptedSend, Requeueable, Write, WdIdle, Sweep
<1>4. SlotExclusive'
  BY FewerHolders DEF TypeOK, ResumeDead, RequeueInterruptedSend, Write
<1>5. WorkerInv'
  <2> DEFINE j == wd.job
  <2>1. CASE ~Requeueable(status[j], err[j], step[j], j)
    BY <2>1 DEF TypeOK, WorkerInv, Taken, Ending, ResumeDead, RequeueInterruptedSend
  <2>2. CASE Requeueable(status[j], err[j], step[j], j)
    <3>1. j \in Jobs /\ Watched(j) /\ j \notin retried
      BY <2>2 DEF TypeOK, NumberedInv, Watched, Swept, ResumeDead, Requeueable
    <3>2. worker[j] = "none" /\ ~Taken(j)
      BY <3>1 DEF WatchInv, ResumeDead
    <3> QED BY <2>2, <3>1, <3>2 DEF TypeOK, WorkerInv, NumberedInv, Taken, Ending, ResumeDead,
          RequeueInterruptedSend, Write, Native
  <2> QED BY <2>1, <2>2
<1>6. DispatchInv'
  <2> DEFINE j == wd.job
  <2>1. CASE ~Requeueable(status[j], err[j], step[j], j)
    BY <2>1 DEF TypeOK, DispatchInv, Taken, Ending, ResumeDead, RequeueInterruptedSend
  <2>2. CASE Requeueable(status[j], err[j], step[j], j)
    <3>1. j \in Jobs /\ Watched(j) /\ j \notin retried
      BY <2>2 DEF TypeOK, NumberedInv, Watched, Swept, ResumeDead, Requeueable
    <3>2. worker[j] = "none" /\ ~Taken(j)
      BY <3>1 DEF WatchInv, ResumeDead
    <3> QED BY <2>2, <3>1, <3>2 DEF TypeOK, DispatchInv, NumberedInv, Taken, Ending, ResumeDead,
          RequeueInterruptedSend, Write, Native
  <2> QED BY <2>1, <2>2
<1>7. EndingInv'
  BY DEF TypeOK, EndingInv, NumberedInv, WorkerInv, Taken, Ending, ResumeDead,
      RequeueInterruptedSend, Requeueable, Write, WdIdle, Sweep
<1>8. WatchInv'
  BY DEF TypeOK, WatchInv, StepInv, NumberedInv, WorkerInv, DispatchInv,
      Taken, Watched, Swept, Native, ResumeDead, RequeueInterruptedSend,
      Requeueable, Write, WdIdle, Sweep
<1> QED BY <1>1, <1>2, <1>3, <1>4, <1>5, <1>6, <1>7, <1>8

\* The end of a sweep kicks the dispatcher.
LEMMA SweepEndsInv == ASSUME IInv, SweepEnds PROVE IInv'
<1> USE NamesAssumption, BoundsAssumption DEF IInv, Jobs
<1>1. TypeOK'
  BY DEF TypeOK, Statuses, Steps, Terminal, Native, count, SweepEnds, End,
      WdIdle, Sweep, rows
<1>2. NumberedInv'
  BY DEF TypeOK, NumberedInv, WorkerInv, Taken, Swept, Ending, SweepEnds, End,
      WdIdle, Sweep, rows
<1>3. StepInv'
  BY DEF TypeOK, StepInv, WorkerInv, NumberedInv, Running, Native, SweepEnds,
      End, WdIdle, Sweep, rows
<1>4. SlotExclusive'
  BY DEF TypeOK, SlotExclusive, StepInv, NumberedInv, WorkerInv, Running,
      Statuses, Terminal, Native, SweepEnds, End, WdIdle, Sweep, rows
<1>5. WorkerInv'
  BY DEF TypeOK, WorkerInv, NumberedInv, DispatchInv, EndingInv, WatchInv,
      Taken, Ending, Watched, Swept, Native, SweepEnds, End, WdIdle, Sweep,
      rows
<1>6. DispatchInv'
  BY DEF TypeOK, DispatchInv, NumberedInv, WorkerInv, EndingInv, WatchInv,
      Taken, Ending, Watched, Swept, Native, SweepEnds, End, WdIdle, Sweep,
      rows
<1>7. EndingInv'
  BY DEF TypeOK, EndingInv, NumberedInv, WorkerInv, Taken, Ending, SweepEnds,
      End, WdIdle, Sweep, rows
<1>8. WatchInv'
  BY DEF TypeOK, WatchInv, StepInv, NumberedInv, WorkerInv, DispatchInv,
      Taken, Watched, Swept, Native, SweepEnds, End, WdIdle, Sweep, rows
<1> QED BY <1>1, <1>2, <1>3, <1>4, <1>5, <1>6, <1>7, <1>8

\* A reconnect queues only sends that no worker, dispatcher or watchdog holds.
LEMMA ReconnectWorkInv ==
    ASSUME IInv, LoopFree, UNCHANGED <<conv, edits, bound, made, live, worker, tail, disp, wd, torn>>, conn' \in {"on", "settling"}, ReconnectWork
    PROVE  IInv'
<1> USE NamesAssumption, BoundsAssumption DEF IInv, Jobs
<1>1. TypeOK'
  <2>1. status' \in [Jobs -> Statuses] /\ err' \in [Jobs -> {"interrupted", "other"}]
    BY DEF TypeOK, ReconnectWork, Resumable, Statuses, Terminal
  <2>2. retried' \in SUBSET Jobs
    BY DEF TypeOK, ReconnectWork, Resumable, Running
  <2>3. resumes' \in [Jobs -> Nat]
    BY DEF TypeOK, ReconnectWork, Resumable
  <2> QED BY <2>1, <2>2, <2>3 DEF TypeOK, ReconnectWork
<1>2. NumberedInv'
  BY DEF TypeOK, NumberedInv, WorkerInv, Taken, Swept, Ending, ReconnectWork,
      Resumable, Running, LoopFree, Native
<1>3. StepInv'
  BY DEF TypeOK, StepInv, WorkerInv, NumberedInv, Running, Native,
      ReconnectWork, Resumable, LoopFree
<1>4. SlotExclusive'
  BY FewerHolders DEF TypeOK, ReconnectWork, Resumable
<1>5. WorkerInv'
  BY DEF TypeOK, WorkerInv, NumberedInv, DispatchInv, EndingInv, WatchInv,
      Taken, Ending, Watched, Swept, Native, ReconnectWork, Resumable,
      Running, LoopFree
<1>6. DispatchInv'
  BY DEF TypeOK, DispatchInv, NumberedInv, WorkerInv, EndingInv, WatchInv,
      Taken, Ending, Watched, Swept, Native, ReconnectWork, Resumable,
      Running, LoopFree
<1>7. EndingInv'
  BY DEF TypeOK, EndingInv, NumberedInv, WorkerInv, Taken, Ending,
      ReconnectWork, Resumable, Running, LoopFree, Native
<1>8. WatchInv'
  BY DEF TypeOK, WatchInv, StepInv, NumberedInv, WorkerInv, DispatchInv,
      Taken, Watched, Swept, Native, ReconnectWork, Resumable, Running,
      LoopFree
<1> QED BY <1>1, <1>2, <1>3, <1>4, <1>5, <1>6, <1>7, <1>8

\* Losing the socket changes no job.
LEMMA MarkDisconnectedInv == ASSUME IInv, MarkDisconnected PROVE IInv'
<1> USE NamesAssumption, BoundsAssumption DEF IInv, Jobs
<1>1. TypeOK'
  BY DEF TypeOK, Statuses, Steps, Terminal, Native, count, MarkDisconnected,
      rows, LoopFree
<1>2. NumberedInv'
  BY DEF TypeOK, NumberedInv, WorkerInv, Taken, Swept, Ending,
      MarkDisconnected, rows, LoopFree
<1>3. StepInv'
  BY DEF TypeOK, StepInv, WorkerInv, NumberedInv, Running, Native,
      MarkDisconnected, rows, LoopFree
<1>4. SlotExclusive'
  BY DEF TypeOK, SlotExclusive, StepInv, NumberedInv, WorkerInv, Running,
      Statuses, Terminal, Native, MarkDisconnected, rows, LoopFree
<1>5. WorkerInv'
  BY DEF TypeOK, WorkerInv, NumberedInv, DispatchInv, EndingInv, WatchInv,
      Taken, Ending, Watched, Swept, Native, MarkDisconnected, rows, LoopFree
<1>6. DispatchInv'
  BY DEF TypeOK, DispatchInv, NumberedInv, WorkerInv, EndingInv, WatchInv,
      Taken, Ending, Watched, Swept, Native, MarkDisconnected, rows, LoopFree
<1>7. EndingInv'
  BY DEF TypeOK, EndingInv, NumberedInv, WorkerInv, Taken, Ending,
      MarkDisconnected, rows, LoopFree
<1>8. WatchInv'
  BY DEF TypeOK, WatchInv, StepInv, NumberedInv, WorkerInv, DispatchInv,
      Taken, Watched, Swept, Native, MarkDisconnected, rows, LoopFree
<1> QED BY <1>1, <1>2, <1>3, <1>4, <1>5, <1>6, <1>7, <1>8

\* After a crash nothing has any job in hand.
LEMMA CrashInv == ASSUME IInv, Crash PROVE IInv'
<1> USE NamesAssumption, BoundsAssumption DEF IInv, Jobs
<1>1. TypeOK'
  BY DEF TypeOK, Statuses, Steps, Terminal, Native, count, Crash, ProcessGone,
      rows, NoEnd, End, DispIdle, Disp, WdIdle, Sweep
<1>2. NumberedInv'
  BY DEF TypeOK, NumberedInv, WorkerInv, Taken, Swept, Ending, Crash,
      ProcessGone, rows, NoEnd, End, DispIdle, Disp, WdIdle, Sweep
<1>3. StepInv'
  BY DEF TypeOK, StepInv, WorkerInv, NumberedInv, Running, Native, Crash,
      ProcessGone, rows, NoEnd, End, DispIdle, Disp, WdIdle, Sweep
<1>4. SlotExclusive'
  BY DEF TypeOK, SlotExclusive, StepInv, NumberedInv, WorkerInv, Running,
      Statuses, Terminal, Native, Crash, ProcessGone, rows, NoEnd, End,
      DispIdle, Disp, WdIdle, Sweep
<1>5. WorkerInv'
  BY DEF TypeOK, WorkerInv, NumberedInv, DispatchInv, EndingInv, WatchInv,
      Taken, Ending, Watched, Swept, Native, Crash, ProcessGone, rows, NoEnd,
      End, DispIdle, Disp, WdIdle, Sweep
<1>6. DispatchInv'
  BY DEF TypeOK, DispatchInv, NumberedInv, WorkerInv, EndingInv, WatchInv,
      Taken, Ending, Watched, Swept, Native, Crash, ProcessGone, rows, NoEnd,
      End, DispIdle, Disp, WdIdle, Sweep
<1>7. EndingInv'
  BY DEF TypeOK, EndingInv, NumberedInv, WorkerInv, Taken, Ending, Crash,
      ProcessGone, rows, NoEnd, End, DispIdle, Disp, WdIdle, Sweep
<1>8. WatchInv'
  BY DEF TypeOK, WatchInv, StepInv, NumberedInv, WorkerInv, DispatchInv,
      Taken, Watched, Swept, Native, Crash, ProcessGone, rows, NoEnd, End,
      DispIdle, Disp, WdIdle, Sweep
<1> QED BY <1>1, <1>2, <1>3, <1>4, <1>5, <1>6, <1>7, <1>8

\* Nor after the crash that leaves a resumed job without its event.
LEMMA CrashMidRequeueInv ==
    ASSUME IInv, NEW j \in Jobs, CrashMidRequeue(j)
    PROVE  IInv'
<1> USE NamesAssumption, BoundsAssumption DEF IInv, Jobs
<1>1. TypeOK'
  BY DEF TypeOK, Statuses, Steps, Terminal, Native, count, CrashMidRequeue,
      ProcessGone, Requeueable, Write, NoEnd, End, DispIdle, Disp, WdIdle,
      Sweep
<1>2. NumberedInv'
  BY DEF TypeOK, NumberedInv, WorkerInv, Taken, Swept, Ending,
      CrashMidRequeue, ProcessGone, Requeueable, Write, NoEnd, End, DispIdle,
      Disp, WdIdle, Sweep
<1>3. StepInv'
  BY DEF TypeOK, StepInv, WorkerInv, NumberedInv, Running, Native,
      CrashMidRequeue, ProcessGone, Requeueable, Write, NoEnd, End, DispIdle,
      Disp, WdIdle, Sweep
<1>4. SlotExclusive'
  BY DEF TypeOK, SlotExclusive, StepInv, NumberedInv, WorkerInv, Running,
      Statuses, Terminal, Native, CrashMidRequeue, ProcessGone, Requeueable,
      Write, NoEnd, End, DispIdle, Disp, WdIdle, Sweep
<1>5. WorkerInv'
  BY DEF TypeOK, WorkerInv, NumberedInv, DispatchInv, EndingInv, WatchInv,
      Taken, Ending, Watched, Swept, Native, CrashMidRequeue, ProcessGone,
      Requeueable, Write, NoEnd, End, DispIdle, Disp, WdIdle, Sweep
<1>6. DispatchInv'
  BY DEF TypeOK, DispatchInv, NumberedInv, WorkerInv, EndingInv, WatchInv,
      Taken, Ending, Watched, Swept, Native, CrashMidRequeue, ProcessGone,
      Requeueable, Write, NoEnd, End, DispIdle, Disp, WdIdle, Sweep
<1>7. EndingInv'
  BY DEF TypeOK, EndingInv, NumberedInv, WorkerInv, Taken, Ending,
      CrashMidRequeue, ProcessGone, Requeueable, Write, NoEnd, End, DispIdle,
      Disp, WdIdle, Sweep
<1>8. WatchInv'
  BY DEF TypeOK, WatchInv, StepInv, NumberedInv, WorkerInv, DispatchInv,
      Taken, Watched, Swept, Native, CrashMidRequeue, ProcessGone,
      Requeueable, Write, NoEnd, End, DispIdle, Disp, WdIdle, Sweep
<1> QED BY <1>1, <1>2, <1>3, <1>4, <1>5, <1>6, <1>7, <1>8

\* IInv holds at the start.
LEMMA InitInv == ASSUME Init PROVE IInv
<1> USE NamesAssumption, BoundsAssumption DEF Init, Jobs, DispIdle, Disp, WdIdle, Sweep, NoEnd, End
<1>1. TypeOK BY DEF TypeOK, Statuses, Steps
<1>2. NumberedInv BY DEF NumberedInv, Taken, Swept, Ending
<1>3. StepInv BY DEF StepInv, Running
<1>4. SlotExclusive BY DEF SlotExclusive, Running
<1>5. WorkerInv BY DEF WorkerInv
<1>6. DispatchInv BY DEF DispatchInv, Taken
<1>7. EndingInv BY DEF EndingInv, Ending
<1>8. WatchInv BY DEF WatchInv, Watched, Swept
<1> QED BY <1>1, <1>2, <1>3, <1>4, <1>5, <1>6, <1>7, <1>8 DEF IInv

\* A pairing that is not a flap does the reconnect work at once.
LEMMA AfterPairingInv ==
    ASSUME IInv, NEW flap \in BOOLEAN, AfterPairing(flap) PROVE IInv'
<1>1. CASE flap
  BY <1>1 DEF AfterPairing, IInv, TypeOK, NumberedInv, StepInv, SlotExclusive, WorkerInv,
      DispatchInv, EndingInv, WatchInv, Running, Taken, Swept, Watched, Ending
<1>2. CASE ~flap
  BY <1>2, ReconnectWorkInv DEF AfterPairing
<1> QED BY <1>1, <1>2

\* A step that changes nothing keeps every invariant.
LEMMA StutterInv == ASSUME IInv, UNCHANGED vars PROVE IInv'
BY DEF vars, IInv, TypeOK, NumberedInv, StepInv, SlotExclusive, WorkerInv,
      DispatchInv, EndingInv, WatchInv, Running, Taken, Swept, Watched, Ending

\* Every step keeps IInv.
LEMMA NextInv == ASSUME IInv, [Next]_vars PROVE IInv'
<1>1. CASE Requests
  BY <1>1, EnqueueSendInv, SendNowInv, StartNativeInv, CancelJobInv, CancelLeftoverJobsInv,
     GetQueueInv DEF Requests
<1>2. CASE Dispatcher
  BY <1>2, NextDispatchPickInv, NextDispatchMarkInv, NextDispatchClaimInv, SpawnRunSendInv DEF Dispatcher
<1>3. CASE \E j \in Jobs : SendWorker(j)
  BY <1>3, RunSendInv, MarkInv, SendFailsInv, RequestClosesInv, SendCompletesInv DEF SendWorker
<1>4. CASE \E j \in Jobs : NativeWorker(j)
  BY <1>4, FinishNativeInv DEF NativeWorker
<1>5. CASE WorkerEnd
  BY <1>5, AbandonInv, ReleaseInv, RequeueAfterExitInv, RunSendExceptInv DEF WorkerEnd
<1>6. CASE Watchdog
  BY <1>6, ReadRunningInv, FailStalledInv, ResumeDeadInv, SweepEndsInv DEF Watchdog
<1>7. CASE Chrome
  <2>1. CASE ReconnectWorkAfterSettle
    BY <2>1, ReconnectWorkInv DEF ReconnectWorkAfterSettle
  <2> QED BY <1>7, <2>1, AfterPairingInv, MarkDisconnectedInv DEF Chrome
<1>8. CASE Crashes
  BY <1>8, CrashInv, CrashMidRequeueInv DEF Crashes
<1>9. CASE UNCHANGED vars
  BY <1>9, StutterInv
<1> QED BY <1>1, <1>2, <1>3, <1>4, <1>5, <1>6, <1>7, <1>8, <1>9 DEF Next

\* The invariant that carries the rest.
THEOREM Invariance == Spec => []IInv
<1>1. Init => IInv BY InitInv
<1>2. IInv /\ [Next]_vars => IInv' BY NextInv
<1> QED BY <1>1, <1>2, PTL DEF Spec

\* Every variable keeps its type.
THEOREM TypeCorrect == Spec => []TypeOK
<1>1. IInv => TypeOK BY DEF IInv
<1> QED BY <1>1, Invariance, PTL

\* Chrome is never given to two jobs at once, except to direct actions on
\* different marketplaces: whatever the order of requests, threads, reconnects
\* and crashes.
THEOREM SlotExclusion == Spec => []SlotExclusive
<1>1. IInv => SlotExclusive BY DEF IInv
<1> QED BY <1>1, Invariance, PTL

\* No send waits in the queue while a coroutine still runs it: putting a send
\* back never makes it run twice at a time.
THEOREM NoSendRunsTwice == Spec => []QueuedIsNotSent
<1>1. IInv => QueuedIsNotSent
  BY DEF IInv, QueuedIsNotSent, WorkerInv, Waiting
<1> QED BY <1>1, Invariance, PTL

\* The dispatcher spawns run_send only for a job nobody works on.
THEOREM OneWorkerPerJob == Spec => []ClaimedHasNoWorker
<1>1. IInv => ClaimedHasNoWorker
  BY DEF IInv, TypeOK, ClaimedHasNoWorker, WorkerInv, Taken
<1> QED BY <1>1, Invariance, PTL

----------------------------------------------------------------------------
(* How often a send is put back.                                           *)

\* ResumedOnce by itself is not inductive: nothing in it says that a send that
\* was put back is not put back again.  The event in the job's history does;
\* a resume without one is a torn requeue.
ResumesInv == \A j \in Jobs : resumes[j] <= torn + (IF j \in retried THEN 1 ELSE 0)

\* A step that resumes nothing.
LEMMA NothingResumed ==
    ASSUME ResumesInv, UNCHANGED <<retried, resumes, torn>> PROVE ResumesInv'
BY DEF ResumesInv

\* requeue_interrupted_send counts a resume only where it adds the event.
LEMMA RequeueCounts ==
    ASSUME TypeOK, ResumesInv, NEW j \in Jobs, RequeueInterruptedSend(j), UNCHANGED torn
    PROVE  ResumesInv'
<1>1. torn \in Nat /\ resumes \in [Jobs -> Nat] /\ retried \in SUBSET Jobs
  BY BoundsAssumption DEF TypeOK
<1>2. CASE Requeueable(status[j], err[j], step[j], j)
  BY <1>1, <1>2 DEF RequeueInterruptedSend, Requeueable, ResumesInv
<1>3. CASE ~Requeueable(status[j], err[j], step[j], j)
  BY <1>3, NothingResumed DEF RequeueInterruptedSend
<1> QED BY <1>2, <1>3

\* So does the work of a reconnect, which leaves out what was resumed before.
LEMMA ReconnectCounts ==
    ASSUME TypeOK, ResumesInv, ReconnectWork, UNCHANGED torn
    PROVE  ResumesInv'
<1>1. torn \in Nat /\ resumes \in [Jobs -> Nat]
  BY BoundsAssumption DEF TypeOK
<1>2. PICK resumed \in SUBSET Jobs :
        /\ resumed \cap retried = {}
        /\ retried' = retried \cup resumed
        /\ resumes' = [j \in Jobs |-> IF j \in resumed THEN resumes[j] + 1 ELSE resumes[j]]
  BY DEF ReconnectWork, Resumable, Running
<1> QED BY <1>1, <1>2 DEF ResumesInv

\* A crash between the two commits is counted as torn.
LEMMA CrashCounts ==
    ASSUME TypeOK, ResumesInv, NEW j \in Jobs, CrashMidRequeue(j)
    PROVE  ResumesInv'
<1>1. torn \in Nat /\ resumes \in [Jobs -> Nat]
  BY BoundsAssumption DEF TypeOK
<1> QED BY <1>1 DEF CrashMidRequeue, ResumesInv

\* A send resumes by itself at most once, and once more for each crash that
\* fell between the two commits of requeue_interrupted_send.
THEOREM ResumedAtMostOnce == Spec => []ResumedOnce
<1>1. Init => ResumesInv
  BY BoundsAssumption DEF Init, ResumesInv
<1>2. IInv /\ ResumesInv /\ [Next]_vars => ResumesInv'
  <2> SUFFICES ASSUME IInv, ResumesInv, [Next]_vars PROVE ResumesInv'
    OBVIOUS
  <2>0. TypeOK BY DEF IInv
  <2> DEFINE Quiet == UNCHANGED <<retried, resumes, torn>>
  <2>1. Requests => Quiet
    BY DEF Requests, EnqueueSend, SendNow, StartNative, CancelJob, CancelLeftoverJobs, GetQueue,
       rows, procs, count
  <2>2. Dispatcher => Quiet
    BY DEF Dispatcher, NextDispatchPick, NextDispatchMark, NextDispatchClaim, SpawnRunSend, rows, count
  <2>3. ASSUME NEW j \in Jobs, SendWorker(j) \/ NativeWorker(j) PROVE Quiet
    BY <2>3 DEF SendWorker, RunSend, Mark, SendFails, RequestCloses, SendCompletes, NativeWorker,
       FinishNative, rows, count
  <2>4. CASE WorkerEnd
    <3>1. CASE RequeueAfterExit
      BY <2>0, <3>1, RequeueCounts DEF RequeueAfterExit, TypeOK
    <3>2. Abandon \/ Release \/ RunSendExcept => Quiet
      BY DEF Abandon, Release, RunSendExcept, rows, count
    <3> QED BY <2>4, <3>1, <3>2, NothingResumed DEF WorkerEnd
  <2>5. CASE Watchdog
    <3>1. CASE ResumeDead
      BY <2>0, <3>1, RequeueCounts DEF ResumeDead, TypeOK
    <3>2. FailStalled \/ SweepEnds \/ (\E j \in Jobs, quiet \in {1, 2} : ReadRunning(j, quiet)) => Quiet
      BY DEF FailStalled, SweepEnds, ReadRunning, rows, count
    <3> QED BY <2>5, <3>1, <3>2, NothingResumed DEF Watchdog
  <2>6. CASE Chrome
    <3>1. CASE ReconnectWork /\ UNCHANGED torn
      BY <2>0, <3>1, ReconnectCounts
    <3>2. CASE UNCHANGED <<retried, resumes, torn>>
      BY <3>2, NothingResumed
    <3> QED
      BY <2>6, <3>1, <3>2 DEF Chrome, AfterPairing, ReconnectWorkAfterSettle, MarkDisconnected,
         rows, count
  <2>7. CASE Crashes
    <3>1. Crash => Quiet
      BY DEF Crash, rows, count
    <3> QED BY <2>0, <2>7, <3>1, CrashCounts, NothingResumed DEF Crashes
  <2>8. UNCHANGED vars => Quiet
    BY DEF vars
  <2> QED
    BY <2>1, <2>2, <2>3, <2>4, <2>5, <2>6, <2>7, <2>8, NothingResumed DEF Next
<1>3. IInv /\ ResumesInv => ResumedOnce
  BY BoundsAssumption DEF IInv, TypeOK, ResumesInv, ResumedOnce
<1> QED
  BY <1>1, <1>2, <1>3, Invariance, PTL DEF Spec

----------------------------------------------------------------------------
(* Finished jobs.                                                          *)

Done(j) == status[j] \in {"completed", "cancelled"}

\* Only the two threads write over a completed or cancelled job, and only one
\* they read before it ended.
THEOREM TerminalStays == Spec => FinishedIsFinal
<1> DEFINE Stale(j) == \/ disp.at = "picked" /\ disp.job = j /\ status'[j] = "dispatched"
                       \/ wd.at = "read" /\ wd.job = j /\ status'[j] = "failed"
           Kept == \A j \in Jobs : Done(j) /\ status'[j] # status[j] => Stale(j)
<1>1. IInv /\ [Next]_vars => Kept
  <2> SUFFICES ASSUME IInv, [Next]_vars, NEW j \in Jobs, Done(j), status'[j] # status[j]
               PROVE  Stale(j)
    OBVIOUS
  <2>0. TypeOK /\ status \in [Jobs -> Statuses] /\ j # made + 1 /\ made \in Nat
    BY DEF IInv, TypeOK, NumberedInv, Done
  <2>1. ASSUME NEW c \in Listings, EnqueueSend(c) \/ SendNow(c) PROVE FALSE
    BY <2>0, <2>1 DEF EnqueueSend, SendNow, Create, Write
  <2>2. ASSUME NEW c \in Listings, NEW k \in Native, StartNative(c, k) PROVE FALSE
    BY <2>0, <2>2 DEF StartNative, Create, Write
  <2>3. ASSUME NEW i \in Jobs, CancelJob(i) PROVE FALSE
    BY <2>0, <2>3 DEF CancelJob, Write, Done
  <2>4. ASSUME CancelLeftoverJobs \/ GetQueue PROVE FALSE
    BY <2>0, <2>4 DEF CancelLeftoverJobs, GetQueue, rows, Active, Running, Waiting, Done
  <2>5. ASSUME NextDispatchPick \/ NextDispatchClaim \/ SpawnRunSend PROVE FALSE
    BY <2>5 DEF NextDispatchPick, NextDispatchClaim, SpawnRunSend, rows
  <2>6. CASE NextDispatchMark
    BY <2>0, <2>6 DEF NextDispatchMark, Write
  <2>7. ASSUME NEW i \in Jobs, RunSend(i) \/ Mark(i) \/ SendFails(i) \/ RequestCloses(i) \/ SendCompletes(i)
        PROVE  FALSE
    BY <2>0, <2>7 DEF RunSend, Mark, SendFails, RequestCloses, SendCompletes, Write, rows,
       Terminal, Done
  <2>8. ASSUME NEW i \in Jobs, NativeWorker(i) PROVE FALSE
    BY <2>0, <2>8 DEF NativeWorker, FinishNative, Terminal, Done
  <2>9. ASSUME Abandon \/ Release \/ RunSendExcept PROVE FALSE
    BY <2>0, <2>9 DEF Abandon, Release, RunSendExcept, Write, rows, Done
  <2>10. ASSUME RequeueAfterExit \/ ResumeDead PROVE FALSE
    BY <2>0, <2>10 DEF RequeueAfterExit, ResumeDead, RequeueInterruptedSend, Requeueable, Write, Done
  <2>11. CASE FailStalled
    BY <2>0, <2>11 DEF FailStalled, Write
  <2>12. ASSUME SweepEnds \/ MarkDisconnected \/ Crash \/ \E i \in Jobs, quiet \in {1, 2} : ReadRunning(i, quiet)
         PROVE  FALSE
    BY <2>12 DEF SweepEnds, MarkDisconnected, Crash, ReadRunning, rows
  <2>13. ASSUME ReconnectWork PROVE FALSE
    BY <2>0, <2>13 DEF ReconnectWork, Running, Done
  <2>14. ASSUME NEW i \in Jobs, CrashMidRequeue(i) PROVE FALSE
    BY <2>0, <2>14 DEF CrashMidRequeue, Requeueable, Write, Done
  <2>15. ASSUME Chrome PROVE FALSE
    BY <2>12, <2>13, <2>15 DEF Chrome, AfterPairing, ReconnectWorkAfterSettle
  <2>16. ASSUME UNCHANGED vars PROVE FALSE
    BY <2>16 DEF vars
  <2> QED
    BY <2>1, <2>2, <2>3, <2>4, <2>5, <2>6, <2>7, <2>8, <2>9, <2>10, <2>11, <2>12, <2>14, <2>15, <2>16
       DEF Next, Requests, Dispatcher, SendWorker, WorkerEnd, Watchdog, Crashes
<1> QED
  BY <1>1, Invariance, PTL DEF Spec, FinishedIsFinal, Done

----------------------------------------------------------------------------
(* The jobs table implements the slot.                                     *)

\* What a job holds.
Held == [j \in Jobs |-> IF status[j] = "dispatched" THEN step[j] ELSE "free"]

\* A step that dispatches nothing gives the slot back, or leaves it.
LEMMA Gives ==
    ASSUME IInv, \A j \in Jobs : status'[j] = "dispatched" => status[j] = "dispatched" /\ step'[j] = step[j]
    PROVE  Slot!Give
<1>1. \A j \in Jobs : Held[j] \in Slot!Uses
  BY DEF Held, IInv, StepInv, Running, Native, Slot!Uses
<1>2. \A j \in Jobs : Held'[j] \in {"free", Held[j]}
  BY DEF Held
<1>3. \A j \in Jobs : Held'[j] \in Slot!Uses
  BY <1>1, <1>2 DEF Slot!Uses
<1> QED
  BY <1>2, <1>3 DEF Slot!Give, Held

\* A job is dispatched when there is room for what it does.
LEMMA Takes ==
    ASSUME IInv, NEW j \in Jobs, NEW use \in Markets \cup {"api", "exclusive"}, NEW e,
           status[j] # "dispatched", Write(j, "dispatched", use, e),
           \A i \in Running : use \in Markets /\ step[i] \in Markets \ {use}
    PROVE  \E k \in Jobs, u \in Markets \cup {"api", "exclusive"} : Slot!Take(k, u)
<1>1. status \in [Jobs -> Statuses] /\ step \in [Jobs -> Steps]
  BY DEF IInv, TypeOK
<1>2. Held[j] = "free" /\ Held' = [Held EXCEPT ![j] = use]
  BY <1>1 DEF Held, Write
<1>3. \A i \in Jobs : Held[i] = "free" \/ (use \in Markets /\ Held[i] \in Markets \ {use})
  BY DEF Held, Running
<1> QED
  BY <1>2, <1>3 DEF Slot!Take, Slot!Room, Held

\* The Send queue implements the abstract slot: whatever threads, restarts and
\* the seller do, a job takes Chrome only when there is room, and gives it back.
THEOREM Refinement == Spec => SlotSpec
<1>1. Init => Slot!Init
  BY DEF Init, Slot!Init
<1>2. IInv /\ [Next]_vars => [Slot!Next]_Held
  <2> SUFFICES ASSUME IInv, [Next]_vars PROVE Slot!Next
    OBVIOUS
  <2> DEFINE Leaves == \A j \in Jobs :
                status'[j] = "dispatched" => status[j] = "dispatched" /\ step'[j] = step[j]
  <2> SUFFICES Leaves \/ \E k \in Jobs, u \in Markets \cup {"api", "exclusive"} : Slot!Take(k, u)
    BY Gives DEF Slot!Next
  <2>0. /\ status \in [Jobs -> Statuses] /\ step \in [Jobs -> Steps] /\ made \in Nat
        /\ made < MaxJobs => made + 1 \in Jobs /\ status[made + 1] = "none"
    BY BoundsAssumption DEF IInv, TypeOK, NumberedInv, Jobs
  <2>1. ASSUME NEW c \in Listings, EnqueueSend(c) PROVE Leaves
    BY <2>0, <2>1 DEF EnqueueSend, Create, Write
  <2>2. ASSUME NEW c \in Listings, SendNow(c)
        PROVE  \E k \in Jobs, u \in Markets \cup {"api", "exclusive"} : Slot!Take(k, u)
    BY <2>0, <2>2, Takes DEF SendNow, Create
  <2>3. ASSUME NEW c \in Listings, NEW k \in Native, StartNative(c, k)
        PROVE  \E i \in Jobs, u \in Markets \cup {"api", "exclusive"} : Slot!Take(i, u)
    <3>1. \A i \in Running : k \in Markets /\ step[i] \in Markets \ {k}
      BY <2>3 DEF StartNative, Blocked, Active
    <3> QED
      BY <2>0, <2>3, <3>1, Takes DEF StartNative, Create, Native
  <2>4. ASSUME NEW j \in Jobs, CancelJob(j) PROVE Leaves
    BY <2>0, <2>4 DEF CancelJob, Write
  <2>5. ASSUME CancelLeftoverJobs \/ GetQueue PROVE Leaves
    BY <2>0, <2>5 DEF CancelLeftoverJobs, GetQueue, rows, Active, Running
  <2>6. ASSUME NextDispatchPick \/ NextDispatchClaim \/ SpawnRunSend PROVE Leaves
    BY <2>6 DEF NextDispatchPick, NextDispatchClaim, SpawnRunSend, rows
  <2>7. CASE NextDispatchMark
    <3>1. CASE Running = {}
      <4>1. disp.job \in Jobs /\ status[disp.job] # "dispatched"
        BY <3>1 DEF IInv, TypeOK, Running
      <4>2. Write(disp.job, "dispatched", "api", err[disp.job])
        BY <2>7, <3>1 DEF NextDispatchMark
      <4> QED
        BY <3>1, <4>1, <4>2, Takes
    <3>2. CASE Running # {}
      BY <2>7, <3>2 DEF NextDispatchMark
    <3> QED
      BY <3>1, <3>2
  <2>8. ASSUME NEW j \in Jobs, RunSend(j) \/ SendFails(j) \/ RequestCloses(j) \/ SendCompletes(j)
        PROVE  Leaves
    BY <2>0, <2>8 DEF RunSend, SendFails, RequestCloses, SendCompletes, Write, rows
  <2>9. ASSUME NEW j \in Jobs, Mark(j) PROVE Leaves
    <3>1. worker[j] \in {"run_send", "request"} /\ status[j] \notin Terminal
      BY <2>9 DEF Mark, Sending
    <3>2. status[j] = "dispatched" /\ step[j] = "api"
      BY <2>0, <3>1 DEF IInv, NumberedInv, WorkerInv, StepInv, Running, Statuses
    <3> QED
      BY <2>0, <2>9, <3>2 DEF Mark, Write
  <2>10. ASSUME NEW j \in Jobs, NativeWorker(j) PROVE Leaves
    BY <2>0, <2>10 DEF NativeWorker, FinishNative, Terminal
  <2>11. ASSUME Abandon \/ Release \/ RunSendExcept PROVE Leaves
    BY <2>0, <2>11 DEF Abandon, Release, RunSendExcept, Write, rows
  <2>12. ASSUME RequeueAfterExit \/ ResumeDead PROVE Leaves
    BY <2>0, <2>12 DEF RequeueAfterExit, ResumeDead, RequeueInterruptedSend, Write
  <2>13. ASSUME FailStalled PROVE Leaves
    BY <2>0, <2>13 DEF FailStalled, Write
  <2>14. ASSUME SweepEnds \/ MarkDisconnected \/ Crash \/ \E i \in Jobs, quiet \in {1, 2} : ReadRunning(i, quiet)
         PROVE  Leaves
    BY <2>14 DEF SweepEnds, MarkDisconnected, Crash, ReadRunning, rows
  <2>15. ASSUME ReconnectWork PROVE Leaves
    BY <2>0, <2>15 DEF ReconnectWork, Running
  <2>16. ASSUME NEW j \in Jobs, CrashMidRequeue(j) PROVE Leaves
    BY <2>0, <2>16 DEF CrashMidRequeue, Write
  <2>17. ASSUME Chrome PROVE Leaves
    BY <2>14, <2>15, <2>17 DEF Chrome, AfterPairing, ReconnectWorkAfterSettle
  <2>18. ASSUME UNCHANGED vars PROVE Leaves
    BY <2>18 DEF vars
  <2> QED
    BY <2>1, <2>2, <2>3, <2>4, <2>5, <2>6, <2>7, <2>8, <2>9, <2>10, <2>11, <2>12, <2>13, <2>14,
       <2>16, <2>17, <2>18 DEF Next, Requests, Dispatcher, SendWorker, WorkerEnd, Watchdog, Crashes
<1> QED
  BY <1>1, <1>2, Invariance, PTL DEF Spec, SlotSpec, Slot!Spec, Held
=============================================================================
