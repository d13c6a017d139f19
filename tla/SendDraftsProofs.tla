-------------------------- MODULE SendDraftsProofs --------------------------
(***************************************************************************)
(* What the sends do at Vendoo, for every number of listings, jobs and     *)
(* item ids: DInv is the inductive invariant.                              *)
(*                                                                         *)
(* One draft for each listing rests on its sends having one name between   *)
(* them (OneName), which a send that has not named its draft yet is about  *)
(* to use too (WillUse), and which every draft, made or on its way, has    *)
(* (Named).  That holds only for as long as the listing has one send under *)
(* way at a time (OneAtATime), and because a send that would make a draft  *)
(* never finds the listing's newest one completed (NoneCompleted).         *)
(***************************************************************************)
EXTENDS SendDrafts, SendQueueProofs, FiniteSetTheorems, WellFoundedInduction

----------------------------------------------------------------------------
(* The invariant.                                                          *)

SendWorkers == {"spawned", "run_send", "request"}

\* Job j is a send that somebody is going to run, runs or has just run.
Sender(j) ==
    \/ worker[j] \in SendWorkers \/ Taken(j) \/ Watched(j) \/ Ending(j)
    \/ j \in Active /\ step[j] = "api"

\* A send stays one, and is not given out again once it completed.
SenderInv == \A j \in Jobs :
    /\ status[j] = "queued" => step[j] = "api"
    /\ Sender(j) => step[j] \notin Native
    /\ worker[j] \in SendWorkers \/ Taken(j) => status[j] # "completed"

\* What create_item knows, and for which job it works.
WorkOf(j) ==
    /\ work[j] # NoWork => work[j].phase # "none" /\ worker[j] \in {"run_send", "request"}
    /\ work[j].previous # NoName => owner[work[j].previous] = conv[j]
    /\ work[j].recovered => work[j].previous \in drafts
    /\ work[j].phase \in {"read", "stored"} => work[j].item # NoName /\ owner[work[j].item] = conv[j]
    /\ work[j].phase = "stored" => work[j].item \in drafts

WorkInv == \A j \in Jobs : WorkOf(j)

Unnamed == {"look", "prepare", "photos"}

\* A name belongs to the listing of the send that named it.
OwnerInv ==
    /\ \A j \in Jobs : ckpt[j] # NoName =>
        /\ owner[ckpt[j]] = conv[j]
        /\ status[j] # "none" /\ step[j] \notin Native
        /\ status[j] = "completed" => conv[j] \in bound
    /\ \A id \in drafts \cup sent : owner[id] # NoListing

OneAtATime == \A c \in Listings : Doubling(c) => c \in doubled

NoneCompleted == \A i, j \in Jobs :
    conv[i] = conv[j] /\ conv[i] \notin doubled /\ ckpt[i] # NoName /\ Sender(j) /\ j \notin edits
        => status[i] # "completed"

OneName == \A i, j \in Jobs :
    conv[i] = conv[j] /\ conv[i] \notin doubled /\ ckpt[i] # NoName /\ ckpt[j] # NoName
        => ckpt[i] = ckpt[j]

WillUse == \A i, j \in Jobs :
    conv[i] = conv[j] /\ conv[i] \notin doubled /\ ckpt[i] # NoName
        /\ work[j].phase \in Unnamed
        => ckpt[i] = work[j].previous

Named == \A id \in drafts \cup sent :
    owner[id] \notin doubled => \E j \in Jobs : conv[j] = owner[id] /\ ckpt[j] = id

DInv ==
    /\ DTypeOK /\ WorkInv /\ OwnerInv /\ BoundDraftExists
    /\ OneAtATime /\ NoneCompleted /\ OneName /\ WillUse /\ Named

----------------------------------------------------------------------------
(* What a step of the queue does to one job.                               *)

\* Who a job is and what it can still become: it keeps its listing; nothing
\* but its creation makes it a send, which saves a bound listing; and only the
\* worker of a send completes it, binding the listing.
JobStep(j) ==
    /\ status[j] # "none" =>
        conv'[j] = conv[j] /\ (step[j] \notin Native => step'[j] \notin Native)
    /\ j \in edits => j \in edits'
    /\ conv[j] \in bound => conv[j] \in bound'
    /\ Sender(j)' /\ ~Sender(j) =>
        /\ status[j] = "none" /\ step'[j] = "api"
        /\ conv'[j] \in bound => j \in edits'
    /\ status'[j] = "queued" => step'[j] = "api"
    /\ status'[j] = "completed" =>
        /\ worker'[j] \notin SendWorkers /\ ~Taken(j)'
        /\ \/ status[j] = "completed" \/ step[j] \in Native
           \/ Ending(j)' /\ conv[j] \in bound' /\ j \in edits'

\* A step that leaves a job's row, its threads and its worker alone.
LEMMA JobKept ==
    ASSUME IInv, SenderInv, NEW j \in Jobs,
           j \in edits => j \in edits', bound' = bound,
           /\ status'[j] = status[j] /\ step'[j] = step[j] /\ conv'[j] = conv[j]
           /\ worker'[j] = worker[j],
           Taken(j)' => Taken(j), Watched(j)' => Watched(j), Ending(j)' => Ending(j)
    PROVE  JobStep(j)
BY DEF SenderInv, JobStep, Sender, Active, Running, Waiting

\* Requests create jobs, or end them.
LEMMA RequestJobStep == ASSUME IInv, SenderInv, Requests, NEW j \in Jobs PROVE JobStep(j)
<1> USE DEF JobStep, Sender, SendWorkers, Active, Running, Waiting, Taken, Watched, Swept, Ending
<1>1. TypeOK /\ NumberedInv /\ made \in Nat
  BY DEF IInv, TypeOK
<1>2. ASSUME NEW c \in Listings, EnqueueSend(c) PROVE JobStep(j)
  BY <1>1, <1>2 DEF EnqueueSend, Create, Write, SenderInv, TypeOK, NumberedInv
<1>3. ASSUME NEW c \in Listings, SendNow(c) PROVE JobStep(j)
  BY <1>1, <1>3 DEF SendNow, Create, Write, SenderInv, TypeOK, NumberedInv
<1>4. ASSUME NEW c \in Listings, NEW k \in Native, StartNative(c, k) PROVE JobStep(j)
  BY <1>1, <1>4, NamesAssumption DEF StartNative, Create, Write, SenderInv, TypeOK, NumberedInv, Native
<1>5. ASSUME NEW i \in Jobs, CancelJob(i) PROVE JobStep(j)
  BY <1>1, <1>5, NamesAssumption DEF CancelJob, Write, SenderInv, TypeOK, Native
<1>6. CASE CancelLeftoverJobs
  BY <1>1, <1>6, NamesAssumption DEF CancelLeftoverJobs, procs, SenderInv, TypeOK, Native
<1>7. CASE GetQueue
  BY <1>7, JobKept DEF GetQueue, rows
<1> QED BY <1>2, <1>3, <1>4, <1>5, <1>6, <1>7 DEF Requests

\* The dispatcher takes a job that is queued, so a send, and hands it on.
LEMMA DispatchJobStep == ASSUME IInv, SenderInv, Dispatcher, NEW j \in Jobs PROVE JobStep(j)
<1> USE DEF JobStep, Sender, SendWorkers, Active, Running, Waiting, Taken, Watched, Swept, Ending
<1>1. TypeOK /\ DispatchInv /\ disp.job \in Jobs
  BY DEF IInv, TypeOK
<1>2. CASE NextDispatchPick
  BY <1>1, <1>2 DEF NextDispatchPick, rows, Disp, SenderInv, TypeOK
<1>3. CASE NextDispatchMark
  BY <1>1, <1>3, NamesAssumption DEF NextDispatchMark, Write, Disp, DispIdle, SenderInv, TypeOK, Native
<1>4. CASE NextDispatchClaim
  BY <1>1, <1>4 DEF NextDispatchClaim, rows, Disp, SenderInv, TypeOK
<1>5. CASE SpawnRunSend
  BY <1>1, <1>5 DEF SpawnRunSend, rows, Disp, DispIdle, SenderInv, TypeOK
<1> QED BY <1>2, <1>3, <1>4, <1>5 DEF Dispatcher

\* A worker of a send ends as one, and alone completes it.
LEMMA WorkerJobStep ==
    ASSUME IInv, SenderInv, NEW i \in Jobs, SendWorker(i), NEW j \in Jobs PROVE JobStep(j)
<1> USE DEF JobStep, Sender, SendWorkers, Active, Running, Waiting, Taken, Watched, Swept, Ending
<1>1. TypeOK /\ WorkerInv
  BY DEF IInv
<1>2. CASE RunSend(i)
  BY <1>1, <1>2 DEF RunSend, Ends, End, Write, LoopFree, SenderInv, WorkerInv, TypeOK
<1>3. CASE Mark(i)
  BY <1>1, <1>3, NamesAssumption DEF Mark, Sending, Write, LoopFree, SenderInv, TypeOK, Native
<1>4. CASE SendFails(i)
  BY <1>1, <1>4 DEF SendFails, Sending, Ends, End, Write, LoopFree, SenderInv, WorkerInv, TypeOK
<1>5. CASE RequestCloses(i)
  BY <1>1, <1>5 DEF RequestCloses, rows, Ends, End, LoopFree, SenderInv, WorkerInv, TypeOK
<1>6. CASE SendCompletes(i)
  BY <1>1, <1>6, NamesAssumption
     DEF SendCompletes, Sending, Ends, End, Write, LoopFree, SenderInv, WorkerInv, TypeOK, Native, Terminal
<1> QED BY <1>2, <1>3, <1>4, <1>5, <1>6 DEF SendWorker

\* A direct action ends its own job, or settles an earlier direct action.
LEMMA NativeJobStep ==
    ASSUME IInv, SenderInv, NEW i \in Jobs, NativeWorker(i), NEW j \in Jobs PROVE JobStep(j)
<1> USE DEF JobStep, Sender, SendWorkers, Active, Running, Waiting, Taken, Watched, Swept, Ending
<1>1. TypeOK /\ WorkerInv /\ StepInv /\ NumberedInv
  BY DEF IInv
<1>2. PICK s \in Terminal, settled \in SUBSET Jobs : FinishNative(i, s, settled)
  BY DEF NativeWorker
<1>3. worker[i] = "native" /\ status[i] \notin Terminal => step[i] \in Native
  BY <1>1 DEF WorkerInv, StepInv, NumberedInv, TypeOK, Statuses
<1>4. \A k \in settled : step[k] \in Native
  BY <1>2 DEF FinishNative, Native
<1> QED
  BY <1>1, <1>2, <1>3, <1>4 DEF FinishNative, SenderInv, TypeOK, Terminal

\* The synchronous end of a worker puts back only the send it is the end of.
LEMMA WorkerEndJobStep == ASSUME IInv, SenderInv, WorkerEnd, NEW j \in Jobs PROVE JobStep(j)
<1> USE DEF JobStep, Sender, SendWorkers, Active, Running, Waiting, Taken, Watched, Swept, Ending
<1>1. TypeOK /\ tail.job \in Jobs
  BY DEF IInv, TypeOK
<1>2. CASE Abandon
  BY <1>1, <1>2, NamesAssumption DEF Abandon, End, Write, SenderInv, TypeOK, Native
<1>3. CASE Release
  BY <1>1, <1>3 DEF Release, End, rows, SenderInv, TypeOK
<1>4. CASE RequeueAfterExit
  BY <1>1, <1>4, NamesAssumption DEF RequeueAfterExit, RequeueInterruptedSend, Requeueable, AfterExit,
     NoEnd, End, Write, SenderInv, TypeOK, Native
<1>5. CASE RunSendExcept
  BY <1>1, <1>5 DEF RunSendExcept, End, Write, SenderInv, TypeOK
<1> QED BY <1>2, <1>3, <1>4, <1>5 DEF WorkerEnd

\* The watchdog fails what it read, and puts back only a send.
LEMMA WatchdogJobStep == ASSUME IInv, SenderInv, Watchdog, NEW j \in Jobs PROVE JobStep(j)
<1> USE DEF JobStep, Sender, SendWorkers, Active, Running, Waiting, Taken, Watched, Swept, Ending
<1>1. TypeOK /\ StepInv /\ wd.job \in Jobs
  BY DEF IInv, TypeOK
<1>2. ASSUME NEW i \in Jobs, NEW quiet \in {1, 2}, ReadRunning(i, quiet) PROVE JobStep(j)
  BY <1>1, <1>2 DEF ReadRunning, rows, SenderInv, StepInv, TypeOK
<1>3. CASE FailStalled
  BY <1>1, <1>3 DEF FailStalled, WdIdle, Sweep, Write, SenderInv, TypeOK
<1>4. CASE ResumeDead
  BY <1>1, <1>4, NamesAssumption DEF ResumeDead, RequeueInterruptedSend, Requeueable, Sweep, Write,
     SenderInv, TypeOK, Native
<1>5. CASE SweepEnds
  BY <1>1, <1>5 DEF SweepEnds, WdIdle, Sweep, rows, SenderInv, TypeOK
<1> QED BY <1>2, <1>3, <1>4, <1>5 DEF Watchdog

\* A reconnect puts back sends that run; a crash only forgets.
LEMMA OutsideJobStep ==
    ASSUME IInv, SenderInv, Chrome \/ Crashes \/ UNCHANGED vars, NEW j \in Jobs PROVE JobStep(j)
<1> USE DEF JobStep, Sender, SendWorkers, Active, Running, Waiting, Taken, Watched, Swept, Ending
<1>1. TypeOK /\ tail.job \in Jobs /\ wd.job \in Jobs
  BY DEF IInv, TypeOK
<1>2. CASE ReconnectWork /\ UNCHANGED <<conv, edits, bound, worker, tail, disp, wd>>
  BY <1>1, <1>2 DEF ReconnectWork, SenderInv, TypeOK
<1>3. CASE UNCHANGED <<status, step, conv, edits, bound, worker, tail, disp, wd>>
  BY <1>3, JobKept
<1>4. CASE Crash
  BY <1>1, <1>4 DEF Crash, ProcessGone, rows, NoEnd, End, DispIdle, Disp, WdIdle, Sweep, SenderInv
<1>5. ASSUME NEW i \in Jobs, CrashMidRequeue(i) PROVE JobStep(j)
  BY <1>1, <1>5, NamesAssumption DEF CrashMidRequeue, ProcessGone, Requeueable, Write, NoEnd, End, DispIdle, Disp,
     WdIdle, Sweep, SenderInv, TypeOK, Native
<1> QED
  BY <1>2, <1>3, <1>4, <1>5
     DEF Chrome, AfterPairing, ReconnectWorkAfterSettle, MarkDisconnected, Crashes, rows, vars

\* So does every step.
LEMMA EveryJobStep == ASSUME IInv, SenderInv, [Next]_vars, NEW j \in Jobs PROVE JobStep(j)
BY RequestJobStep, DispatchJobStep, WorkerJobStep, NativeJobStep, WorkerEndJobStep, WatchdogJobStep,
   OutsideJobStep DEF Next

\* Sends stay sends.
LEMMA SenderStep == ASSUME IInv, SenderInv, [Next]_vars PROVE SenderInv'
<1>1. ASSUME NEW j \in Jobs
      PROVE  /\ status'[j] = "queued" => step'[j] = "api"
             /\ Sender(j)' => step'[j] \notin Native
             /\ worker'[j] \in SendWorkers \/ Taken(j)' => status'[j] # "completed"
  <2>1. JobStep(j)
    BY EveryJobStep
  <2>2. Sender(j) => status[j] # "none" /\ step[j] \notin Native
    BY DEF SenderInv, Sender, SendWorkers, IInv, NumberedInv, Watched, Active, Running, Waiting
  <2> QED
    BY <2>1, <2>2, NamesAssumption DEF JobStep, Native
<1> QED BY <1>1 DEF SenderInv

\* The queue's own invariant, with what its sends are.
LEMMA SendersHold == Spec => [](IInv /\ SenderInv)
<1>1. Init => SenderInv
  BY DEF Init, SenderInv, Sender, SendWorkers, Active, Running, Waiting, Taken, Watched, Swept, Ending,
     NoEnd, End, DispIdle, Disp, WdIdle, Sweep
<1>2. IInv /\ SenderInv /\ [Next]_vars => SenderInv'
  BY SenderStep
<1> QED BY <1>1, <1>2, Invariance, PTL DEF Spec

----------------------------------------------------------------------------
(* The newest checkpoint of a listing.                                     *)

\* A set of job numbers has a greatest one.
LEMMA Greatest ==
    ASSUME NEW n \in Nat, NEW S \in SUBSET (1 .. n), S # {}
    PROVE  \E j \in S : \A k \in S : k <= j
<1> DEFINE From(j) == {k \in S : k >= j}
           T == {From(j) : j \in S}
           R == StrictSubsetOrdering(1 .. n)
<1>1. IsWellFoundedOn(R, FiniteSubsetsOf(1 .. n))
  BY FS_StrictSubsetOrderingWellFounded
<1>2. T \subseteq FiniteSubsetsOf(1 .. n) /\ T # {}
  <2>1. IsFiniteSet(1 .. n) BY FS_Interval
  <2>2. ASSUME NEW j \in S PROVE IsFiniteSet(From(j)) /\ From(j) \in SUBSET (1 .. n)
    <3>1. From(j) \in SUBSET (1 .. n) OBVIOUS
    <3> HIDE DEF From
    <3> QED BY <2>1, <3>1, FS_Subset
  <2> QED BY <2>2 DEF FiniteSubsetsOf
<1>3. PICK x \in T : \A y \in T : <<y, x>> \notin R
  <2> HIDE DEF T, R
  <2> QED BY <1>1, <1>2, WFMin
<1>4. PICK j \in S : x = From(j)
  OBVIOUS
<1>5. ASSUME NEW k \in S PROVE k <= j
  <2>1. <<From(k), From(j)>> \notin R BY <1>3, <1>4
  <2>2. ~(From(k) \subseteq From(j)) \/ From(k) = From(j)
    BY <2>1 DEF StrictSubsetOrdering
  <2>3. CASE From(k) = From(j)
    <3>1. j \in From(j) OBVIOUS
    <3>2. j \in From(k) BY <2>3, <3>1
    <3> QED BY <3>2
  <2>4. CASE ~(From(k) \subseteq From(j))
    <3>1. PICK i \in S : i >= k /\ ~(i >= j) BY <2>4
    <3> QED BY <3>1
  <2> QED BY <2>2, <2>3, <2>4
<1> QED BY <1>5

\* The jobs of a listing that have a checkpoint.
Checkpointed(c) == {j \in Jobs : conv[j] = c /\ ckpt[j] # NoName}

\* pending_vendoo_send answers with a name some job of the listing has, or with
\* none: for want of one, or because the newest completed.
LEMMA PendingIsNamed ==
    ASSUME BoundsAssumption, NEW c
    PROVE  \/ Checkpointed(c) = {} /\ Pending(c) = NoName
           \/ \E j \in Checkpointed(c) :
                \/ status[j] = "completed" /\ Pending(c) = NoName
                \/ status[j] # "completed" /\ Pending(c) = ckpt[j]
<1>1. CASE Checkpointed(c) = {}
  BY <1>1 DEF Checkpointed, Pending
<1>2. CASE Checkpointed(c) # {}
  <2> DEFINE j == CHOOSE i \in Checkpointed(c) : \A k \in Checkpointed(c) : k <= i
  <2>1. j \in Checkpointed(c)
    <3>1. \E i \in Checkpointed(c) : \A k \in Checkpointed(c) : k <= i
      <4>1. MaxJobs \in Nat /\ Checkpointed(c) \in SUBSET (1 .. MaxJobs)
        BY BoundsAssumption DEF Checkpointed, Jobs
      <4> QED BY <1>2, <4>1, Greatest
    <3> QED BY <3>1
  <2>2. Pending(c) = IF status[j] = "completed" THEN NoName ELSE ckpt[j]
    BY <1>2 DEF Pending, Checkpointed
  <2> HIDE DEF j
  <2> QED BY <2>1, <2>2
<1> QED BY <1>1, <1>2

----------------------------------------------------------------------------
(* Steps of the sends, as steps of the queue.                              *)

\* Every step here is one of the queue, or is not about the queue at all.
LEMMA QueueStep == ASSUME [DNext]_<<vars, dvars>> PROVE [Next]_vars
<1>1. ASSUME NEW c \in Listings, SendDirectly(c) PROVE SendNow(c)
  BY <1>1 DEF SendDirectly
<1>2. ASSUME NEW j \in Jobs,
             StartSend(j) \/ MarkStep(j) \/ GiveUp(j) \/ Complete(j) \/ \E id \in Names : NameDraft(j, id)
      PROVE  SendWorker(j)
  BY <1>2 DEF StartSend, MarkStep, GiveUp, Complete, NameDraft, SendWorker
<1>3. ASSUME NEW j \in Jobs, Look(j) \/ ReadBack(j) PROVE UNCHANGED vars
  BY <1>3 DEF Look, ReadBack
<1>4. ASSUME NEW id \in Names, ChromeCreates(id) PROVE UNCHANGED vars
  BY <1>4 DEF ChromeCreates
<1>5. ProcessDies => Crashes
  BY DEF ProcessDies
<1>6. Elsewhere => Next
  BY DEF Elsewhere, OtherRequests, Next, Requests
<1> QED
  BY <1>1, <1>2, <1>3, <1>4, <1>5, <1>6 DEF DNext, DStep, Next, Requests

\* The sends with their drafts are a run of the queue: what holds of the queue
\* holds of them.
THEOREM DraftsRunTheQueue == DSpec => Spec
<1>1. DInit => Init
  BY DEF DInit
<1>2. [DNext]_<<vars, dvars>> => [Next]_vars
  BY QueueStep
<1> QED BY <1>1, <1>2, PTL DEF DSpec, Spec

\* The queue's invariants, under way.
LEMMA QueueHolds == DSpec => [](IInv /\ SenderInv)
BY DraftsRunTheQueue, SendersHold, PTL

\* Every step keeps account of the listings with two sends.
LEMMA DoubledGrows ==
    ASSUME OneAtATime, [DNext]_<<vars, dvars>>
    PROVE  doubled \subseteq doubled' /\ OneAtATime'
<1>1. CASE DNext
  BY <1>1 DEF DNext, OneAtATime
<1>2. CASE UNCHANGED <<vars, dvars>>
  BY <1>2 DEF OneAtATime, Doubling, UnderWay, Taken, Swept, Ending, Active, Running, Waiting, vars, dvars
<1> QED BY <1>1, <1>2

\* Two jobs of a listing in hand at once double it.
LEMMA TwoUnderWay ==
    ASSUME OneAtATime', NEW i \in Jobs, NEW j \in Jobs, i # j,
           UnderWay(i)', UnderWay(j)', conv'[i] = conv'[j], conv'[i] \in Listings
    PROVE  conv'[i] \in doubled'
BY DEF OneAtATime, Doubling

\* What is sent, run or ended is under way.
LEMMA SendersUnderWay ==
    ASSUME NEW j \in Jobs
    PROVE  /\ Sender(j)' => UnderWay(j)'
           /\ Ending(j)' => UnderWay(j)'
           /\ worker'[j] # "none" => UnderWay(j)'
BY DEF Sender, UnderWay, SendWorkers, Watched, Swept

\* Steps that are nobody's work on job j.
NotBy(j) ==
    \/ Requests \/ Dispatcher \/ WorkerEnd \/ Watchdog \/ Chrome \/ UNCHANGED vars
    \/ \E i \in Jobs : NativeWorker(i)
    \/ \E i \in Jobs \ {j} : SendWorker(i)

\* A worker that waits for Chrome is left to it.
LEMMA WorkerLeft ==
    ASSUME IInv, NEW j \in Jobs, worker[j] \in {"run_send", "request"}, NotBy(j)
    PROVE  worker'[j] = worker[j]
<1>1. TypeOK /\ NumberedInv /\ WorkerInv /\ worker \in [Jobs -> {"none", "spawned", "run_send", "request", "native"}]
  BY DEF IInv, TypeOK
<1>2. CASE Requests
  BY <1>1, <1>2 DEF Requests, EnqueueSend, SendNow, StartNative, CancelJob, CancelLeftoverJobs, GetQueue,
     Create, NumberedInv, TypeOK, procs
<1>3. CASE Dispatcher
  BY <1>1, <1>3 DEF Dispatcher, NextDispatchPick, NextDispatchMark, NextDispatchClaim,
     SpawnRunSend, WorkerInv, Taken
<1>4. ASSUME NEW i \in Jobs \ {j}, SendWorker(i) PROVE worker'[j] = worker[j]
  BY <1>1, <1>4 DEF SendWorker, RunSend, Mark, SendFails, RequestCloses, SendCompletes, Ends
<1>5. ASSUME NEW i \in Jobs, NativeWorker(i) PROVE worker'[j] = worker[j]
  BY <1>1, <1>5 DEF NativeWorker, FinishNative
<1>6. CASE WorkerEnd
  BY <1>6 DEF WorkerEnd, Abandon, Release, RequeueAfterExit, RunSendExcept
<1>7. CASE Watchdog
  BY <1>7 DEF Watchdog, ReadRunning, FailStalled, ResumeDead, SweepEnds
<1>8. CASE Chrome
  BY <1>8 DEF Chrome, AfterPairing, ReconnectWorkAfterSettle, MarkDisconnected
<1>9. CASE UNCHANGED vars
  BY <1>9 DEF vars
<1> QED BY <1>2, <1>3, <1>4, <1>5, <1>6, <1>7, <1>8, <1>9 DEF NotBy

----------------------------------------------------------------------------
(* One name for each listing.                                              *)

\* What is true at any step of the sends.
Moment == IInv /\ SenderInv /\ DInv /\ [DNext]_<<vars, dvars>>

\* What a moment gives: the queue's step, its jobs', and the listings doubled.
LEMMA MomentFacts ==
    ASSUME Moment
    PROVE  /\ [Next]_vars /\ IInv' /\ SenderInv' /\ OneAtATime' /\ doubled \subseteq doubled'
           /\ TypeOK /\ TypeOK' /\ NumberedInv /\ NumberedInv'
           /\ \A j \in Jobs : JobStep(j)
           /\ \A j \in Jobs : Sender(j) => status[j] # "none"
           /\ \A j \in Jobs : worker[j] # "none" => status[j] # "none" /\ conv[j] \in Listings
<1>1. [Next]_vars /\ IInv' /\ SenderInv'
  BY QueueStep, NextInv, SenderStep DEF Moment
<1>2. OneAtATime' /\ doubled \subseteq doubled'
  BY DoubledGrows DEF Moment, DInv
<1>3. \A j \in Jobs : JobStep(j)
  BY <1>1, EveryJobStep DEF Moment
<1>4. \A j \in Jobs : Sender(j) => status[j] # "none"
  BY DEF Moment, IInv, NumberedInv, Sender, SendWorkers, Watched, Active, Running, Waiting
<1>5. \A j \in Jobs : worker[j] # "none" => status[j] # "none" /\ conv[j] \in Listings
  BY DEF Moment, IInv, NumberedInv, TypeOK
<1> QED BY <1>1, <1>2, <1>3, <1>4, <1>5 DEF Moment, IInv

\* A send that could make a draft does not come to see the listing's completed:
\* who completes is under way itself, and a later send saves the bound draft.
LEMMA NoneCompletedStep ==
    ASSUME Moment, \A i \in Jobs : ckpt'[i] # NoName => ckpt[i] # NoName \/ status'[i] # "completed"
    PROVE  NoneCompleted'
<1> SUFFICES ASSUME NEW i \in Jobs, NEW j \in Jobs,
                    conv'[i] = conv'[j], conv'[i] \notin doubled', ckpt'[i] # NoName,
                    Sender(j)', j \notin edits', status'[i] = "completed"
             PROVE  FALSE
  BY DEF NoneCompleted
<1>1. ckpt[i] # NoName /\ JobStep(i) /\ JobStep(j)
  BY MomentFacts
<1>2. status[i] # "none" /\ step[i] \notin Native /\ conv'[i] = conv[i]
      /\ (status[i] = "completed" => conv[i] \in bound)
  BY <1>1 DEF Moment, DInv, OwnerInv, JobStep
<1>3. CASE status[i] = "completed"
  <2>1. Sender(j)
    BY <1>1, <1>2, <1>3 DEF JobStep
  <2>2. conv'[j] = conv[j] /\ j \notin edits
    BY <1>1, <2>1, MomentFacts DEF JobStep
  <2> QED
    BY <1>1, <1>2, <1>3, <2>1, <2>2, MomentFacts DEF Moment, DInv, NoneCompleted
<1>4. CASE status[i] # "completed"
  <2>1. Ending(i)' /\ i \in edits'
    BY <1>1, <1>2, <1>4 DEF JobStep
  <2>2. conv'[i] \in Listings
    BY <1>2, MomentFacts DEF NumberedInv, TypeOK
  <2> QED
    BY <2>1, <2>2, MomentFacts, SendersUnderWay, TwoUnderWay
<1> QED BY <1>3, <1>4

\* A name stays its listing's.
LEMMA OwnerStep ==
    ASSUME Moment,
           \A j \in Jobs : ckpt[j] # NoName => owner'[ckpt[j]] = owner[ckpt[j]],
           \A j \in Jobs : ckpt'[j] # NoName /\ ckpt'[j] # ckpt[j] =>
               /\ owner'[ckpt'[j]] = conv[j] /\ worker[j] \in SendWorkers
               /\ status'[j] # "completed",
           \A id \in drafts' \cup sent' : owner'[id] # NoListing
    PROVE  OwnerInv'
<1> SUFFICES ASSUME NEW j \in Jobs, ckpt'[j] # NoName
             PROVE  /\ owner'[ckpt'[j]] = conv'[j]
                    /\ status'[j] # "none" /\ step'[j] \notin Native
                    /\ status'[j] = "completed" => conv'[j] \in bound'
  BY DEF OwnerInv
<1>0. JobStep(j) /\ NumberedInv /\ NumberedInv' /\ SenderInv
  BY MomentFacts DEF Moment
<1>1. status[j] # "none" /\ step[j] \notin Native
  <2>1. CASE ckpt'[j] = ckpt[j]
    BY <2>1 DEF Moment, DInv, OwnerInv
  <2>2. CASE ckpt'[j] # ckpt[j]
    BY <1>0, <2>2 DEF NumberedInv, SenderInv, Sender, SendWorkers
  <2> QED BY <2>1, <2>2
<1>2. conv'[j] = conv[j] /\ step'[j] \notin Native
  BY <1>0, <1>1 DEF JobStep
<1>3. status'[j] # "none"
  BY <1>0, <1>1, <1>2 DEF NumberedInv
<1>4. CASE ckpt'[j] # ckpt[j]
  BY <1>2, <1>3, <1>4
<1>5. CASE ckpt'[j] = ckpt[j]
  <2>1. owner'[ckpt'[j]] = conv'[j]
    BY <1>2, <1>5 DEF Moment, DInv, OwnerInv
  <2>2. status'[j] = "completed" => conv'[j] \in bound'
    BY <1>0, <1>1, <1>2, <1>5 DEF JobStep, Moment, DInv, OwnerInv
  <2> QED BY <1>2, <1>3, <2>1, <2>2
<1> QED BY <1>4, <1>5

\* A step that names nothing, and brings no draft on its way.
LEMMA NamesKept ==
    ASSUME Moment, UNCHANGED <<ckpt, owner>>, drafts' \cup sent' \subseteq drafts \cup sent
    PROVE  OwnerInv' /\ NoneCompleted' /\ OneName' /\ Named'
<1>1. \A j \in Jobs : ckpt[j] # NoName => conv'[j] = conv[j]
  BY MomentFacts DEF JobStep, Moment, DInv, OwnerInv
<1>2. OwnerInv'
  BY OwnerStep DEF Moment, DInv, OwnerInv
<1>3. NoneCompleted'
  BY NoneCompletedStep
<1>4. OneName'
  BY <1>1, MomentFacts DEF Moment, DInv, OneName
<1>5. Named'
  <2> SUFFICES ASSUME NEW id \in drafts' \cup sent', owner[id] \notin doubled'
               PROVE  \E j \in Jobs : conv'[j] = owner[id] /\ ckpt[j] = id
    BY DEF Named
  <2>1. owner[id] \notin doubled
    BY MomentFacts
  <2>2. PICK j \in Jobs : conv[j] = owner[id] /\ ckpt[j] = id
    BY <2>1 DEF Moment, DInv, Named
  <2>3. id # NoName
    BY DEF Moment, DInv, DTypeOK, Names, NoName
  <2> QED BY <1>1, <2>2, <2>3
<1> QED BY <1>2, <1>3, <1>4, <1>5

\* A send that waits keeps to the name it found, and one that begins finds the
\* listing's, unless the newest job completed.
LEMMA WillUseStep ==
    ASSUME Moment, UNCHANGED ckpt,
           \A j \in Jobs : work'[j].phase \in Unnamed =>
               \/ work[j].phase \in Unnamed /\ work'[j].previous = work[j].previous
               \/ /\ work'[j].previous = Pending(conv'[j])
                  /\ conv'[j] \notin doubled =>
                        \A i \in Checkpointed(conv'[j]) : status[i] # "completed"
    PROVE  WillUse'
<1> SUFFICES ASSUME NEW i \in Jobs, NEW j \in Jobs,
                    conv'[i] = conv'[j], conv'[i] \notin doubled', ckpt[i] # NoName,
                    work'[j].phase \in Unnamed
             PROVE  ckpt[i] = work'[j].previous
  BY DEF WillUse
<1>1. conv'[i] = conv[i] /\ conv[i] \notin doubled
  <2>1. status[i] # "none"
    BY DEF Moment, DInv, OwnerInv
  <2> QED BY <2>1, MomentFacts DEF JobStep
<1>2. CASE work[j].phase \in Unnamed /\ work'[j].previous = work[j].previous
  <2>1. worker[j] # "none"
    BY <1>2 DEF Moment, DInv, WorkInv, WorkOf, NoWork, Unnamed
  <2>2. conv'[j] = conv[j]
    BY <2>1, MomentFacts DEF JobStep
  <2> QED BY <1>1, <1>2, <2>2 DEF Moment, DInv, WillUse
<1>3. CASE /\ work'[j].previous = Pending(conv'[j])
           /\ conv'[j] \notin doubled =>
                 \A k \in Checkpointed(conv'[j]) : status[k] # "completed"
  <2>1. i \in Checkpointed(conv'[j])
    BY <1>1 DEF Checkpointed
  <2>2. PICK k \in Checkpointed(conv'[j]) : Pending(conv'[j]) = ckpt[k]
    BY <1>1, <1>3, <2>1, BoundsAssumption, PendingIsNamed
  <2> QED BY <1>1, <1>3, <2>2 DEF Moment, DInv, OneName, Checkpointed
<1> QED BY <1>2, <1>3

\* No name changes hands.
OwnersKept == \A id \in Names : owner[id] # NoListing => owner'[id] = owner[id]

\* Work that goes on as it was, or is over.
LEMMA WorkKept ==
    ASSUME Moment, OwnersKept, drafts \subseteq drafts', NEW j \in Jobs,
           \/ work'[j] = NoWork
           \/ work'[j] = work[j] /\ (work[j].phase # "none" => worker'[j] = worker[j])
    PROVE  WorkOf(j)'
<1>1. CASE work'[j] = NoWork
  BY <1>1 DEF WorkOf, NoWork
<1>2. CASE work'[j] = work[j] /\ work[j] # NoWork /\ worker'[j] = worker[j]
  <2>1. WorkOf(j) /\ conv'[j] = conv[j] /\ conv[j] # NoListing
    BY <1>2, MomentFacts, NamesAssumption DEF JobStep, Moment, DInv, WorkInv, WorkOf
  <2>2. work[j].previous \in Names \cup {NoName} /\ work[j].item \in Names \cup {NoName}
    BY DEF Moment, DInv, DTypeOK
  <2> QED BY <1>2, <2>1, <2>2 DEF WorkOf, OwnersKept
<1> QED BY <1>1, <1>2 DEF Moment, DInv, WorkInv, WorkOf

\* Whoever is at work elsewhere leaves a send's work to it.
LEMMA OthersWork ==
    ASSUME Moment, OwnersKept, drafts \subseteq drafts', NEW j \in Jobs, NotBy(j), work'[j] = work[j]
    PROVE  WorkOf(j)'
<1>1. work[j].phase # "none" => worker[j] \in {"run_send", "request"}
  BY DEF Moment, DInv, WorkInv, WorkOf, NoWork
<1>2. work[j].phase # "none" => worker'[j] = worker[j]
  BY <1>1, MomentFacts, WorkerLeft DEF Moment
<1> QED BY <1>2, WorkKept

\* Bindings that stay hold.
LEMMA BindingsKept ==
    ASSUME Moment, UNCHANGED binding, OwnersKept, drafts \subseteq drafts'
    PROVE  BoundDraftExists'
<1> SUFFICES ASSUME NEW c \in Listings, binding[c] # NoName
             PROVE  binding[c] \in drafts' /\ owner'[binding[c]] = c
  BY DEF BoundDraftExists
<1>1. binding[c] \in drafts /\ owner[binding[c]] = c /\ binding[c] \in Names /\ c # NoListing
  BY NamesAssumption DEF Moment, DInv, BoundDraftExists, DTypeOK
<1> QED BY <1>1 DEF OwnersKept

----------------------------------------------------------------------------
(* Every step keeps the invariant.                                         *)

\* A record of work, and what create_item begins with.
Works == [phase : Phases, previous : Names \cup {NoName}, item : Names \cup {NoName},
          recovered : BOOLEAN]

Beginning(c) ==
    [NoWork EXCEPT !.phase = IF Pending(c) = NoName THEN "prepare" ELSE "look", !.previous = Pending(c)]

LEMMA BeginningTyped ==
    ASSUME DTypeOK, OwnerInv, NEW c
    PROVE  /\ Beginning(c) \in Works /\ Beginning(c).phase \in {"prepare", "look"}
           /\ Beginning(c).previous = Pending(c) /\ ~Beginning(c).recovered
           /\ Pending(c) # NoName => owner[Pending(c)] = c
<1>1. Pending(c) \in Names \cup {NoName} /\ (Pending(c) # NoName => owner[Pending(c)] = c)
  <2>1. \A j \in Checkpointed(c) : ckpt[j] \in Names /\ owner[ckpt[j]] = c
    BY DEF Checkpointed, DTypeOK, OwnerInv
  <2> QED BY <2>1, BoundsAssumption, PendingIsNamed
<1> QED BY <1>1 DEF Beginning, NoWork, Works, Phases

\* A binding that is kept, or is right.
RightlyBound ==
    \/ UNCHANGED binding
    \/ binding' \in [Listings -> Names \cup {NoName}] /\ BoundDraftExists'

\* A step that names nothing.
LEMMA QuietStep ==
    ASSUME Moment, UNCHANGED <<ckpt, owner>>, RightlyBound, drafts \subseteq drafts',
           drafts' \cup sent' \subseteq drafts \cup sent, WorkInv', work' \in [Jobs -> Works],
           \A j \in Jobs : work'[j].phase \in Unnamed =>
               \/ work[j].phase \in Unnamed /\ work'[j].previous = work[j].previous
               \/ /\ work'[j].previous = Pending(conv'[j])
                  /\ conv'[j] \notin doubled =>
                        \A i \in Checkpointed(conv'[j]) : status[i] # "completed"
    PROVE  DInv'
<1>1. DTypeOK'
  <2>1. doubled' \in SUBSET Listings
    BY DEF Moment, DInv, DTypeOK, DNext, dvars
  <2>2. binding' \in [Listings -> Names \cup {NoName}]
    BY DEF Moment, DInv, DTypeOK, RightlyBound
  <2> QED BY <2>1, <2>2 DEF Moment, DInv, DTypeOK, Works
<1>2. BoundDraftExists'
  BY BindingsKept DEF RightlyBound, OwnersKept
<1> QED BY <1>1, <1>2, MomentFacts, NamesKept, WillUseStep DEF DInv

\* A direct send of a listing that is not bound: none of its jobs completed.
LEMMA SendDirectlyStep ==
    ASSUME Moment, NEW c \in Listings, "now" \in Happens, SendDirectly(c) PROVE DInv'
<1>0. PICK n \in Jobs : n = made + 1
  BY MomentFacts, BoundsAssumption DEF SendDirectly, SendNow, Create, TypeOK, Jobs
<1>1. /\ n \in Jobs /\ status[n] = "none" /\ worker[n] = "none" /\ worker'[n] = "request"
      /\ conv'[n] = c /\ Requests /\ UNCHANGED bound
  <2>1. SendNow(c) /\ TypeOK /\ NumberedInv
    BY MomentFacts DEF SendDirectly
  <2>2. n \in Jobs /\ status[n] = "none" /\ worker[n] = "none"
    BY <1>0, <2>1 DEF NumberedInv, TypeOK
  <2>3. worker'[n] = "request" /\ conv'[n] = c /\ UNCHANGED bound
    BY <1>0, <2>1, <2>2 DEF SendNow, Create, TypeOK
  <2> QED BY <2>1, <2>2, <2>3 DEF Requests
<1>2. /\ work \in [Jobs -> Works] /\ UNCHANGED <<ckpt, owner, sent, drafts, binding>>
      /\ \A j \in Jobs : NotBy(j)
      /\ \/ UNCHANGED work
         \/ c \notin bound /\ work' = [work EXCEPT ![n] = Beginning(c)]
  BY <1>0, <1>1 DEF Moment, DInv, DTypeOK, Works, SendDirectly, Begin, Beginning, NotBy
<1>3. CASE UNCHANGED work
  BY <1>2, <1>3, OthersWork, QuietStep DEF RightlyBound, OwnersKept, WorkInv
<1>4. CASE c \notin bound /\ work' = [work EXCEPT ![n] = Beginning(c)]
  <2>1. /\ Beginning(c) \in Works /\ Beginning(c).phase \in {"prepare", "look"}
        /\ Beginning(c).previous = Pending(c) /\ ~Beginning(c).recovered
        /\ Pending(c) # NoName => owner[Pending(c)] = c
    BY BeginningTyped DEF Moment, DInv
  <2>2. work' \in [Jobs -> Works]
    BY <1>2, <1>4, <2>1
  <2>3. WorkOf(n)'
    BY <1>1, <1>2, <1>4, <2>1 DEF WorkOf
  <2>4. \A j \in Jobs \ {n} : work'[j] = work[j]
    BY <1>2, <1>4
  <2>5. WorkInv'
    BY <1>2, <2>3, <2>4, OthersWork DEF WorkInv, OwnersKept
  <2>6. \A i \in Checkpointed(c) : status[i] # "completed"
    BY <1>4 DEF Checkpointed, Moment, DInv, OwnerInv
  <2> QED
    BY <1>1, <1>2, <1>4, <2>1, <2>2, <2>4, <2>5, <2>6, QuietStep DEF RightlyBound
<1> QED BY <1>2, <1>3, <1>4

\* A queued send that is run: NoneCompleted is about it.
LEMMA StartSendStep == ASSUME Moment, NEW j \in Jobs, StartSend(j) PROVE DInv'
<1>1. /\ worker[j] = "spawned" /\ Sender(j) /\ conv[j] \in Listings /\ conv' = conv
      /\ SendWorker(j) /\ work[j] = NoWork
  BY MomentFacts
     DEF StartSend, RunSend, Sender, SendWorkers, SendWorker, Moment, DInv, WorkInv, WorkOf
<1>2. /\ work \in [Jobs -> Works] /\ UNCHANGED <<ckpt, owner, sent, drafts, binding>>
      /\ \A i \in Jobs \ {j} : NotBy(i)
      /\ \/ UNCHANGED work
         \/ /\ worker'[j] = "run_send" /\ j \notin edits
            /\ work' = [work EXCEPT ![j] = Beginning(conv[j])]
  BY <1>1 DEF Moment, DInv, DTypeOK, Works, StartSend, Begin, Beginning, NotBy
<1>3. CASE UNCHANGED work
  <2>1. \A i \in Jobs \ {j} : WorkOf(i)'
    BY <1>2, <1>3, OthersWork DEF OwnersKept
  <2>2. WorkOf(j)'
    BY <1>1, <1>2, <1>3, WorkKept DEF OwnersKept
  <2> QED BY <1>2, <1>3, <2>1, <2>2, QuietStep DEF RightlyBound, WorkInv
<1>4. CASE /\ worker'[j] = "run_send" /\ j \notin edits
           /\ work' = [work EXCEPT ![j] = Beginning(conv[j])]
  <2>1. /\ Beginning(conv[j]) \in Works /\ Beginning(conv[j]).phase \in {"prepare", "look"}
        /\ Beginning(conv[j]).previous = Pending(conv[j]) /\ ~Beginning(conv[j]).recovered
        /\ Pending(conv[j]) # NoName => owner[Pending(conv[j])] = conv[j]
    BY BeginningTyped DEF Moment, DInv
  <2>2. work' \in [Jobs -> Works]
    BY <1>2, <1>4, <2>1
  <2>3. WorkOf(j)'
    BY <1>1, <1>2, <1>4, <2>1 DEF WorkOf
  <2>4. \A i \in Jobs \ {j} : work'[i] = work[i]
    BY <1>2, <1>4
  <2>5. WorkInv'
    BY <1>2, <2>3, <2>4, OthersWork DEF WorkInv, OwnersKept
  <2>6. conv[j] \notin doubled => \A i \in Checkpointed(conv[j]) : status[i] # "completed"
    BY <1>1, <1>4 DEF Checkpointed, Moment, DInv, NoneCompleted
  <2> QED
    BY <1>1, <1>2, <1>4, <2>1, <2>2, <2>4, <2>5, <2>6, QuietStep DEF RightlyBound
<1> QED BY <1>2, <1>3, <1>4

\* A send's work that moves on, or ends, without naming a draft.
LEMMA MovesOn ==
    ASSUME Moment, NEW j \in Jobs, UNCHANGED <<ckpt, owner>>, RightlyBound, drafts \subseteq drafts',
           drafts' \cup sent' \subseteq drafts \cup sent,
           NEW w \in Works, work' = [work EXCEPT ![j] = w], WorkOf(j)',
           w.phase \in Unnamed => work[j].phase \in Unnamed /\ w.previous = work[j].previous,
           \A i \in Jobs \ {j} : NotBy(i)
    PROVE  DInv'
<1>1. work \in [Jobs -> Works]
  BY DEF Moment, DInv, DTypeOK, Works
<1>2. work' \in [Jobs -> Works] /\ work'[j] = w /\ \A i \in Jobs \ {j} : work'[i] = work[i]
  BY <1>1
<1>3. WorkInv'
  BY <1>2, OthersWork DEF WorkInv, OwnersKept
<1> QED BY <1>2, <1>3, QuietStep DEF RightlyBound

\* The record of a job's work, and what is known of it while there is any.
LEMMA WorkFacts ==
    ASSUME Moment, NEW j \in Jobs
    PROVE  /\ work[j] \in Works /\ WorkOf(j) /\ NoWork \in Works /\ NoWork.phase = "none"
           /\ work[j].phase # "none" => worker[j] \in {"run_send", "request"} /\ conv'[j] = conv[j]
           /\ SendWorker(j) => \A i \in Jobs \ {j} : NotBy(i)
           /\ UNCHANGED vars => \A i \in Jobs : NotBy(i)
<1>1. work[j] \in Works /\ WorkOf(j) /\ NoWork \in Works /\ NoWork.phase = "none"
  BY DEF Moment, DInv, DTypeOK, WorkInv, Works, NoWork, Phases
<1>2. work[j].phase # "none" => worker[j] \in {"run_send", "request"}
  BY <1>1 DEF WorkOf
<1>3. work[j].phase # "none" => conv'[j] = conv[j]
  BY <1>2, MomentFacts DEF JobStep
<1> QED BY <1>1, <1>2, <1>3 DEF NotBy

\* The draft is looked up.
LEMMA LookStep == ASSUME Moment, NEW j \in Jobs, Look(j) PROVE DInv'
<1> DEFINE w == [work[j] EXCEPT !.phase = "prepare", !.recovered = work[j].previous \in drafts]
<1>1. /\ UNCHANGED <<vars, ckpt, owner, sent, drafts, binding>>
      /\ work[j].phase = "look" /\ work' = [work EXCEPT ![j] = w]
  BY DEF Look, Moment, DInv, DTypeOK
<1>2. w \in Works /\ w.phase = "prepare" /\ w.previous = work[j].previous
      /\ (w.recovered <=> work[j].previous \in drafts)
  <2>1. work[j] \in Works
    BY WorkFacts
  <2>2. (work[j].previous \in drafts) \in BOOLEAN
    OBVIOUS
  <2> QED BY <2>1, <2>2 DEF Works, Phases
<1>3. work'[j] = w
  BY <1>1 DEF Moment, DInv, DTypeOK
<1>4. WorkOf(j)'
  BY <1>1, <1>2, <1>3, WorkFacts DEF WorkOf, NoWork, vars
<1> HIDE DEF w
<1> QED BY <1>1, <1>2, <1>4, WorkFacts, MovesOn DEF Unnamed, RightlyBound

\* The worker marks its job, on its way to the photos.
LEMMA MarkStepStep == ASSUME Moment, NEW j \in Jobs, MarkStep(j) PROVE DInv'
<1> DEFINE w == [work[j] EXCEPT !.phase = "photos"]
<1>1. /\ UNCHANGED <<worker, ckpt, owner, sent, drafts, binding>> /\ SendWorker(j)
      /\ \/ work' = [work EXCEPT ![j] = work[j]]
         \/ work[j].phase = "prepare" /\ work' = [work EXCEPT ![j] = w]
  BY DEF MarkStep, Mark, SendWorker, Moment, DInv, DTypeOK
<1>2. w \in Works /\ w.phase = "photos" /\ w.previous = work[j].previous
      /\ (w.recovered <=> work[j].recovered)
  BY WorkFacts DEF Works, Phases
<1>3. CASE work' = [work EXCEPT ![j] = work[j]]
  <2>1. WorkOf(j)'
    BY <1>1, <1>3, WorkKept DEF OwnersKept, Moment, DInv, DTypeOK
  <2> QED BY <1>1, <1>3, <2>1, WorkFacts, MovesOn DEF RightlyBound
<1>4. CASE work[j].phase = "prepare" /\ work' = [work EXCEPT ![j] = w]
  <2>1. work'[j] = w
    BY <1>4 DEF Moment, DInv, DTypeOK
  <2>2. WorkOf(j)'
    BY <1>1, <1>2, <1>4, <2>1, WorkFacts DEF WorkOf, NoWork
  <2> HIDE DEF w
  <2> QED BY <1>1, <1>2, <1>4, <2>2, WorkFacts, MovesOn DEF Unnamed, RightlyBound
<1> QED BY <1>1, <1>3, <1>4

\* The draft is read back.
LEMMA ReadBackStep == ASSUME Moment, NEW j \in Jobs, ReadBack(j) PROVE DInv'
<1> DEFINE w == [work[j] EXCEPT !.phase = "stored"]
<1>1. /\ UNCHANGED <<vars, ckpt, owner, sent, drafts, binding>>
      /\ work[j].phase = "read" /\ work[j].item \in drafts /\ work' = [work EXCEPT ![j] = w]
  BY DEF ReadBack, Moment, DInv, DTypeOK
<1>2. w \in Works /\ w.phase = "stored" /\ w.previous = work[j].previous /\ w.item = work[j].item
      /\ (w.recovered <=> work[j].recovered)
  BY WorkFacts DEF Works, Phases
<1>3. work'[j] = w
  BY <1>1 DEF Moment, DInv, DTypeOK
<1>4. WorkOf(j)'
  BY <1>1, <1>2, <1>3, WorkFacts DEF WorkOf, NoWork, vars
<1> HIDE DEF w
<1> QED BY <1>1, <1>2, <1>4, WorkFacts, MovesOn DEF Unnamed, RightlyBound

\* The work is over.
LEMMA GiveUpStep == ASSUME Moment, NEW j \in Jobs, GiveUp(j) PROVE DInv'
<1>1. /\ UNCHANGED <<ckpt, owner, sent, drafts, binding>> /\ SendWorker(j)
      /\ work' = [work EXCEPT ![j] = NoWork] /\ work'[j] = NoWork
  BY DEF GiveUp, SendWorker, Moment, DInv, DTypeOK
<1>2. WorkOf(j)'
  BY <1>1, WorkKept DEF OwnersKept
<1> QED BY <1>1, <1>2, WorkFacts, MovesOn DEF Unnamed, RightlyBound

\* Chrome makes a draft on its way, or fails to.
LEMMA ChromeCreatesStep == ASSUME Moment, NEW id \in Names, ChromeCreates(id) PROVE DInv'
<1>1. /\ UNCHANGED <<vars, work, ckpt, owner, binding>> /\ drafts \subseteq drafts'
      /\ drafts' \cup sent' \subseteq drafts \cup sent
  BY DEF ChromeCreates
<1>2. WorkInv'
  BY <1>1, WorkFacts, OthersWork DEF WorkInv, OwnersKept
<1> QED BY <1>1, <1>2, QuietStep DEF RightlyBound, Moment, DInv, DTypeOK, Works

\* What the process knew is gone; checkpoints, names and drafts are not.
LEMMA ProcessDiesStep == ASSUME Moment, ProcessDies PROVE DInv'
<1>1. /\ UNCHANGED <<ckpt, owner, sent, drafts, binding>> /\ work' \in [Jobs -> Works]
      /\ \A j \in Jobs : work'[j] = NoWork
  BY DEF ProcessDies, NoWork, Works, Phases
<1>2. WorkInv'
  BY <1>1, WorkKept DEF WorkInv, OwnersKept
<1>3. \A j \in Jobs : work'[j].phase \notin Unnamed
  BY <1>1 DEF NoWork, Unnamed
<1> QED BY <1>1, <1>2, <1>3, QuietStep DEF RightlyBound

\* Steps that are not about drafts.
LEMMA ElsewhereStep == ASSUME Moment, Elsewhere \/ UNCHANGED <<vars, dvars>> PROVE DInv'
<1>1. UNCHANGED <<work, ckpt, owner, sent, drafts, binding>> /\ \A j \in Jobs : NotBy(j)
  BY DEF Elsewhere, OtherRequests, Requests, NotBy, dvars
<1>2. WorkInv'
  BY <1>1, OthersWork DEF WorkInv, OwnersKept
<1> QED BY <1>1, <1>2, QuietStep DEF RightlyBound, Moment, DInv, DTypeOK, Works

\* The draft is stored: the notes come to name it.
LEMMA CompleteStep == ASSUME Moment, NEW j \in Jobs, Complete(j) PROVE DInv'
<1>1. /\ UNCHANGED <<ckpt, owner, sent, drafts>> /\ SendWorker(j) /\ conv[j] \in Listings
      /\ work' = [work EXCEPT ![j] = NoWork] /\ work'[j] = NoWork
      /\ \/ UNCHANGED binding
         \/ work[j].phase = "stored" /\ binding' = [binding EXCEPT ![conv[j]] = work[j].item]
  <2>1. Sending(j)
    BY DEF Complete, SendCompletes
  <2>2. conv[j] \in Listings
    BY <2>1, MomentFacts DEF Sending
  <2> QED
    BY <2>2 DEF Complete, SendWorker, Moment, DInv, DTypeOK
<1>2. WorkOf(j)'
  BY <1>1, WorkKept DEF OwnersKept
<1>3. CASE UNCHANGED binding
  BY <1>1, <1>2, <1>3, WorkFacts, MovesOn DEF Unnamed, RightlyBound
<1>4. CASE work[j].phase = "stored" /\ binding' = [binding EXCEPT ![conv[j]] = work[j].item]
  <2>1. work[j].item \in Names /\ owner[work[j].item] = conv[j] /\ work[j].item \in drafts
    BY <1>4, WorkFacts DEF WorkOf, Works
  <2>2. binding \in [Listings -> Names \cup {NoName}] /\ BoundDraftExists
    BY DEF Moment, DInv, DTypeOK
  <2>3. RightlyBound
    BY <1>1, <1>4, <2>1, <2>2 DEF RightlyBound, BoundDraftExists
  <2> QED BY <1>1, <1>2, <2>3, WorkFacts, MovesOn DEF Unnamed
<1> QED BY <1>1, <1>3, <1>4

----------------------------------------------------------------------------
(* A send names its draft.                                                 *)

\* What NameDraft does, branch by branch: the send has a worker and does not
\* complete; its name is the one it found, or a new one; and what it does next
\* is about that name.
LEMMA NameDraftFacts ==
    ASSUME Moment, NEW j \in Jobs, NEW id \in Names, NameDraft(j, id)
    PROVE  /\ worker[j] \in {"run_send", "request"} /\ SendWorker(j) /\ work[j].phase = "photos"
           /\ status'[j] # "completed" /\ UnderWay(j)'
           /\ conv[j] \in Listings /\ conv'[j] = conv[j]
           /\ ckpt' = [ckpt EXCEPT ![j] = id] /\ ckpt \in [Jobs -> Names \cup {NoName}]
           /\ UNCHANGED <<drafts, binding>>
           /\ sent \subseteq sent' /\ sent' \subseteq sent \cup {id}
           /\ OwnersKept /\ owner'[id] = conv[j] /\ owner' \in [Names -> Listings \cup {NoListing}]
           /\ work[j].previous # NoName => id = work[j].previous
           /\ \E w \in Works : work' = [work EXCEPT ![j] = w] /\ w.phase \notin Unnamed
           /\ WorkOf(j)'
<1>1. /\ worker[j] \in {"run_send", "request"} /\ SendWorker(j) /\ work[j].phase = "photos"
      /\ status'[j] # "completed" /\ UnderWay(j)'
  <2>1. Sender(j) /\ status[j] # "completed" /\ status[j] # "none" /\ TypeOK
    BY MomentFacts
       DEF NameDraft, SendFails, Mark, Sending, Sender, SendWorkers, Moment, SenderInv
  <2>2. CASE SendFails(j)
    <3>1. status'[j] # "completed" /\ Ending(j)'
      BY <2>1, <2>2 DEF SendFails, Ends, End, Write, Ending, TypeOK
    <3> QED BY <2>2, <3>1, SendersUnderWay DEF SendFails, Sending, SendWorker, NameDraft
  <2>3. CASE Mark(j)
    <3>1. status'[j] # "completed" /\ worker'[j] # "none" /\ Sending(j)
      BY <2>1, <2>3 DEF Mark, Sending, Write, TypeOK
    <3> QED BY <2>3, <3>1, SendersUnderWay DEF Sending, SendWorker, NameDraft
  <2> QED BY <2>2, <2>3 DEF NameDraft
<1>2. conv[j] \in Listings /\ conv'[j] = conv[j]
  BY <1>1, MomentFacts DEF JobStep
<1>3. /\ ckpt' = [ckpt EXCEPT ![j] = id] /\ ckpt \in [Jobs -> Names \cup {NoName}]
      /\ UNCHANGED <<drafts, binding>> /\ sent \subseteq sent' /\ sent' \subseteq sent \cup {id}
  BY DEF NameDraft, Checkpoint, Moment, DInv, DTypeOK
<1>4. /\ OwnersKept /\ owner'[id] = conv[j] /\ owner' \in [Names -> Listings \cup {NoListing}]
      /\ work[j].previous # NoName => id = work[j].previous
  <2>1. work[j].previous # NoName => owner[work[j].previous] = conv[j]
    BY WorkFacts DEF WorkOf
  <2> QED BY <1>2, <2>1 DEF NameDraft, OwnersKept, Moment, DInv, DTypeOK
<1>5. \/ work' = [work EXCEPT ![j] = NoWork]
      \/ /\ worker' = worker
         /\ work' = [work EXCEPT ![j].item = id,
                         ![j].phase = IF work[j].recovered THEN "stored" ELSE "read"]
  BY DEF NameDraft, Mark
<1>6. CASE work' = [work EXCEPT ![j] = NoWork]
  <2>1. WorkOf(j)'
    BY <1>3, <1>4, <1>6, WorkKept DEF Moment, DInv, DTypeOK
  <2> QED BY <1>1, <1>2, <1>3, <1>4, <1>6, <2>1, WorkFacts DEF Unnamed
<1>7. CASE /\ worker' = worker
           /\ work' = [work EXCEPT ![j].item = id,
                           ![j].phase = IF work[j].recovered THEN "stored" ELSE "read"]
  <2> DEFINE w == [work[j] EXCEPT !.item = id, !.phase = IF work[j].recovered THEN "stored" ELSE "read"]
  <2>1. work[j] \in Works /\ WorkOf(j)
    BY WorkFacts
  <2>2. /\ w \in Works /\ w.item = id /\ w.previous = work[j].previous
        /\ (w.recovered <=> work[j].recovered) /\ w.phase \in {"stored", "read"}
        /\ w.phase = "stored" => work[j].recovered
    BY <2>1 DEF Works, Phases
  <2>3. work' = [work EXCEPT ![j] = w] /\ work'[j] = w
    BY <1>7 DEF Moment, DInv, DTypeOK
  <2>4. id # NoName /\ drafts \subseteq Names /\ NoName \notin Names
    BY DEF Moment, DInv, DTypeOK, Names, NoName
  <2>5. work[j].recovered => id \in drafts
    BY <1>4, <2>1, <2>4 DEF WorkOf
  <2> HIDE DEF w
  <2>6. WorkOf(j)'
    BY <1>1, <1>2, <1>3, <1>4, <1>7, <2>1, <2>2, <2>3, <2>4, <2>5 DEF WorkOf, NoWork
  <2> QED BY <1>1, <1>2, <1>3, <1>4, <2>2, <2>3, <2>6 DEF Unnamed
<1> QED BY <1>5, <1>6, <1>7

\* One name at a time: while a listing is not doubled, who names its draft is
\* the only one at work on it, and finds the name it already has, if any.
LEMMA NameDraftStep ==
    ASSUME Moment, NEW j \in Jobs, NEW id \in Names, NameDraft(j, id) PROVE DInv'
<1>1. /\ worker[j] \in {"run_send", "request"} /\ SendWorker(j) /\ work[j].phase = "photos"
      /\ status'[j] # "completed" /\ UnderWay(j)'
      /\ conv[j] \in Listings /\ conv'[j] = conv[j]
      /\ ckpt' = [ckpt EXCEPT ![j] = id] /\ ckpt \in [Jobs -> Names \cup {NoName}]
      /\ UNCHANGED <<drafts, binding>>
      /\ sent \subseteq sent' /\ sent' \subseteq sent \cup {id}
      /\ OwnersKept /\ owner'[id] = conv[j] /\ owner' \in [Names -> Listings \cup {NoListing}]
      /\ work[j].previous # NoName => id = work[j].previous
      /\ WorkOf(j)'
  BY NameDraftFacts
<1>2. PICK w \in Works : work' = [work EXCEPT ![j] = w] /\ w.phase \notin Unnamed
  BY NameDraftFacts
<1>3. /\ work \in [Jobs -> Works] /\ sent \subseteq Names /\ drafts \subseteq Names
      /\ binding \in [Listings -> Names \cup {NoName}] /\ NoName \notin Names
      /\ OwnerInv /\ OneName /\ WillUse /\ Named /\ [DNext]_<<vars, dvars>>
      /\ doubled \in SUBSET Listings
  BY DEF Moment, DInv, DTypeOK, Works, Names, NoName
<1>4. /\ work' \in [Jobs -> Works] /\ work'[j] = w /\ ckpt'[j] = id
      /\ \A i \in Jobs \ {j} : work'[i] = work[i] /\ ckpt'[i] = ckpt[i]
  BY <1>1, <1>2, <1>3
<1>5. \A i \in Jobs : ckpt[i] # NoName =>
        /\ owner[ckpt[i]] = conv[i] /\ conv[i] # NoListing /\ conv'[i] = conv[i]
        /\ owner'[ckpt[i]] = owner[ckpt[i]]
  <2> SUFFICES ASSUME NEW i \in Jobs, ckpt[i] # NoName
               PROVE  /\ owner[ckpt[i]] = conv[i] /\ conv[i] # NoListing /\ conv'[i] = conv[i]
                      /\ owner'[ckpt[i]] = owner[ckpt[i]]
    OBVIOUS
  <2>1. owner[ckpt[i]] = conv[i] /\ status[i] # "none" /\ ckpt[i] \in Names
    BY <1>1, <1>3 DEF OwnerInv
  <2>2. conv[i] # NoListing /\ conv'[i] = conv[i]
    BY <2>1, MomentFacts DEF NumberedInv, JobStep
  <2> QED BY <1>1, <2>1, <2>2 DEF OwnersKept
<1>6. \A x \in drafts \cup sent : x \in Names /\ owner[x] # NoListing /\ owner'[x] = owner[x]
  BY <1>1, <1>3 DEF OwnersKept, OwnerInv
<1>7. id # NoName /\ conv[j] # NoListing
  BY <1>1, <1>3, NamesAssumption
<1>8. DTypeOK'
  <2>1. doubled' \in SUBSET Listings
    BY <1>3 DEF DNext, dvars
  <2> QED BY <1>1, <1>3, <1>4, <2>1 DEF DTypeOK, Works
<1>9. WorkInv'
  <2>1. \A i \in Jobs \ {j} : NotBy(i)
    BY <1>1, WorkFacts
  <2> QED BY <1>1, <1>4, <2>1, OthersWork DEF WorkInv
<1>10. BoundDraftExists'
  BY <1>1, BindingsKept
<1>11. OwnerInv'
  <2>1. \A i \in Jobs : ckpt'[i] # NoName /\ ckpt'[i] # ckpt[i] =>
            /\ owner'[ckpt'[i]] = conv[i] /\ worker[i] \in SendWorkers
            /\ status'[i] # "completed"
    BY <1>1, <1>4 DEF SendWorkers
  <2>2. \A x \in drafts' \cup sent' : owner'[x] # NoListing
    BY <1>1, <1>6, <1>7
  <2> QED BY <1>5, <2>1, <2>2, OwnerStep
<1>12. NoneCompleted'
  <2>1. \A i \in Jobs : ckpt'[i] # NoName => ckpt[i] # NoName \/ status'[i] # "completed"
    BY <1>1, <1>4
  <2> QED BY <2>1, NoneCompletedStep
<1>13. doubled \subseteq doubled' /\ OneAtATime' /\ \A i \in Jobs : JobStep(i)
  BY MomentFacts
<1>14. ASSUME NEW i \in Jobs, conv'[i] = conv[j], conv[j] \notin doubled', ckpt[i] # NoName
       PROVE  ckpt[i] = id
  <2>1. ckpt[i] = work[j].previous
    BY <1>1, <1>3, <1>5, <1>13, <1>14 DEF WillUse, Unnamed
  <2> QED BY <1>1, <1>14, <2>1
<1>15. OneName'
  <2> SUFFICES ASSUME NEW i \in Jobs, NEW k \in Jobs, conv'[i] = conv'[k],
                      conv'[i] \notin doubled', ckpt'[i] # NoName, ckpt'[k] # NoName
               PROVE  ckpt'[i] = ckpt'[k]
    BY DEF OneName
  <2>1. CASE i # j /\ k # j
    BY <1>3, <1>4, <1>5, <1>13, <2>1 DEF OneName
  <2>2. CASE i = j
    BY <1>1, <1>4, <1>14, <2>2
  <2>3. CASE k = j
    BY <1>1, <1>4, <1>14, <2>3
  <2> QED BY <2>1, <2>2, <2>3
<1>16. WillUse'
  <2> SUFFICES ASSUME NEW i \in Jobs, NEW k \in Jobs, conv'[i] = conv'[k],
                      conv'[i] \notin doubled', ckpt'[i] # NoName, work'[k].phase \in Unnamed
               PROVE  ckpt'[i] = work'[k].previous
    BY DEF WillUse
  <2>1. k # j /\ work'[k] = work[k]
    BY <1>2, <1>4
  <2>2. worker[k] \in {"run_send", "request"} /\ conv'[k] = conv[k] /\ NotBy(k)
    BY <1>1, <2>1, WorkFacts DEF Unnamed
  <2>3. CASE i = j
    <3>1. worker'[k] # "none"
      BY <2>2, WorkerLeft DEF Moment
    <3>2. UnderWay(k)'
      BY <3>1, SendersUnderWay
    <3> QED BY <1>1, <1>13, <2>1, <2>3, <3>2, TwoUnderWay
  <2>4. CASE i # j
    BY <1>3, <1>4, <1>5, <1>13, <2>1, <2>2, <2>4 DEF WillUse
  <2> QED BY <2>3, <2>4
<1>17. Named'
  <2> SUFFICES ASSUME NEW x \in drafts' \cup sent', owner'[x] \notin doubled'
               PROVE  \E i \in Jobs : conv'[i] = owner'[x] /\ ckpt'[i] = x
    BY DEF Named
  <2>1. CASE x = id
    BY <1>1, <1>4, <2>1
  <2>2. CASE x # id
    <3>1. x \in drafts \cup sent /\ owner'[x] = owner[x] /\ x # NoName
      BY <1>1, <1>3, <1>6, <2>2
    <3>2. PICK i \in Jobs : conv[i] = owner[x] /\ ckpt[i] = x
      BY <1>3, <1>13, <3>1 DEF Named
    <3>3. i # j
      BY <1>1, <1>5, <1>14, <2>2, <3>1, <3>2
    <3> QED BY <1>4, <1>5, <3>1, <3>2, <3>3
  <2> QED BY <2>1, <2>2
<1> QED
  BY <1>8, <1>9, <1>10, <1>11, <1>12, <1>13, <1>15, <1>16, <1>17 DEF DInv

----------------------------------------------------------------------------
(* The theorems.                                                           *)

\* Before the first step nothing is named, made or bound.
LEMMA DInitInv == DInit => DInv
<1> SUFFICES ASSUME DInit PROVE DInv
  OBVIOUS
<1>1. DTypeOK /\ WorkInv /\ OwnerInv /\ BoundDraftExists
  BY DEF DInit, DTypeOK, WorkInv, WorkOf, OwnerInv, BoundDraftExists, NoWork, NoName, Phases
<1>2. OneAtATime
  <2>1. \A j \in Jobs : ~UnderWay(j)
    BY DEF DInit, Init, UnderWay, Active, Running, Waiting, Taken, Swept, Ending, NoEnd, End,
       DispIdle, Disp, WdIdle, Sweep
  <2> QED BY <2>1 DEF OneAtATime, Doubling
<1>3. NoneCompleted /\ OneName /\ WillUse /\ Named
  BY DEF DInit, NoneCompleted, OneName, WillUse, Named
<1> QED BY <1>1, <1>2, <1>3 DEF DInv

\* Every step keeps the invariant.
LEMMA DNextInv == IInv /\ SenderInv /\ DInv /\ [DNext]_<<vars, dvars>> => DInv'
<1> SUFFICES ASSUME Moment PROVE DInv'
  BY DEF Moment
<1>1. CASE UNCHANGED <<vars, dvars>>
  BY <1>1, ElsewhereStep
<1>2. CASE DStep
  BY <1>2, SendDirectlyStep, StartSendStep, LookStep, MarkStepStep, NameDraftStep, ReadBackStep,
     GiveUpStep, CompleteStep, ChromeCreatesStep, ProcessDiesStep, ElsewhereStep DEF DStep
<1> QED BY <1>1, <1>2 DEF Moment, DNext

\* The invariant holds throughout, with the queue's.
THEOREM DraftsHold == DSpec => [](IInv /\ DInv)
<1>1. DInit => DInv
  BY DInitInv
<1>2. IInv /\ SenderInv /\ DInv /\ [DNext]_<<vars, dvars>> => DInv'
  BY DNextInv
<1> QED BY <1>1, <1>2, QueueHolds, PTL DEF DSpec

\* Every variable of the sends keeps its type.
THEOREM DraftsTyped == DSpec => []DTypeOK
<1>1. DInv => DTypeOK
  BY DEF DInv
<1> QED BY <1>1, DraftsHold, PTL

\* The notes of a listing name a draft only when Vendoo has it, and it is the
\* listing's own.
THEOREM BindingsHold == DSpec => []BoundDraftExists
<1>1. DInv => BoundDraftExists
  BY DEF DInv
<1> QED BY <1>1, DraftsHold, PTL

\* A listing that never had two sends under way at once has one draft at most,
\* made or on its way: whichever step of whichever send was cut off, whoever
\* resumed or cancelled it, and however late Chrome carries a create out.
THEOREM OneDraftForEach == DSpec => []OneDraftEach
<1>1. DInv => OneDraftEach
  BY DEF DInv, Named, OneName, OneDraftEach, DTypeOK, Names, NoName
<1> QED BY <1>1, DraftsHold, PTL

\* And that draft is never lost: until the listing is bound, a send of it that
\* looks up the pending name finds this one.
THEOREM DraftsRecoverable == DSpec => []Recoverable
<1>1. DInv => Recoverable
  <2> SUFFICES ASSUME DInv, NEW id \in drafts \cup sent, owner[id] \notin bound \cup doubled
               PROVE  Pending(owner[id]) = id
    BY DEF Recoverable
  <2>1. id # NoName
    BY DEF DInv, DTypeOK, Names, NoName
  <2>2. PICK i \in Jobs : conv[i] = owner[id] /\ ckpt[i] = id
    BY DEF DInv, Named
  <2>3. i \in Checkpointed(owner[id])
    BY <2>1, <2>2 DEF Checkpointed
  <2>4. PICK j \in Checkpointed(owner[id]) :
          \/ status[j] = "completed" /\ Pending(owner[id]) = NoName
          \/ status[j] # "completed" /\ Pending(owner[id]) = ckpt[j]
    BY <2>3, BoundsAssumption, PendingIsNamed
  <2>5. ckpt[j] = id
    BY <2>1, <2>2 DEF Checkpointed, DInv, OneName
  <2>6. status[j] # "completed"
    BY DEF Checkpointed, DInv, OwnerInv
  <2> QED BY <2>4, <2>5, <2>6
<1> QED BY <1>1, DraftsHold, PTL

=============================================================================
