--------------------------- MODULE DraftTasksProofs ---------------------------
(***************************************************************************)
(* The hosted draft queue lets one task at a time write a draft, and shows *)
(* its viewer all of it: for every number of workers, drafts and tasks.    *)
(***************************************************************************)
EXTENDS DraftTasks, TLAPS

----------------------------------------------------------------------------
(* The inductive invariant.                                                *)

\* A task has a draft from its submission on.
Placed == \A t \in Tasks : status[t] = "new" \/ on[t] \in Drafts

\* Two active tasks are never on one draft.
OneActive ==
    \A t, u \in Tasks :
        status[t] \in Active /\ status[u] \in Active /\ on[t] = on[u] => t = u

\* Who has a task's row may go on writing: the task runs until it lets go.
LockedRuns == \A t \in Tasks : locked[t] => status[t] = "running" /\ txn[t] # "none"

\* No worker and no transaction is at work on a task that was not claimed.
Unclaimed ==
    \A t \in Tasks : status[t] \in {"new", "queued"} =>
        txn[t] = "none" /\ \A w \in Workers : serving[w] # t

\* A loop that claims has no task in hand, none that it started or finishes.
Loops ==
    \A w \in Workers :
        /\ serving[w] = NoTask => ~started[w] /\ fin[w] = "no"
        /\ sweep[w].open => serving[w] = NoTask

\* A finish that has its task's row is alone with it, and the task runs on.
HasRow ==
    \A w \in Workers : fin[w] = "has" =>
        /\ serving[w] \in Tasks /\ status[serving[w]] = "running" /\ ~locked[serving[w]]
        /\ \A v \in Workers : v # w /\ fin[v] = "has" => serving[v] # serving[w]

\* The editions of a task's draft since the one it was given are its own.
Own(t) ==
    /\ base[t] <= Len(log[on[t]])
    /\ \A j \in base[t] + 1 .. Len(log[on[t]]) : log[on[t]][j] = t

\* A running task that a worker has started, or that has a transaction open.
AtWork(t) ==
    /\ status[t] = "running"
    /\ txn[t] # "none" \/ \E w \in Workers : serving[w] = t /\ started[w]

WritesOwn == \A t \in Tasks : AtWork(t) => Own(t)

\* Only tasks that were submitted have written.
Writers ==
    \A d \in Drafts : \A i \in DOMAIN log[d] :
        log[d][i] # Seller => status[log[d][i]] # "new"

\* A stop is about tasks of its draft that were submitted.
StopsOwn == \A d \in Drafts : \A t \in stop[d] : on[t] = d /\ status[t] # "new"

\* A viewer's poll that read an end is of a task that has ended, and so is the
\* stream it was told is over; it has no event that is not there.
Views ==
    /\ watch = NoTask => seen = "idle" /\ ~done /\ got = 0
    /\ watch # NoTask =>
        /\ status[watch] # "new"
        /\ got <= events[watch]
        /\ seen \in Ended => status[watch] \in Ended
        /\ done => status[watch] \in Ended /\ got = events[watch]

DInd ==
    /\ TasksTypeOK /\ Placed /\ OneActive /\ LockedRuns /\ Unclaimed /\ Loops /\ HasRow
    /\ WritesOwn /\ OwnDraft /\ Writers /\ StopsOwn /\ IdleIsEditable /\ Views

----------------------------------------------------------------------------
(* Small facts.                                                            *)

\* An edition more.
LEMMA Appended ==
    ASSUME NEW S, NEW q \in Seq(S), NEW e \in S
    PROVE  /\ Append(q, e) \in Seq(S)
           /\ Len(q) \in Nat /\ Len(Append(q, e)) = Len(q) + 1
           /\ DOMAIN Append(q, e) = 1 .. (Len(q) + 1)
           /\ DOMAIN q = 1 .. Len(q)
           /\ \A i \in 1 .. Len(q) : Append(q, e)[i] = q[i]
           /\ Append(q, e)[Len(q) + 1] = e
OBVIOUS

\* No task has the number of the seller.
LEMMA TaskNumbers == NoTask \notin Tasks /\ Seller \notin Tasks
BY DEF Tasks, NoTask, Seller

\* The label of a draft no task has, when active tasks stay active.
LEMMA StaysEditable ==
    ASSUME IdleIsEditable, UNCHANGED label, stranded \subseteq stranded',
           \A t \in Tasks : status[t] \in Active => status'[t] \in Active /\ on'[t] = on[t]
    PROVE  IdleIsEditable'
BY DEF IdleIsEditable, ActiveOn, Active

\* What a finish that has the task's row does to the tables.
LEMMA FinishedTask ==
    ASSUME DInd, NEW w \in Workers, NEW t \in Tasks, FinishCommits(w, t)
    PROVE  /\ status[t] = "running" /\ ~locked[t] /\ on[t] \in Drafts
           /\ out[w] \in {"completed", "failed"}
           /\ status' = [status EXCEPT ![t] = out[w]]
           /\ lease' = [lease EXCEPT ![t] = "none"]
           /\ label' = [label EXCEPT ![on[t]] = "draft"]
           /\ \A u \in Tasks :
                \/ u # t /\ status'[u] = status[u]
                \/ u = t /\ status[u] = "running" /\ status'[u] \in Ended
<1>1. status[t] = "running" /\ ~locked[t] /\ out[w] \in {"completed", "failed"}
  BY DEF FinishCommits, DInd, HasRow, TasksTypeOK
<1>2. on[t] \in Drafts
  BY <1>1 DEF DInd, Placed
<1>3. /\ status' = [status EXCEPT ![t] = out[w]]
      /\ lease' = [lease EXCEPT ![t] = "none"]
      /\ label' = [label EXCEPT ![on[t]] = "draft"]
  BY DEF FinishCommits, Drafted
<1>. QED
  BY <1>1, <1>2, <1>3 DEF DInd, TasksTypeOK, Ended

\* What a claim does: it ends tasks that ran, and lets one that waited run.
LEMMA ClaimedTasks ==
    ASSUME DInd, NEW w \in Workers, NEW S \in SUBSET Overdue, NEW D \in SUBSET Drafts,
           Claims(w, S, D)
    PROVE  /\ status' \in [Tasks -> Active \cup Ended \cup {"new"}]
           /\ \A t \in Tasks :
                \/ status'[t] = status[t]
                \/ status[t] = "running" /\ status'[t] = "failed" /\ t \in S
                \/ status[t] = "queued" /\ status'[t] = "running"
           /\ \A t \in S : t \in Tasks /\ status'[t] = "failed" /\ ~RowTaken(t)
           /\ serving' \in [Workers -> Tasks \cup {NoTask}]
           /\ \A v \in Workers :
                \/ serving'[v] = serving[v]
                \/ v = w /\ serving'[v] \in Tasks /\ status[serving'[v]] = "queued"
                   /\ status'[serving'[v]] = "running"
<1> DEFINE next == {t \in Tasks : /\ status[t] = "queued"
                                  /\ \A u \in 1 .. t - 1 : status[u] # "queued"}
<1>1. /\ \A t \in S : t \in Tasks /\ status[t] = "running" /\ ~RowTaken(t)
      /\ \A t \in next : t \in Tasks /\ status[t] = "queued"
  BY DEF Claims, Overdue
<1>2. status' = [t \in Tasks |-> IF t \in S THEN "failed"
                                 ELSE IF t \in next THEN "running" ELSE status[t]]
  BY DEF Claims
<1>3. \/ next = {} /\ UNCHANGED serving
      \/ \E t \in next : serving' = [serving EXCEPT ![w] = t]
  BY DEF Claims
<1>. HIDE DEF next
<1>4. status' \in [Tasks -> Active \cup Ended \cup {"new"}]
  BY <1>1, <1>2 DEF DInd, TasksTypeOK, Active, Ended
<1>5. \A t \in Tasks :
                \/ status'[t] = status[t]
                \/ status[t] = "running" /\ status'[t] = "failed" /\ t \in S
                \/ status[t] = "queued" /\ status'[t] = "running"
  BY <1>1, <1>2
<1>6. \A t \in S : t \in Tasks /\ status'[t] = "failed" /\ ~RowTaken(t)
  BY <1>1, <1>2
<1>7. \A t \in next : status'[t] = "running"
  BY <1>1, <1>2
<1>8. /\ serving' \in [Workers -> Tasks \cup {NoTask}]
      /\ \A v \in Workers :
           \/ serving'[v] = serving[v]
           \/ v = w /\ serving'[v] \in next
  <2>1. CASE UNCHANGED serving
    BY <2>1 DEF DInd, TasksTypeOK
  <2>2. ASSUME NEW t \in next, serving' = [serving EXCEPT ![w] = t]
        PROVE  /\ serving' \in [Workers -> Tasks \cup {NoTask}]
               /\ \A v \in Workers :
                    \/ serving'[v] = serving[v]
                    \/ v = w /\ serving'[v] \in next
    BY <2>2, <1>1 DEF DInd, TasksTypeOK
  <2>. QED
    BY <2>1, <2>2, <1>3
<1>. QED
  BY <1>1, <1>4, <1>5, <1>6, <1>7, <1>8

LEMMA SubmitKeeps ==
    ASSUME DInd, NEW d \in Drafts, NEW t \in Tasks, Submit(d, t)
    PROVE  DInd'
<1>1. TasksTypeOK'
  BY DEF DInd, TasksTypeOK, Placed, ActiveOn, Submit, Idle, tables, viewing, running, ending, saving, past, Active, Ended
<1>2. Placed'
  BY DEF DInd, TasksTypeOK, Placed, StopsOwn, Submit, Idle, ActiveOn, tables, viewing, running, ending, saving, past, Active, Ended
<1>3. OneActive'
  BY DEF DInd, TasksTypeOK, OneActive, Placed, Submit, Idle, ActiveOn, tables, viewing, running, ending, saving, past, Active, Ended
<1>4. LockedRuns'
  BY DEF DInd, TasksTypeOK, LockedRuns, Submit, Idle, ActiveOn, tables, viewing, running, ending, saving, past, Active, Ended
<1>5. Unclaimed'
  BY DEF DInd, TasksTypeOK, Unclaimed, LockedRuns, Loops, Submit, Idle, ActiveOn, tables, viewing, running, ending, saving, past, Active, Ended
<1>6. Loops'
  BY DEF DInd, TasksTypeOK, Loops, Submit, Idle, ActiveOn, tables, viewing, running, ending, saving, past, Active, Ended
<1>7. WritesOwn'
  BY DEF DInd, TasksTypeOK, Placed, WritesOwn, LockedRuns, Unclaimed, OneActive, AtWork, Own, Submit, Idle, ActiveOn, tables, viewing, running, ending, saving, past, Active, Ended
<1>8. OwnDraft'
  <2>1. base' = [base EXCEPT ![t] = base'[t]] /\ UNCHANGED log /\ status[t] = "new"
    BY DEF DInd, TasksTypeOK, Submit
  <2>2. \A e \in Drafts : \A i \in DOMAIN log[e] : log[e][i] # t
    BY <2>1, TaskNumbers DEF DInd, Writers
  <2>. QED
    BY <2>1, <2>2, TaskNumbers DEF DInd, TasksTypeOK, OwnDraft
<1>9. Writers'
  BY DEF DInd, TasksTypeOK, Writers, LockedRuns, Placed, Submit, Idle, ActiveOn, tables, viewing, running, ending, saving, past, Active, Ended
<1>10. StopsOwn'
  BY DEF DInd, TasksTypeOK, Placed, StopsOwn, ActiveOn, Submit, Idle, tables, viewing, running, ending, saving, past, Active, Ended
<1>11. IdleIsEditable'
  <2>1. UNCHANGED label /\ stranded \subseteq stranded' /\ IdleIsEditable
    BY DEF DInd, Submit, Idle, ActiveOn, tables, past
  <2>2. \A u \in Tasks : status[u] \in Active => status'[u] \in Active /\ on'[u] = on[u]
    BY DEF DInd, TasksTypeOK, Submit, Idle, ActiveOn, tables, Active
  <2>. QED
    BY <2>1, <2>2, StaysEditable
<1>12. Views'
  BY DEF DInd, TasksTypeOK, Views, LockedRuns, StopsOwn, Submit, Idle, ActiveOn, tables, viewing, running, ending, saving, past, Active, Ended
<1>13. HasRow'
  BY DEF DInd, TasksTypeOK, HasRow, Loops, Submit, Idle, RowTaken, Finishing, tables, viewing, running, ending, saving, past
<1>. QED
  BY <1>1, <1>2, <1>3, <1>4, <1>5, <1>6, <1>7, <1>8, <1>9, <1>10, <1>11, <1>12, <1>13 DEF DInd

LEMMA SaveKeeps ==
    ASSUME DInd, NEW d \in Drafts, Save(d)
    PROVE  DInd'
<1>1. TasksTypeOK'
  BY DEF DInd, TasksTypeOK, Placed, ActiveOn, Save, Idle, tables, viewing, running, ending, saving, past, Active, Ended
<1>2. Placed'
  BY DEF DInd, TasksTypeOK, Placed, StopsOwn, Save, Idle, ActiveOn, tables, viewing, running, ending, saving, past, Active, Ended
<1>3. OneActive'
  BY DEF DInd, TasksTypeOK, OneActive, Placed, Save, Idle, ActiveOn, tables, viewing, running, ending, saving, past, Active, Ended
<1>4. LockedRuns'
  BY DEF DInd, TasksTypeOK, LockedRuns, Save, Idle, ActiveOn, tables, viewing, running, ending, saving, past, Active, Ended
<1>5. Unclaimed'
  BY DEF DInd, TasksTypeOK, Unclaimed, LockedRuns, Loops, Save, Idle, ActiveOn, tables, viewing, running, ending, saving, past, Active, Ended
<1>6. Loops'
  BY DEF DInd, TasksTypeOK, Loops, Save, Idle, ActiveOn, tables, viewing, running, ending, saving, past, Active, Ended
<1>7. WritesOwn'
  BY DEF DInd, TasksTypeOK, Placed, WritesOwn, LockedRuns, Unclaimed, OneActive, AtWork, Own, Save, Idle, ActiveOn, tables, viewing, running, ending, saving, past, Active, Ended
<1>8. OwnDraft'
  BY DEF DInd, TasksTypeOK, Placed, OwnDraft, WritesOwn, LockedRuns, OneActive, Own, AtWork, Save, Idle, ActiveOn, tables, viewing, running, ending, saving, past, Active, Ended
<1>9. Writers'
  BY DEF DInd, TasksTypeOK, Writers, LockedRuns, Placed, Save, Idle, ActiveOn, tables, viewing, running, ending, saving, past, Active, Ended
<1>10. StopsOwn'
  BY DEF DInd, TasksTypeOK, Placed, StopsOwn, ActiveOn, Save, Idle, tables, viewing, running, ending, saving, past, Active, Ended
<1>11. IdleIsEditable'
  <2>1. UNCHANGED label /\ stranded \subseteq stranded' /\ IdleIsEditable
    BY DEF DInd, Save, Idle, ActiveOn, tables, past
  <2>2. \A u \in Tasks : status[u] \in Active => status'[u] \in Active /\ on'[u] = on[u]
    BY DEF DInd, TasksTypeOK, Save, Idle, ActiveOn, tables, Active
  <2>. QED
    BY <2>1, <2>2, StaysEditable
<1>12. Views'
  BY DEF DInd, TasksTypeOK, Views, LockedRuns, StopsOwn, Save, Idle, ActiveOn, tables, viewing, running, ending, saving, past, Active, Ended
<1>13. HasRow'
  BY DEF DInd, TasksTypeOK, HasRow, Loops, Save, Idle, RowTaken, Finishing, tables, viewing, running, ending, saving, past
<1>. QED
  BY <1>1, <1>2, <1>3, <1>4, <1>5, <1>6, <1>7, <1>8, <1>9, <1>10, <1>11, <1>12, <1>13 DEF DInd

LEMMA StopReadsKeeps ==
    ASSUME DInd, NEW d \in Drafts, StopReads(d)
    PROVE  DInd'
<1>1. TasksTypeOK'
  BY DEF DInd, TasksTypeOK, Placed, ActiveOn, StopReads, tables, viewing, running, ending, saving, past, Active, Ended
<1>2. Placed'
  BY DEF DInd, TasksTypeOK, Placed, StopsOwn, StopReads, tables, viewing, running, ending, saving, past, Active, Ended
<1>3. OneActive'
  BY DEF DInd, TasksTypeOK, OneActive, Placed, StopReads, tables, viewing, running, ending, saving, past, Active, Ended
<1>4. LockedRuns'
  BY DEF DInd, TasksTypeOK, LockedRuns, StopReads, tables, viewing, running, ending, saving, past, Active, Ended
<1>5. Unclaimed'
  BY DEF DInd, TasksTypeOK, Unclaimed, LockedRuns, Loops, StopReads, tables, viewing, running, ending, saving, past, Active, Ended
<1>6. Loops'
  BY DEF DInd, TasksTypeOK, Loops, StopReads, tables, viewing, running, ending, saving, past, Active, Ended
<1>7. WritesOwn'
  BY DEF DInd, TasksTypeOK, Placed, WritesOwn, LockedRuns, Unclaimed, OneActive, AtWork, Own, StopReads, tables, viewing, running, ending, saving, past, Active, Ended
<1>8. OwnDraft'
  BY DEF DInd, TasksTypeOK, Placed, OwnDraft, WritesOwn, LockedRuns, OneActive, Own, AtWork, StopReads, tables, viewing, running, ending, saving, past, Active, Ended
<1>9. Writers'
  BY DEF DInd, TasksTypeOK, Writers, LockedRuns, Placed, StopReads, tables, viewing, running, ending, saving, past, Active, Ended
<1>10. StopsOwn'
  BY DEF DInd, TasksTypeOK, Placed, StopsOwn, ActiveOn, StopReads, tables, viewing, running, ending, saving, past, Active, Ended
<1>11. IdleIsEditable'
  <2>1. UNCHANGED label /\ stranded \subseteq stranded' /\ IdleIsEditable
    BY DEF DInd, StopReads, tables, past
  <2>2. \A u \in Tasks : status[u] \in Active => status'[u] \in Active /\ on'[u] = on[u]
    BY DEF DInd, TasksTypeOK, StopReads, tables, Active
  <2>. QED
    BY <2>1, <2>2, StaysEditable
<1>12. Views'
  BY DEF DInd, TasksTypeOK, Views, LockedRuns, StopsOwn, StopReads, tables, viewing, running, ending, saving, past, Active, Ended
<1>13. HasRow'
  BY DEF DInd, TasksTypeOK, HasRow, Loops, StopReads, RowTaken, Finishing, tables, viewing, running, ending, saving, past
<1>. QED
  BY <1>1, <1>2, <1>3, <1>4, <1>5, <1>6, <1>7, <1>8, <1>9, <1>10, <1>11, <1>12, <1>13 DEF DInd

LEMMA StopCancelsKeeps ==
    ASSUME DInd, NEW d \in Drafts, StopCancels(d)
    PROVE  DInd'
<1>1. TasksTypeOK'
  BY DEF DInd, TasksTypeOK, Placed, ActiveOn, StopCancels, Drafted, tables, viewing, running, ending, saving, past, Active, Ended
<1>2. Placed'
  BY DEF DInd, TasksTypeOK, Placed, StopsOwn, StopCancels, Drafted, tables, viewing, running, ending, saving, past, Active, Ended
<1>3. OneActive'
  BY DEF DInd, TasksTypeOK, OneActive, Placed, StopCancels, Drafted, tables, viewing, running, ending, saving, past, Active, Ended
<1>4. LockedRuns'
  BY DEF DInd, TasksTypeOK, LockedRuns, StopCancels, RowTaken, Drafted, tables, viewing, running, ending, saving, past, Active, Ended
<1>5. Unclaimed'
  BY DEF DInd, TasksTypeOK, Unclaimed, LockedRuns, Loops, StopCancels, Drafted, tables, viewing, running, ending, saving, past, Active, Ended
<1>6. Loops'
  BY DEF DInd, TasksTypeOK, Loops, StopCancels, Drafted, tables, viewing, running, ending, saving, past, Active, Ended
<1>7. WritesOwn'
  BY DEF DInd, TasksTypeOK, Placed, WritesOwn, LockedRuns, Unclaimed, OneActive, AtWork, Own, StopCancels, Drafted, tables, viewing, running, ending, saving, past, Active, Ended
<1>8. OwnDraft'
  BY DEF DInd, TasksTypeOK, Placed, OwnDraft, WritesOwn, LockedRuns, OneActive, Own, AtWork, StopCancels, Drafted, tables, viewing, running, ending, saving, past, Active, Ended
<1>9. Writers'
  BY DEF DInd, TasksTypeOK, Writers, LockedRuns, Placed, StopCancels, Drafted, tables, viewing, running, ending, saving, past, Active, Ended
<1>10. StopsOwn'
  BY DEF DInd, TasksTypeOK, Placed, StopsOwn, ActiveOn, StopCancels, Drafted, tables, viewing, running, ending, saving, past, Active, Ended
<1>11. IdleIsEditable'
  <2>1. ASSUME NEW e \in Drafts, e # d, ActiveOn(e)' = {}
        PROVE  ActiveOn(e) = {}
    BY <2>1 DEF DInd, StopsOwn, ActiveOn, StopCancels, tables
  <2>2. label'[d] = "draft" /\ \A e \in Drafts : e # d => label'[e] = label[e]
    BY DEF DInd, TasksTypeOK, StopCancels, Drafted
  <2>. QED
    BY <2>1, <2>2 DEF DInd, IdleIsEditable, StopCancels, past
<1>12. Views'
  BY DEF DInd, TasksTypeOK, Views, LockedRuns, StopsOwn, StopCancels, Drafted, tables, viewing, running, ending, saving, past, Active, Ended
<1>13. HasRow'
  BY DEF DInd, TasksTypeOK, HasRow, Loops, StopCancels, Drafted, RowTaken, Finishing, tables, viewing, running, ending, saving, past
<1>. QED
  BY <1>1, <1>2, <1>3, <1>4, <1>5, <1>6, <1>7, <1>8, <1>9, <1>10, <1>11, <1>12, <1>13 DEF DInd

LEMMA WatchKeeps ==
    ASSUME DInd, NEW t \in Tasks, Watch(t)
    PROVE  DInd'
<1>1. TasksTypeOK'
  BY DEF DInd, TasksTypeOK, Placed, ActiveOn, Watch, tables, viewing, running, ending, saving, past, Active, Ended
<1>2. Placed'
  BY DEF DInd, TasksTypeOK, Placed, StopsOwn, Watch, tables, viewing, running, ending, saving, past, Active, Ended
<1>3. OneActive'
  BY DEF DInd, TasksTypeOK, OneActive, Placed, Watch, tables, viewing, running, ending, saving, past, Active, Ended
<1>4. LockedRuns'
  BY DEF DInd, TasksTypeOK, LockedRuns, Watch, tables, viewing, running, ending, saving, past, Active, Ended
<1>5. Unclaimed'
  BY DEF DInd, TasksTypeOK, Unclaimed, LockedRuns, Loops, Watch, tables, viewing, running, ending, saving, past, Active, Ended
<1>6. Loops'
  BY DEF DInd, TasksTypeOK, Loops, Watch, tables, viewing, running, ending, saving, past, Active, Ended
<1>7. WritesOwn'
  BY DEF DInd, TasksTypeOK, Placed, WritesOwn, LockedRuns, Unclaimed, OneActive, AtWork, Own, Watch, tables, viewing, running, ending, saving, past, Active, Ended
<1>8. OwnDraft'
  BY DEF DInd, TasksTypeOK, Placed, OwnDraft, WritesOwn, LockedRuns, OneActive, Own, AtWork, Watch, tables, viewing, running, ending, saving, past, Active, Ended
<1>9. Writers'
  BY DEF DInd, TasksTypeOK, Writers, LockedRuns, Placed, Watch, tables, viewing, running, ending, saving, past, Active, Ended
<1>10. StopsOwn'
  BY DEF DInd, TasksTypeOK, Placed, StopsOwn, ActiveOn, Watch, tables, viewing, running, ending, saving, past, Active, Ended
<1>11. IdleIsEditable'
  <2>1. UNCHANGED label /\ stranded \subseteq stranded' /\ IdleIsEditable
    BY DEF DInd, Watch, tables, past
  <2>2. \A u \in Tasks : status[u] \in Active => status'[u] \in Active /\ on'[u] = on[u]
    BY DEF DInd, TasksTypeOK, Watch, tables, Active
  <2>. QED
    BY <2>1, <2>2, StaysEditable
<1>12. Views'
  BY DEF DInd, TasksTypeOK, Views, LockedRuns, StopsOwn, Watch, tables, viewing, running, ending, saving, past, Active, Ended
<1>13. HasRow'
  BY DEF DInd, TasksTypeOK, HasRow, Loops, Watch, RowTaken, Finishing, tables, viewing, running, ending, saving, past
<1>. QED
  BY <1>1, <1>2, <1>3, <1>4, <1>5, <1>6, <1>7, <1>8, <1>9, <1>10, <1>11, <1>12, <1>13 DEF DInd

LEMMA PollStatusKeeps ==
    ASSUME DInd, PollStatus
    PROVE  DInd'
<1>1. TasksTypeOK'
  BY DEF DInd, TasksTypeOK, Placed, ActiveOn, PollStatus, Views, tables, viewing, running, ending, saving, past, Active, Ended
<1>2. Placed'
  BY DEF DInd, TasksTypeOK, Placed, StopsOwn, PollStatus, tables, viewing, running, ending, saving, past, Active, Ended
<1>3. OneActive'
  BY DEF DInd, TasksTypeOK, OneActive, Placed, PollStatus, tables, viewing, running, ending, saving, past, Active, Ended
<1>4. LockedRuns'
  BY DEF DInd, TasksTypeOK, LockedRuns, PollStatus, tables, viewing, running, ending, saving, past, Active, Ended
<1>5. Unclaimed'
  BY DEF DInd, TasksTypeOK, Unclaimed, LockedRuns, Loops, PollStatus, tables, viewing, running, ending, saving, past, Active, Ended
<1>6. Loops'
  BY DEF DInd, TasksTypeOK, Loops, PollStatus, tables, viewing, running, ending, saving, past, Active, Ended
<1>7. WritesOwn'
  BY DEF DInd, TasksTypeOK, Placed, WritesOwn, LockedRuns, Unclaimed, OneActive, AtWork, Own, PollStatus, tables, viewing, running, ending, saving, past, Active, Ended
<1>8. OwnDraft'
  BY DEF DInd, TasksTypeOK, Placed, OwnDraft, WritesOwn, LockedRuns, OneActive, Own, AtWork, PollStatus, tables, viewing, running, ending, saving, past, Active, Ended
<1>9. Writers'
  BY DEF DInd, TasksTypeOK, Writers, LockedRuns, Placed, PollStatus, tables, viewing, running, ending, saving, past, Active, Ended
<1>10. StopsOwn'
  BY DEF DInd, TasksTypeOK, Placed, StopsOwn, ActiveOn, PollStatus, tables, viewing, running, ending, saving, past, Active, Ended
<1>11. IdleIsEditable'
  <2>1. UNCHANGED label /\ stranded \subseteq stranded' /\ IdleIsEditable
    BY DEF DInd, PollStatus, tables, past
  <2>2. \A u \in Tasks : status[u] \in Active => status'[u] \in Active /\ on'[u] = on[u]
    BY DEF DInd, TasksTypeOK, PollStatus, tables, Active
  <2>. QED
    BY <2>1, <2>2, StaysEditable
<1>12. Views'
  BY DEF DInd, TasksTypeOK, Views, LockedRuns, StopsOwn, PollStatus, tables, viewing, running, ending, saving, past, Active, Ended
<1>13. HasRow'
  BY DEF DInd, TasksTypeOK, HasRow, Loops, PollStatus, RowTaken, Finishing, tables, viewing, running, ending, saving, past
<1>. QED
  BY <1>1, <1>2, <1>3, <1>4, <1>5, <1>6, <1>7, <1>8, <1>9, <1>10, <1>11, <1>12, <1>13 DEF DInd

LEMMA PollRowsKeeps ==
    ASSUME DInd, PollRows
    PROVE  DInd'
<1>1. TasksTypeOK'
  BY DraftConstants DEF DInd, TasksTypeOK, Placed, ActiveOn, PollRows, Rows, Views, tables, viewing, running, ending, saving, past, Active, Ended
<1>2. Placed'
  BY DEF DInd, TasksTypeOK, Placed, StopsOwn, PollRows, Rows, tables, viewing, running, ending, saving, past, Active, Ended
<1>3. OneActive'
  BY DEF DInd, TasksTypeOK, OneActive, Placed, PollRows, Rows, tables, viewing, running, ending, saving, past, Active, Ended
<1>4. LockedRuns'
  BY DEF DInd, TasksTypeOK, LockedRuns, PollRows, Rows, tables, viewing, running, ending, saving, past, Active, Ended
<1>5. Unclaimed'
  BY DEF DInd, TasksTypeOK, Unclaimed, LockedRuns, Loops, PollRows, Rows, tables, viewing, running, ending, saving, past, Active, Ended
<1>6. Loops'
  BY DEF DInd, TasksTypeOK, Loops, PollRows, Rows, tables, viewing, running, ending, saving, past, Active, Ended
<1>7. WritesOwn'
  BY DEF DInd, TasksTypeOK, Placed, WritesOwn, LockedRuns, Unclaimed, OneActive, AtWork, Own, PollRows, Rows, tables, viewing, running, ending, saving, past, Active, Ended
<1>8. OwnDraft'
  BY DEF DInd, TasksTypeOK, Placed, OwnDraft, WritesOwn, LockedRuns, OneActive, Own, AtWork, PollRows, Rows, tables, viewing, running, ending, saving, past, Active, Ended
<1>9. Writers'
  BY DEF DInd, TasksTypeOK, Writers, LockedRuns, Placed, PollRows, Rows, tables, viewing, running, ending, saving, past, Active, Ended
<1>10. StopsOwn'
  BY DEF DInd, TasksTypeOK, Placed, StopsOwn, ActiveOn, PollRows, Rows, tables, viewing, running, ending, saving, past, Active, Ended
<1>11. IdleIsEditable'
  <2>1. UNCHANGED label /\ stranded \subseteq stranded' /\ IdleIsEditable
    BY DEF DInd, PollRows, Rows, tables, past
  <2>2. \A u \in Tasks : status[u] \in Active => status'[u] \in Active /\ on'[u] = on[u]
    BY DEF DInd, TasksTypeOK, PollRows, Rows, tables, Active
  <2>. QED
    BY <2>1, <2>2, StaysEditable
<1>12. Views'
  BY DraftConstants DEF DInd, TasksTypeOK, Views, LockedRuns, StopsOwn, PollRows, Rows, tables, viewing, running, ending, saving, past, Active, Ended
<1>13. HasRow'
  BY DEF DInd, TasksTypeOK, HasRow, Loops, PollRows, RowTaken, Finishing, tables, viewing, running, ending, saving, past
<1>. QED
  BY <1>1, <1>2, <1>3, <1>4, <1>5, <1>6, <1>7, <1>8, <1>9, <1>10, <1>11, <1>12, <1>13 DEF DInd

LEMMA StartKeeps ==
    ASSUME DInd, NEW w \in Workers, NEW t \in Tasks, Start(w, t)
    PROVE  DInd'
<1>1. TasksTypeOK'
  BY DEF DInd, TasksTypeOK, Placed, ActiveOn, Start, Held, tables, viewing, running, ending, saving, past, Active, Ended
<1>2. Placed'
  BY DEF DInd, TasksTypeOK, Placed, StopsOwn, Start, Held, tables, viewing, running, ending, saving, past, Active, Ended
<1>3. OneActive'
  BY DEF DInd, TasksTypeOK, OneActive, Placed, Start, Held, tables, viewing, running, ending, saving, past, Active, Ended
<1>4. LockedRuns'
  BY DEF DInd, TasksTypeOK, LockedRuns, Start, Held, tables, viewing, running, ending, saving, past, Active, Ended
<1>5. Unclaimed'
  BY DEF DInd, TasksTypeOK, Unclaimed, LockedRuns, Loops, Start, Held, tables, viewing, running, ending, saving, past, Active, Ended
<1>6. Loops'
  BY TaskNumbers DEF DInd, TasksTypeOK, Loops, Start, ending
<1>7. WritesOwn'
  BY DEF DInd, TasksTypeOK, Placed, WritesOwn, LockedRuns, Unclaimed, OneActive, AtWork, Own, Start, Held, tables, viewing, running, ending, saving, past, Active, Ended
<1>8. OwnDraft'
  BY DEF DInd, TasksTypeOK, Placed, OwnDraft, WritesOwn, LockedRuns, OneActive, Own, AtWork, Start, Held, tables, viewing, running, ending, saving, past, Active, Ended
<1>9. Writers'
  BY DEF DInd, TasksTypeOK, Writers, LockedRuns, Placed, Start, Held, tables, viewing, running, ending, saving, past, Active, Ended
<1>10. StopsOwn'
  BY DEF DInd, TasksTypeOK, Placed, StopsOwn, ActiveOn, Start, Held, tables, viewing, running, ending, saving, past, Active, Ended
<1>11. IdleIsEditable'
  <2>1. UNCHANGED label /\ stranded \subseteq stranded' /\ IdleIsEditable
    BY DEF DInd, Start, Held, tables, past
  <2>2. \A u \in Tasks : status[u] \in Active => status'[u] \in Active /\ on'[u] = on[u]
    BY DEF DInd, TasksTypeOK, Start, Held, tables, Active
  <2>. QED
    BY <2>1, <2>2, StaysEditable
<1>12. Views'
  BY DEF DInd, TasksTypeOK, Views, LockedRuns, StopsOwn, Start, Held, tables, viewing, running, ending, saving, past, Active, Ended
<1>13. HasRow'
  BY DEF DInd, TasksTypeOK, HasRow, Loops, Start, RowTaken, Finishing, tables, viewing, running, ending, saving, past
<1>. QED
  BY <1>1, <1>2, <1>3, <1>4, <1>5, <1>6, <1>7, <1>8, <1>9, <1>10, <1>11, <1>12, <1>13 DEF DInd

LEMMA BeginKeeps ==
    ASSUME DInd, NEW w \in Workers, NEW t \in Tasks, NEW kind \in {"write", "events"}, Begin(w, t, kind)
    PROVE  DInd'
<1>1. TasksTypeOK'
  BY DEF DInd, TasksTypeOK, Placed, ActiveOn, Begin, tables, viewing, running, ending, saving, past, Active, Ended
<1>2. Placed'
  BY DEF DInd, TasksTypeOK, Placed, StopsOwn, Begin, tables, viewing, running, ending, saving, past, Active, Ended
<1>3. OneActive'
  BY DEF DInd, TasksTypeOK, OneActive, Placed, Begin, tables, viewing, running, ending, saving, past, Active, Ended
<1>4. LockedRuns'
  BY DEF DInd, TasksTypeOK, LockedRuns, Begin, tables, viewing, running, ending, saving, past, Active, Ended
<1>5. Unclaimed'
  BY DEF DInd, TasksTypeOK, Unclaimed, LockedRuns, Loops, Begin, tables, viewing, running, ending, saving, past, Active, Ended
<1>6. Loops'
  BY DEF DInd, TasksTypeOK, Loops, Begin, tables, viewing, running, ending, saving, past, Active, Ended
<1>7. WritesOwn'
  BY DEF DInd, TasksTypeOK, Placed, WritesOwn, LockedRuns, Unclaimed, OneActive, AtWork, Own, Begin, tables, viewing, running, ending, saving, past, Active, Ended
<1>8. OwnDraft'
  BY DEF DInd, TasksTypeOK, Placed, OwnDraft, WritesOwn, LockedRuns, OneActive, Own, AtWork, Begin, tables, viewing, running, ending, saving, past, Active, Ended
<1>9. Writers'
  BY DEF DInd, TasksTypeOK, Writers, LockedRuns, Placed, Begin, tables, viewing, running, ending, saving, past, Active, Ended
<1>10. StopsOwn'
  BY DEF DInd, TasksTypeOK, Placed, StopsOwn, ActiveOn, Begin, tables, viewing, running, ending, saving, past, Active, Ended
<1>11. IdleIsEditable'
  <2>1. UNCHANGED label /\ stranded \subseteq stranded' /\ IdleIsEditable
    BY DEF DInd, Begin, tables, past
  <2>2. \A u \in Tasks : status[u] \in Active => status'[u] \in Active /\ on'[u] = on[u]
    BY DEF DInd, TasksTypeOK, Begin, tables, Active
  <2>. QED
    BY <2>1, <2>2, StaysEditable
<1>12. Views'
  BY DEF DInd, TasksTypeOK, Views, LockedRuns, StopsOwn, Begin, tables, viewing, running, ending, saving, past, Active, Ended
<1>13. HasRow'
  BY DEF DInd, TasksTypeOK, HasRow, Loops, Begin, RowTaken, Finishing, tables, viewing, running, ending, saving, past
<1>. QED
  BY <1>1, <1>2, <1>3, <1>4, <1>5, <1>6, <1>7, <1>8, <1>9, <1>10, <1>11, <1>12, <1>13 DEF DInd

LEMMA TakeRowKeeps ==
    ASSUME DInd, NEW t \in Tasks, TakeRow(t)
    PROVE  DInd'
<1>1. TasksTypeOK'
  BY DEF DInd, TasksTypeOK, Placed, ActiveOn, TakeRow, tables, viewing, running, ending, saving, past, Active, Ended
<1>2. Placed'
  BY DEF DInd, TasksTypeOK, Placed, StopsOwn, TakeRow, tables, viewing, running, ending, saving, past, Active, Ended
<1>3. OneActive'
  BY DEF DInd, TasksTypeOK, OneActive, Placed, TakeRow, tables, viewing, running, ending, saving, past, Active, Ended
<1>4. LockedRuns'
  BY DEF DInd, TasksTypeOK, LockedRuns, TakeRow, tables, viewing, running, ending, saving, past, Active, Ended
<1>5. Unclaimed'
  BY DEF DInd, TasksTypeOK, Unclaimed, LockedRuns, Loops, TakeRow, tables, viewing, running, ending, saving, past, Active, Ended
<1>6. Loops'
  BY DEF DInd, TasksTypeOK, Loops, TakeRow, tables, viewing, running, ending, saving, past, Active, Ended
<1>7. WritesOwn'
  BY DEF DInd, TasksTypeOK, Placed, WritesOwn, LockedRuns, Unclaimed, OneActive, AtWork, Own, TakeRow, tables, viewing, running, ending, saving, past, Active, Ended
<1>8. OwnDraft'
  BY DEF DInd, TasksTypeOK, Placed, OwnDraft, WritesOwn, LockedRuns, OneActive, Own, AtWork, TakeRow, tables, viewing, running, ending, saving, past, Active, Ended
<1>9. Writers'
  BY DEF DInd, TasksTypeOK, Writers, LockedRuns, Placed, TakeRow, tables, viewing, running, ending, saving, past, Active, Ended
<1>10. StopsOwn'
  BY DEF DInd, TasksTypeOK, Placed, StopsOwn, ActiveOn, TakeRow, tables, viewing, running, ending, saving, past, Active, Ended
<1>11. IdleIsEditable'
  <2>1. UNCHANGED label /\ stranded \subseteq stranded' /\ IdleIsEditable
    BY DEF DInd, TakeRow, tables, past
  <2>2. \A u \in Tasks : status[u] \in Active => status'[u] \in Active /\ on'[u] = on[u]
    BY DEF DInd, TasksTypeOK, TakeRow, tables, Active
  <2>. QED
    BY <2>1, <2>2, StaysEditable
<1>12. Views'
  BY DEF DInd, TasksTypeOK, Views, LockedRuns, StopsOwn, TakeRow, tables, viewing, running, ending, saving, past, Active, Ended
<1>13. HasRow'
  BY DEF DInd, TasksTypeOK, HasRow, Loops, TakeRow, RowTaken, Finishing, tables, viewing, running, ending, saving, past
<1>. QED
  BY <1>1, <1>2, <1>3, <1>4, <1>5, <1>6, <1>7, <1>8, <1>9, <1>10, <1>11, <1>12, <1>13 DEF DInd

LEMMA RefusedKeeps ==
    ASSUME DInd, NEW t \in Tasks, Refused(t)
    PROVE  DInd'
<1>1. TasksTypeOK'
  BY DEF DInd, TasksTypeOK, Placed, ActiveOn, Refused, tables, viewing, running, ending, saving, past, Active, Ended
<1>2. Placed'
  BY DEF DInd, TasksTypeOK, Placed, StopsOwn, Refused, tables, viewing, running, ending, saving, past, Active, Ended
<1>3. OneActive'
  BY DEF DInd, TasksTypeOK, OneActive, Placed, Refused, tables, viewing, running, ending, saving, past, Active, Ended
<1>4. LockedRuns'
  BY DEF DInd, TasksTypeOK, LockedRuns, Refused, tables, viewing, running, ending, saving, past, Active, Ended
<1>5. Unclaimed'
  BY DEF DInd, TasksTypeOK, Unclaimed, LockedRuns, Loops, Refused, tables, viewing, running, ending, saving, past, Active, Ended
<1>6. Loops'
  BY DEF DInd, TasksTypeOK, Loops, Refused, tables, viewing, running, ending, saving, past, Active, Ended
<1>7. WritesOwn'
  BY DEF DInd, TasksTypeOK, Placed, WritesOwn, LockedRuns, Unclaimed, OneActive, AtWork, Own, Refused, tables, viewing, running, ending, saving, past, Active, Ended
<1>8. OwnDraft'
  BY DEF DInd, TasksTypeOK, Placed, OwnDraft, WritesOwn, LockedRuns, OneActive, Own, AtWork, Refused, tables, viewing, running, ending, saving, past, Active, Ended
<1>9. Writers'
  BY DEF DInd, TasksTypeOK, Writers, LockedRuns, Placed, Refused, tables, viewing, running, ending, saving, past, Active, Ended
<1>10. StopsOwn'
  BY DEF DInd, TasksTypeOK, Placed, StopsOwn, ActiveOn, Refused, tables, viewing, running, ending, saving, past, Active, Ended
<1>11. IdleIsEditable'
  <2>1. UNCHANGED label /\ stranded \subseteq stranded' /\ IdleIsEditable
    BY DEF DInd, Refused, tables, past
  <2>2. \A u \in Tasks : status[u] \in Active => status'[u] \in Active /\ on'[u] = on[u]
    BY DEF DInd, TasksTypeOK, Refused, tables, Active
  <2>. QED
    BY <2>1, <2>2, StaysEditable
<1>12. Views'
  BY DEF DInd, TasksTypeOK, Views, LockedRuns, StopsOwn, Refused, tables, viewing, running, ending, saving, past, Active, Ended
<1>13. HasRow'
  BY DEF DInd, TasksTypeOK, HasRow, Loops, Refused, RowTaken, Finishing, tables, viewing, running, ending, saving, past
<1>. QED
  BY <1>1, <1>2, <1>3, <1>4, <1>5, <1>6, <1>7, <1>8, <1>9, <1>10, <1>11, <1>12, <1>13 DEF DInd

LEMMA CommitWriteKeeps ==
    ASSUME DInd, NEW t \in Tasks, NEW to \in {"draft", "in_progress"}, CommitWrite(t, to)
    PROVE  DInd'
<1>1. TasksTypeOK'
  <2>1. status[t] = "running" /\ on[t] \in Drafts
    BY DEF DInd, LockedRuns, Placed, CommitWrite
  <2>2. Append(log[on[t]], t) \in Seq(Tasks \cup {Seller})
    BY <2>1, Appended DEF DInd, TasksTypeOK
  <2>. QED
    BY <2>1, <2>2 DEF DInd, TasksTypeOK, CommitWrite, tables, viewing, running, ending, saving, past
<1>2. Placed'
  BY DEF DInd, Placed, CommitWrite
<1>3. OneActive'
  BY DEF DInd, TasksTypeOK, OneActive, Placed, CommitWrite, tables, viewing, running, ending, saving, past, Active, Ended
<1>4. LockedRuns'
  BY DEF DInd, TasksTypeOK, LockedRuns, CommitWrite, tables, viewing, running, ending, saving, past, Active, Ended
<1>5. Unclaimed'
  BY DEF DInd, TasksTypeOK, Unclaimed, LockedRuns, Loops, CommitWrite, tables, viewing, running, ending, saving, past, Active, Ended
<1>6. Loops'
  BY DEF DInd, TasksTypeOK, Loops, CommitWrite, tables, viewing, running, ending, saving, past, Active, Ended
<1>7. WritesOwn'
  BY DEF DInd, TasksTypeOK, Placed, WritesOwn, LockedRuns, Unclaimed, OneActive, AtWork, Own, CommitWrite, tables, viewing, running, ending, saving, past, Active, Ended
<1>8. OwnDraft'
  BY DEF DInd, TasksTypeOK, Placed, OwnDraft, WritesOwn, LockedRuns, OneActive, Own, AtWork, CommitWrite, tables, viewing, running, ending, saving, past, Active, Ended
<1>9. Writers'
  BY DEF DInd, TasksTypeOK, Writers, LockedRuns, Placed, CommitWrite, tables, viewing, running, ending, saving, past, Active, Ended
<1>10. StopsOwn'
  BY DEF DInd, TasksTypeOK, Placed, StopsOwn, ActiveOn, CommitWrite, tables, viewing, running, ending, saving, past, Active, Ended
<1>11. IdleIsEditable'
  <2>1. t \in ActiveOn(on[t])' /\ on[t] \in Drafts
    BY DEF DInd, LockedRuns, Placed, ActiveOn, CommitWrite, Active
  <2>2. \A e \in Drafts : ActiveOn(e)' = ActiveOn(e) /\ (e # on[t] => label'[e] = label[e])
    BY DEF DInd, TasksTypeOK, ActiveOn, CommitWrite
  <2>. QED
    BY <2>1, <2>2 DEF DInd, IdleIsEditable, CommitWrite, past
<1>12. Views'
  BY DEF DInd, TasksTypeOK, Views, LockedRuns, StopsOwn, CommitWrite, tables, viewing, running, ending, saving, past, Active, Ended
<1>13. HasRow'
  BY DEF DInd, TasksTypeOK, HasRow, Loops, CommitWrite, RowTaken, Finishing, tables, viewing, running, ending, saving, past
<1>. QED
  BY <1>1, <1>2, <1>3, <1>4, <1>5, <1>6, <1>7, <1>8, <1>9, <1>10, <1>11, <1>12, <1>13 DEF DInd

LEMMA CommitEventsKeeps ==
    ASSUME DInd, NEW t \in Tasks, CommitEvents(t)
    PROVE  DInd'
<1>1. TasksTypeOK'
  BY DEF DInd, TasksTypeOK, Placed, ActiveOn, CommitEvents, tables, viewing, running, ending, saving, past, Active, Ended
<1>2. Placed'
  BY DEF DInd, TasksTypeOK, Placed, StopsOwn, CommitEvents, tables, viewing, running, ending, saving, past, Active, Ended
<1>3. OneActive'
  BY DEF DInd, TasksTypeOK, OneActive, Placed, CommitEvents, tables, viewing, running, ending, saving, past, Active, Ended
<1>4. LockedRuns'
  BY DEF DInd, TasksTypeOK, LockedRuns, CommitEvents, tables, viewing, running, ending, saving, past, Active, Ended
<1>5. Unclaimed'
  BY DEF DInd, TasksTypeOK, Unclaimed, LockedRuns, Loops, CommitEvents, tables, viewing, running, ending, saving, past, Active, Ended
<1>6. Loops'
  BY DEF DInd, TasksTypeOK, Loops, CommitEvents, tables, viewing, running, ending, saving, past, Active, Ended
<1>7. WritesOwn'
  BY DEF DInd, TasksTypeOK, Placed, WritesOwn, LockedRuns, Unclaimed, OneActive, AtWork, Own, CommitEvents, tables, viewing, running, ending, saving, past, Active, Ended
<1>8. OwnDraft'
  BY DEF DInd, TasksTypeOK, Placed, OwnDraft, WritesOwn, LockedRuns, OneActive, Own, AtWork, CommitEvents, tables, viewing, running, ending, saving, past, Active, Ended
<1>9. Writers'
  BY DEF DInd, TasksTypeOK, Writers, LockedRuns, Placed, CommitEvents, tables, viewing, running, ending, saving, past, Active, Ended
<1>10. StopsOwn'
  BY DEF DInd, TasksTypeOK, Placed, StopsOwn, ActiveOn, CommitEvents, tables, viewing, running, ending, saving, past, Active, Ended
<1>11. IdleIsEditable'
  <2>1. UNCHANGED label /\ stranded \subseteq stranded' /\ IdleIsEditable
    BY DEF DInd, CommitEvents, tables, past
  <2>2. \A u \in Tasks : status[u] \in Active => status'[u] \in Active /\ on'[u] = on[u]
    BY DEF DInd, TasksTypeOK, CommitEvents, tables, Active
  <2>. QED
    BY <2>1, <2>2, StaysEditable
<1>12. Views'
  BY DEF DInd, TasksTypeOK, Views, LockedRuns, StopsOwn, CommitEvents, tables, viewing, running, ending, saving, past, Active, Ended
<1>13. HasRow'
  BY DEF DInd, TasksTypeOK, HasRow, Loops, CommitEvents, RowTaken, Finishing, tables, viewing, running, ending, saving, past
<1>. QED
  BY <1>1, <1>2, <1>3, <1>4, <1>5, <1>6, <1>7, <1>8, <1>9, <1>10, <1>11, <1>12, <1>13 DEF DInd

LEMMA DeadlockWriteKeeps ==
    ASSUME DInd, NEW t \in Tasks, DeadlockWrite(t)
    PROVE  DInd'
<1>1. TasksTypeOK'
  BY DEF DInd, TasksTypeOK, Placed, ActiveOn, DeadlockWrite, tables, viewing, running, ending, saving, past, Active, Ended
<1>2. Placed'
  BY DEF DInd, TasksTypeOK, Placed, StopsOwn, DeadlockWrite, tables, viewing, running, ending, saving, past, Active, Ended
<1>3. OneActive'
  BY DEF DInd, TasksTypeOK, OneActive, Placed, DeadlockWrite, tables, viewing, running, ending, saving, past, Active, Ended
<1>4. LockedRuns'
  BY DEF DInd, TasksTypeOK, LockedRuns, DeadlockWrite, tables, viewing, running, ending, saving, past, Active, Ended
<1>5. Unclaimed'
  BY DEF DInd, TasksTypeOK, Unclaimed, LockedRuns, Loops, DeadlockWrite, tables, viewing, running, ending, saving, past, Active, Ended
<1>6. Loops'
  BY DEF DInd, TasksTypeOK, Loops, DeadlockWrite, tables, viewing, running, ending, saving, past, Active, Ended
<1>7. WritesOwn'
  BY DEF DInd, TasksTypeOK, Placed, WritesOwn, LockedRuns, Unclaimed, OneActive, AtWork, Own, DeadlockWrite, tables, viewing, running, ending, saving, past, Active, Ended
<1>8. OwnDraft'
  BY DEF DInd, TasksTypeOK, Placed, OwnDraft, WritesOwn, LockedRuns, OneActive, Own, AtWork, DeadlockWrite, tables, viewing, running, ending, saving, past, Active, Ended
<1>9. Writers'
  BY DEF DInd, TasksTypeOK, Writers, LockedRuns, Placed, DeadlockWrite, tables, viewing, running, ending, saving, past, Active, Ended
<1>10. StopsOwn'
  BY DEF DInd, TasksTypeOK, Placed, StopsOwn, ActiveOn, DeadlockWrite, tables, viewing, running, ending, saving, past, Active, Ended
<1>11. IdleIsEditable'
  <2>1. UNCHANGED label /\ stranded \subseteq stranded' /\ IdleIsEditable
    BY DEF DInd, DeadlockWrite, tables, past
  <2>2. \A u \in Tasks : status[u] \in Active => status'[u] \in Active /\ on'[u] = on[u]
    BY DEF DInd, TasksTypeOK, DeadlockWrite, tables, Active
  <2>. QED
    BY <2>1, <2>2, StaysEditable
<1>12. Views'
  BY DEF DInd, TasksTypeOK, Views, LockedRuns, StopsOwn, DeadlockWrite, tables, viewing, running, ending, saving, past, Active, Ended
<1>13. HasRow'
  BY DEF DInd, TasksTypeOK, HasRow, Loops, DeadlockWrite, RowTaken, Finishing, tables, viewing, running, ending, saving, past
<1>. QED
  BY <1>1, <1>2, <1>3, <1>4, <1>5, <1>6, <1>7, <1>8, <1>9, <1>10, <1>11, <1>12, <1>13 DEF DInd

LEMMA DeadlockStopKeeps ==
    ASSUME DInd, NEW d \in Drafts, DeadlockStop(d)
    PROVE  DInd'
<1>1. TasksTypeOK'
  BY DEF DInd, TasksTypeOK, Placed, ActiveOn, DeadlockStop, tables, viewing, running, ending, saving, past, Active, Ended
<1>2. Placed'
  BY DEF DInd, TasksTypeOK, Placed, StopsOwn, DeadlockStop, tables, viewing, running, ending, saving, past, Active, Ended
<1>3. OneActive'
  BY DEF DInd, TasksTypeOK, OneActive, Placed, DeadlockStop, tables, viewing, running, ending, saving, past, Active, Ended
<1>4. LockedRuns'
  BY DEF DInd, TasksTypeOK, LockedRuns, DeadlockStop, tables, viewing, running, ending, saving, past, Active, Ended
<1>5. Unclaimed'
  BY DEF DInd, TasksTypeOK, Unclaimed, LockedRuns, Loops, DeadlockStop, tables, viewing, running, ending, saving, past, Active, Ended
<1>6. Loops'
  BY DEF DInd, TasksTypeOK, Loops, DeadlockStop, tables, viewing, running, ending, saving, past, Active, Ended
<1>7. WritesOwn'
  BY DEF DInd, TasksTypeOK, Placed, WritesOwn, LockedRuns, Unclaimed, OneActive, AtWork, Own, DeadlockStop, tables, viewing, running, ending, saving, past, Active, Ended
<1>8. OwnDraft'
  BY DEF DInd, TasksTypeOK, Placed, OwnDraft, WritesOwn, LockedRuns, OneActive, Own, AtWork, DeadlockStop, tables, viewing, running, ending, saving, past, Active, Ended
<1>9. Writers'
  BY DEF DInd, TasksTypeOK, Writers, LockedRuns, Placed, DeadlockStop, tables, viewing, running, ending, saving, past, Active, Ended
<1>10. StopsOwn'
  BY DEF DInd, TasksTypeOK, Placed, StopsOwn, ActiveOn, DeadlockStop, tables, viewing, running, ending, saving, past, Active, Ended
<1>11. IdleIsEditable'
  <2>1. UNCHANGED label /\ stranded \subseteq stranded' /\ IdleIsEditable
    BY DEF DInd, DeadlockStop, tables, past
  <2>2. \A u \in Tasks : status[u] \in Active => status'[u] \in Active /\ on'[u] = on[u]
    BY DEF DInd, TasksTypeOK, DeadlockStop, tables, Active
  <2>. QED
    BY <2>1, <2>2, StaysEditable
<1>12. Views'
  BY DEF DInd, TasksTypeOK, Views, LockedRuns, StopsOwn, DeadlockStop, tables, viewing, running, ending, saving, past, Active, Ended
<1>13. HasRow'
  BY DEF DInd, TasksTypeOK, HasRow, Loops, DeadlockStop, RowTaken, Finishing, tables, viewing, running, ending, saving, past
<1>. QED
  BY <1>1, <1>2, <1>3, <1>4, <1>5, <1>6, <1>7, <1>8, <1>9, <1>10, <1>11, <1>12, <1>13 DEF DInd

LEMMA FinishBeginsKeeps ==
    ASSUME DInd, NEW w \in Workers, NEW t \in Tasks, NEW outcome \in {"completed", "failed"}, FinishBegins(w, t, outcome)
    PROVE  DInd'
<1>0. UNCHANGED <<tables, stop, viewing, saving, past>>
  BY DEF FinishBegins
<1>1. TasksTypeOK'
  BY <1>0 DEF DInd, TasksTypeOK, FinishBegins, tables, viewing, running, ending, saving, past
<1>2. Placed' /\ OneActive' /\ LockedRuns' /\ OwnDraft' /\ Writers' /\ StopsOwn' /\ Views'
  BY <1>0 DEF DInd, Placed, OneActive, LockedRuns, OwnDraft, Writers, StopsOwn, Views, tables, viewing, saving
<1>3. IdleIsEditable'
  BY <1>0 DEF DInd, IdleIsEditable, ActiveOn, tables, past
<1>4. Unclaimed'
  BY TaskNumbers DEF DInd, TasksTypeOK, Unclaimed, FinishBegins, tables, viewing, running, ending, saving, past
<1>5. Loops'
  BY TaskNumbers DEF DInd, TasksTypeOK, Loops, FinishBegins, tables, viewing, running, ending, saving, past
<1>6. WritesOwn'
  <2>1. \A u \in Tasks : AtWork(u)' => AtWork(u)
    BY TaskNumbers DEF DInd, TasksTypeOK, AtWork, FinishBegins, tables, viewing, running, ending, saving, past
  <2>. QED
    BY <2>1, <1>0 DEF DInd, WritesOwn, Own, tables
<1>7. HasRow'
  BY TaskNumbers DEF DInd, TasksTypeOK, HasRow, RowTaken, Finishing, FinishBegins, tables, viewing, running, ending, saving, past
<1>. QED
  BY <1>1, <1>2, <1>3, <1>4, <1>5, <1>6, <1>7 DEF DInd

LEMMA FinishTakesKeeps ==
    ASSUME DInd, NEW w \in Workers, NEW t \in Tasks, FinishTakes(w, t)
    PROVE  DInd'
<1>0. UNCHANGED <<tables, stop, viewing, saving, past>>
  BY DEF FinishTakes
<1>1. TasksTypeOK'
  BY <1>0 DEF DInd, TasksTypeOK, FinishTakes, tables, viewing, running, ending, saving, past
<1>2. Placed' /\ OneActive' /\ LockedRuns' /\ OwnDraft' /\ Writers' /\ StopsOwn' /\ Views'
  BY <1>0 DEF DInd, Placed, OneActive, LockedRuns, OwnDraft, Writers, StopsOwn, Views, tables, viewing, saving
<1>3. IdleIsEditable'
  BY <1>0 DEF DInd, IdleIsEditable, ActiveOn, tables, past
<1>4. Unclaimed'
  BY TaskNumbers DEF DInd, TasksTypeOK, Unclaimed, FinishTakes, tables, viewing, running, ending, saving, past
<1>5. Loops'
  BY TaskNumbers DEF DInd, TasksTypeOK, Loops, FinishTakes, tables, viewing, running, ending, saving, past
<1>6. WritesOwn'
  <2>1. \A u \in Tasks : AtWork(u)' => AtWork(u)
    BY TaskNumbers DEF DInd, TasksTypeOK, AtWork, FinishTakes, tables, viewing, running, ending, saving, past
  <2>. QED
    BY <2>1, <1>0 DEF DInd, WritesOwn, Own, tables
<1>7. HasRow'
  BY TaskNumbers DEF DInd, TasksTypeOK, HasRow, RowTaken, Finishing, FinishTakes, tables, viewing, running, ending, saving, past
<1>. QED
  BY <1>1, <1>2, <1>3, <1>4, <1>5, <1>6, <1>7 DEF DInd

LEMMA FinishRefusedKeeps ==
    ASSUME DInd, NEW w \in Workers, NEW t \in Tasks, FinishRefused(w, t)
    PROVE  DInd'
<1>0. UNCHANGED <<tables, stop, viewing, saving, past>>
  BY DEF FinishRefused, LetsGo
<1>1. TasksTypeOK'
  BY <1>0 DEF DInd, TasksTypeOK, FinishRefused, LetsGo, tables, viewing, running, ending, saving, past
<1>2. Placed' /\ OneActive' /\ LockedRuns' /\ OwnDraft' /\ Writers' /\ StopsOwn' /\ Views'
  BY <1>0 DEF DInd, Placed, OneActive, LockedRuns, OwnDraft, Writers, StopsOwn, Views, tables, viewing, saving
<1>3. IdleIsEditable'
  BY <1>0 DEF DInd, IdleIsEditable, ActiveOn, tables, past
<1>4. Unclaimed'
  BY TaskNumbers DEF DInd, TasksTypeOK, Unclaimed, FinishRefused, LetsGo, tables, viewing, running, ending, saving, past
<1>5. Loops'
  BY TaskNumbers DEF DInd, TasksTypeOK, Loops, FinishRefused, LetsGo, tables, viewing, running, ending, saving, past
<1>6. WritesOwn'
  <2>1. \A u \in Tasks : AtWork(u)' => AtWork(u)
    BY TaskNumbers DEF DInd, TasksTypeOK, AtWork, FinishRefused, LetsGo, tables, viewing, running, ending, saving, past
  <2>. QED
    BY <2>1, <1>0 DEF DInd, WritesOwn, Own, tables
<1>7. HasRow'
  BY TaskNumbers DEF DInd, TasksTypeOK, HasRow, RowTaken, Finishing, FinishRefused, LetsGo, tables, viewing, running, ending, saving, past
<1>. QED
  BY <1>1, <1>2, <1>3, <1>4, <1>5, <1>6, <1>7 DEF DInd

LEMMA FinishAbortsKeeps ==
    ASSUME DInd, NEW w \in Workers, NEW t \in Tasks, FinishAborts(w, t)
    PROVE  DInd'
<1>0. UNCHANGED <<tables, stop, viewing, sweep, by, saving, past>> /\ serving[w] = t
  BY DEF FinishAborts, LetsGo, running
<1>a. \/ /\ UNCHANGED <<loop, serving, started>>
         /\ out' = [out EXCEPT ![w] = "failed"]
         /\ \E f \in {"fresh", "late"} : fin' = [fin EXCEPT ![w] = f]
      \/ /\ loop' = [loop EXCEPT ![w] = "ended"]
         /\ serving' = [serving EXCEPT ![w] = NoTask] /\ started' = [started EXCEPT ![w] = FALSE]
         /\ fin' = [fin EXCEPT ![w] = "no"] /\ out' = [out EXCEPT ![w] = "completed"]
  BY DEF FinishAborts, LetsGo, running
<1>b. /\ loop' \in [Workers -> {"up", "crashed", "ended"}]
      /\ serving' \in [Workers -> Tasks \cup {NoTask}] /\ started' \in [Workers -> BOOLEAN]
      /\ fin' \in [Workers -> {"no", "fresh", "late", "has"}]
      /\ out' \in [Workers -> {"completed", "failed"}]
  <2>1. CASE UNCHANGED <<loop, serving, started>> /\ out' = [out EXCEPT ![w] = "failed"]
             /\ \E f \in {"fresh", "late"} : fin' = [fin EXCEPT ![w] = f]
    BY <2>1 DEF DInd, TasksTypeOK
  <2>2. CASE /\ loop' = [loop EXCEPT ![w] = "ended"]
             /\ serving' = [serving EXCEPT ![w] = NoTask] /\ started' = [started EXCEPT ![w] = FALSE]
             /\ fin' = [fin EXCEPT ![w] = "no"] /\ out' = [out EXCEPT ![w] = "completed"]
    BY <2>2 DEF DInd, TasksTypeOK
  <2>. QED
    BY <1>a, <2>1, <2>2
<1>c. \A v \in Workers :
        /\ v # w => serving'[v] = serving[v] /\ started'[v] = started[v] /\ fin'[v] = fin[v]
        /\ fin'[w] # "has"
        /\ \/ serving'[w] = t /\ started'[w] = started[w]
           \/ serving'[w] = NoTask /\ ~started'[w] /\ fin'[w] = "no"
  BY <1>0, <1>a DEF DInd, TasksTypeOK
<1>1. TasksTypeOK'
  BY <1>0, <1>b DEF DInd, TasksTypeOK, tables, viewing, saving, past
<1>2. Placed' /\ OneActive' /\ LockedRuns' /\ OwnDraft' /\ Writers' /\ StopsOwn' /\ Views'
  BY <1>0 DEF DInd, Placed, OneActive, LockedRuns, OwnDraft, Writers, StopsOwn, Views, tables, viewing, saving
<1>3. IdleIsEditable'
  BY <1>0 DEF DInd, IdleIsEditable, ActiveOn, tables, past
<1>4. Unclaimed'
  BY <1>0, <1>c, TaskNumbers DEF DInd, Unclaimed, tables, saving
<1>5. Loops'
  <2>1. SUFFICES ASSUME NEW v \in Workers
                 PROVE  /\ serving'[v] = NoTask => ~started'[v] /\ fin'[v] = "no"
                        /\ sweep[v].open => serving'[v] = NoTask
    BY <1>0 DEF Loops
  <2>2. CASE v # w
    BY <2>2, <1>c DEF DInd, Loops
  <2>3. CASE v = w
    BY <2>3, <1>0, <1>c, TaskNumbers DEF DInd, Loops
  <2>. QED
    BY <2>2, <2>3
<1>6. WritesOwn'
  <2>1. \A u \in Tasks : AtWork(u)' => AtWork(u)
    BY <1>0, <1>c, TaskNumbers DEF AtWork, tables, saving
  <2>. QED
    BY <2>1, <1>0 DEF DInd, WritesOwn, Own, tables
<1>7. HasRow'
  <2>1. \A v \in Workers : fin'[v] = "has" => v # w
    BY <1>c
  <2>. QED
    BY <2>1, <1>0, <1>c DEF DInd, HasRow, tables, saving
<1>. QED
  BY <1>1, <1>2, <1>3, <1>4, <1>5, <1>6, <1>7 DEF DInd

LEMMA FinishCommitsKeeps ==
    ASSUME DInd, NEW w \in Workers, NEW t \in Tasks, FinishCommits(w, t)
    PROVE  DInd'
<1>0. /\ UNCHANGED <<on, base, log, events, loop, stop, viewing, sweep, by, saving, past>>
      /\ serving' = [serving EXCEPT ![w] = NoTask] /\ started' = [started EXCEPT ![w] = FALSE]
      /\ fin' = [fin EXCEPT ![w] = "no"] /\ out' = [out EXCEPT ![w] = "completed"]
      /\ serving[w] = t /\ fin[w] = "has"
  BY DEF FinishCommits, LetsGo
<1>a. /\ status[t] = "running" /\ ~locked[t] /\ on[t] \in Drafts
      /\ out[w] \in {"completed", "failed"}
      /\ status' = [status EXCEPT ![t] = out[w]]
      /\ lease' = [lease EXCEPT ![t] = "none"]
      /\ label' = [label EXCEPT ![on[t]] = "draft"]
      /\ \A u \in Tasks :
           \/ u # t /\ status'[u] = status[u]
           \/ u = t /\ status[u] = "running" /\ status'[u] \in Ended
  BY FinishedTask
<1>1. TasksTypeOK'
  <2>1. /\ status' \in [Tasks -> Active \cup Ended \cup {"new"}]
        /\ lease' \in [Tasks -> {"none", "live", "past"}]
        /\ label' \in [Drafts -> {"draft", "in_progress"}]
    BY <1>a DEF DInd, TasksTypeOK, Ended
  <2>2. /\ serving' \in [Workers -> Tasks \cup {NoTask}] /\ started' \in [Workers -> BOOLEAN]
        /\ fin' \in [Workers -> {"no", "fresh", "late", "has"}]
        /\ out' \in [Workers -> {"completed", "failed"}]
    BY <1>0 DEF DInd, TasksTypeOK
  <2>. QED
    BY <2>1, <2>2, <1>0 DEF DInd, TasksTypeOK, viewing, saving, past
<1>2. Placed'
  BY <1>0, <1>a DEF DInd, Placed, Ended
<1>3. OneActive'
  BY <1>0, <1>a DEF DInd, OneActive, Active, Ended
<1>4. LockedRuns'
  BY <1>0, <1>a DEF DInd, LockedRuns, saving
<1>5. Unclaimed'
  BY <1>0, <1>a, TaskNumbers DEF DInd, TasksTypeOK, Unclaimed, saving, Ended
<1>6. Loops'
  BY <1>0, TaskNumbers DEF DInd, TasksTypeOK, Loops
<1>7. WritesOwn'
  <2>1. \A u \in Tasks : AtWork(u)' => AtWork(u)
    BY <1>0, <1>a, TaskNumbers DEF DInd, TasksTypeOK, AtWork, Ended, saving
  <2>. QED
    BY <2>1, <1>0 DEF DInd, WritesOwn, Own
<1>8. OwnDraft'
  BY <1>0 DEF DInd, OwnDraft
<1>9. Writers'
  BY <1>0, <1>a DEF DInd, TasksTypeOK, Writers, Ended
<1>10. StopsOwn'
  BY <1>0, <1>a DEF DInd, TasksTypeOK, StopsOwn, Ended
<1>11. IdleIsEditable'
  <2>1. \A e \in Drafts : e # on[t] /\ ActiveOn(e)' = {} => ActiveOn(e) = {}
    BY <1>0, <1>a DEF ActiveOn
  <2>2. label'[on[t]] = "draft" /\ \A e \in Drafts : e # on[t] => label'[e] = label[e]
    BY <1>a DEF DInd, TasksTypeOK
  <2>. QED
    BY <2>1, <2>2, <1>0 DEF DInd, IdleIsEditable, past
<1>12. Views'
  BY <1>0, <1>a DEF DInd, TasksTypeOK, Views, viewing, Ended
<1>13. HasRow'
  BY <1>0, <1>a, TaskNumbers DEF DInd, TasksTypeOK, HasRow, saving
<1>. QED
  BY <1>1, <1>2, <1>3, <1>4, <1>5, <1>6, <1>7, <1>8, <1>9, <1>10, <1>11, <1>12, <1>13 DEF DInd

LEMMA LeaseRunsOutKeeps ==
    ASSUME DInd, NEW t \in Tasks, LeaseRunsOut(t)
    PROVE  DInd'
<1>1. TasksTypeOK'
  BY DEF DInd, TasksTypeOK, Placed, ActiveOn, LeaseRunsOut, tables, viewing, running, ending, saving, past, Active, Ended
<1>2. Placed'
  BY DEF DInd, TasksTypeOK, Placed, StopsOwn, LeaseRunsOut, tables, viewing, running, ending, saving, past, Active, Ended
<1>3. OneActive'
  BY DEF DInd, TasksTypeOK, OneActive, Placed, LeaseRunsOut, tables, viewing, running, ending, saving, past, Active, Ended
<1>4. LockedRuns'
  BY DEF DInd, TasksTypeOK, LockedRuns, LeaseRunsOut, tables, viewing, running, ending, saving, past, Active, Ended
<1>5. Unclaimed'
  BY DEF DInd, TasksTypeOK, Unclaimed, LockedRuns, Loops, LeaseRunsOut, tables, viewing, running, ending, saving, past, Active, Ended
<1>6. Loops'
  BY DEF DInd, TasksTypeOK, Loops, LeaseRunsOut, tables, viewing, running, ending, saving, past, Active, Ended
<1>7. WritesOwn'
  BY DEF DInd, TasksTypeOK, Placed, WritesOwn, LockedRuns, Unclaimed, OneActive, AtWork, Own, LeaseRunsOut, tables, viewing, running, ending, saving, past, Active, Ended
<1>8. OwnDraft'
  BY DEF DInd, TasksTypeOK, Placed, OwnDraft, WritesOwn, LockedRuns, OneActive, Own, AtWork, LeaseRunsOut, tables, viewing, running, ending, saving, past, Active, Ended
<1>9. Writers'
  BY DEF DInd, TasksTypeOK, Writers, LockedRuns, Placed, LeaseRunsOut, tables, viewing, running, ending, saving, past, Active, Ended
<1>10. StopsOwn'
  BY DEF DInd, TasksTypeOK, Placed, StopsOwn, ActiveOn, LeaseRunsOut, tables, viewing, running, ending, saving, past, Active, Ended
<1>11. IdleIsEditable'
  <2>1. UNCHANGED label /\ stranded \subseteq stranded' /\ IdleIsEditable
    BY DEF DInd, LeaseRunsOut, tables, past
  <2>2. \A u \in Tasks : status[u] \in Active => status'[u] \in Active /\ on'[u] = on[u]
    BY DEF DInd, TasksTypeOK, LeaseRunsOut, tables, Active
  <2>. QED
    BY <2>1, <2>2, StaysEditable
<1>12. Views'
  BY DEF DInd, TasksTypeOK, Views, LockedRuns, StopsOwn, LeaseRunsOut, tables, viewing, running, ending, saving, past, Active, Ended
<1>13. HasRow'
  BY DEF DInd, TasksTypeOK, HasRow, Loops, LeaseRunsOut, RowTaken, Finishing, tables, viewing, running, ending, saving, past
<1>. QED
  BY <1>1, <1>2, <1>3, <1>4, <1>5, <1>6, <1>7, <1>8, <1>9, <1>10, <1>11, <1>12, <1>13 DEF DInd

LEMMA CrashKeeps ==
    ASSUME DInd, NEW w \in Workers, Crash(w)
    PROVE  DInd'
<1>1. TasksTypeOK'
  <2>1. sweep' \in [Workers -> [open : BOOLEAN, tasks : SUBSET Tasks, drafts : SUBSET Drafts]]
    BY DEF DInd, TasksTypeOK, Crash, NoSweep
  <2>2. crashes' \in Nat
    BY DEF DInd, TasksTypeOK, Crash
  <2>3. /\ txn' \in [Tasks -> {"none", "write", "events"}]
        /\ locked' \in [Tasks -> BOOLEAN] /\ fresh' \in [Tasks -> BOOLEAN]
    BY DEF DInd, TasksTypeOK, Crash
  <2>4. /\ fin' \in [Workers -> {"no", "fresh", "late", "has"}]
        /\ out' \in [Workers -> {"completed", "failed"}]
    BY DEF DInd, TasksTypeOK, Crash
  <2>. QED
    BY <2>1, <2>2, <2>3, <2>4 DEF DInd, TasksTypeOK, Crash, tables, viewing
<1>2. Placed'
  BY DEF DInd, TasksTypeOK, Placed, StopsOwn, Crash, NoSweep, tables, viewing, running, ending, saving, past, Active, Ended
<1>3. OneActive'
  BY DEF DInd, TasksTypeOK, OneActive, Placed, Crash, NoSweep, tables, viewing, running, ending, saving, past, Active, Ended
<1>4. LockedRuns'
  BY DEF DInd, TasksTypeOK, LockedRuns, Crash, NoSweep, tables, viewing, running, ending, saving, past, Active, Ended
<1>5. Unclaimed'
  BY TaskNumbers DEF DInd, TasksTypeOK, Unclaimed, Crash, NoSweep, tables, saving
<1>6. Loops'
  BY TaskNumbers DEF DInd, TasksTypeOK, Loops, Crash, NoSweep, NoSweep
<1>7. WritesOwn'
  BY DEF DInd, TasksTypeOK, Placed, WritesOwn, LockedRuns, Unclaimed, OneActive, AtWork, Own, Crash, NoSweep, tables, viewing, running, ending, saving, past, Active, Ended
<1>8. OwnDraft'
  BY DEF DInd, TasksTypeOK, Placed, OwnDraft, WritesOwn, LockedRuns, OneActive, Own, AtWork, Crash, NoSweep, tables, viewing, running, ending, saving, past, Active, Ended
<1>9. Writers'
  BY DEF DInd, TasksTypeOK, Writers, LockedRuns, Placed, Crash, NoSweep, tables, viewing, running, ending, saving, past, Active, Ended
<1>10. StopsOwn'
  BY DEF DInd, TasksTypeOK, Placed, StopsOwn, ActiveOn, Crash, NoSweep, tables, viewing, running, ending, saving, past, Active, Ended
<1>11. IdleIsEditable'
  <2>1. UNCHANGED label /\ stranded \subseteq stranded' /\ IdleIsEditable
    BY DEF DInd, Crash, NoSweep, tables, past
  <2>2. \A u \in Tasks : status[u] \in Active => status'[u] \in Active /\ on'[u] = on[u]
    BY DEF DInd, TasksTypeOK, Crash, NoSweep, tables, Active
  <2>. QED
    BY <2>1, <2>2, StaysEditable
<1>12. Views'
  BY DEF DInd, TasksTypeOK, Views, LockedRuns, StopsOwn, Crash, NoSweep, tables, viewing, running, ending, saving, past, Active, Ended
<1>13. HasRow'
  BY DEF DInd, TasksTypeOK, HasRow, Loops, Crash, RowTaken, Finishing, tables, viewing, running, ending, saving, past
<1>. QED
  BY <1>1, <1>2, <1>3, <1>4, <1>5, <1>6, <1>7, <1>8, <1>9, <1>10, <1>11, <1>12, <1>13 DEF DInd

LEMMA RestartKeeps ==
    ASSUME DInd, NEW w \in Workers, Restart(w)
    PROVE  DInd'
<1>1. TasksTypeOK'
  BY DEF DInd, TasksTypeOK, Placed, ActiveOn, Restart, tables, viewing, running, ending, saving, past, Active, Ended
<1>2. Placed'
  BY DEF DInd, TasksTypeOK, Placed, StopsOwn, Restart, tables, viewing, running, ending, saving, past, Active, Ended
<1>3. OneActive'
  BY DEF DInd, TasksTypeOK, OneActive, Placed, Restart, tables, viewing, running, ending, saving, past, Active, Ended
<1>4. LockedRuns'
  BY DEF DInd, TasksTypeOK, LockedRuns, Restart, tables, viewing, running, ending, saving, past, Active, Ended
<1>5. Unclaimed'
  BY DEF DInd, TasksTypeOK, Unclaimed, LockedRuns, Loops, Restart, tables, viewing, running, ending, saving, past, Active, Ended
<1>6. Loops'
  BY DEF DInd, TasksTypeOK, Loops, Restart, tables, viewing, running, ending, saving, past, Active, Ended
<1>7. WritesOwn'
  BY DEF DInd, TasksTypeOK, Placed, WritesOwn, LockedRuns, Unclaimed, OneActive, AtWork, Own, Restart, tables, viewing, running, ending, saving, past, Active, Ended
<1>8. OwnDraft'
  BY DEF DInd, TasksTypeOK, Placed, OwnDraft, WritesOwn, LockedRuns, OneActive, Own, AtWork, Restart, tables, viewing, running, ending, saving, past, Active, Ended
<1>9. Writers'
  BY DEF DInd, TasksTypeOK, Writers, LockedRuns, Placed, Restart, tables, viewing, running, ending, saving, past, Active, Ended
<1>10. StopsOwn'
  BY DEF DInd, TasksTypeOK, Placed, StopsOwn, ActiveOn, Restart, tables, viewing, running, ending, saving, past, Active, Ended
<1>11. IdleIsEditable'
  <2>1. UNCHANGED label /\ stranded \subseteq stranded' /\ IdleIsEditable
    BY DEF DInd, Restart, tables, past
  <2>2. \A u \in Tasks : status[u] \in Active => status'[u] \in Active /\ on'[u] = on[u]
    BY DEF DInd, TasksTypeOK, Restart, tables, Active
  <2>. QED
    BY <2>1, <2>2, StaysEditable
<1>12. Views'
  BY DEF DInd, TasksTypeOK, Views, LockedRuns, StopsOwn, Restart, tables, viewing, running, ending, saving, past, Active, Ended
<1>13. HasRow'
  BY DEF DInd, TasksTypeOK, HasRow, Loops, Restart, RowTaken, Finishing, tables, viewing, running, ending, saving, past
<1>. QED
  BY <1>1, <1>2, <1>3, <1>4, <1>5, <1>6, <1>7, <1>8, <1>9, <1>10, <1>11, <1>12, <1>13 DEF DInd

LEMMA ClaimWaitsKeeps ==
    ASSUME DInd, NEW w \in Workers, ClaimWaits(w)
    PROVE  DInd'
<1>1. TasksTypeOK'
  BY DEF DInd, TasksTypeOK, Placed, ActiveOn, ClaimWaits, Overdue, InProgress, Polls, tables, viewing, running, ending, saving, past, Active, Ended
<1>2. Placed'
  BY DEF DInd, TasksTypeOK, Placed, StopsOwn, ClaimWaits, Overdue, InProgress, Polls, tables, viewing, running, ending, saving, past, Active, Ended
<1>3. OneActive'
  BY DEF DInd, TasksTypeOK, OneActive, Placed, ClaimWaits, Overdue, InProgress, Polls, tables, viewing, running, ending, saving, past, Active, Ended
<1>4. LockedRuns'
  BY DEF DInd, TasksTypeOK, LockedRuns, ClaimWaits, Overdue, InProgress, Polls, tables, viewing, running, ending, saving, past, Active, Ended
<1>5. Unclaimed'
  BY DEF DInd, TasksTypeOK, Unclaimed, LockedRuns, Loops, ClaimWaits, Overdue, InProgress, Polls, tables, viewing, running, ending, saving, past, Active, Ended
<1>6. Loops'
  BY DEF DInd, TasksTypeOK, Loops, ClaimWaits, Overdue, InProgress, Polls, tables, viewing, running, ending, saving, past, Active, Ended
<1>7. WritesOwn'
  BY DEF DInd, TasksTypeOK, Placed, WritesOwn, LockedRuns, Unclaimed, OneActive, AtWork, Own, ClaimWaits, Overdue, InProgress, Polls, tables, viewing, running, ending, saving, past, Active, Ended
<1>8. OwnDraft'
  BY DEF DInd, TasksTypeOK, Placed, OwnDraft, WritesOwn, LockedRuns, OneActive, Own, AtWork, ClaimWaits, Overdue, InProgress, Polls, tables, viewing, running, ending, saving, past, Active, Ended
<1>9. Writers'
  BY DEF DInd, TasksTypeOK, Writers, LockedRuns, Placed, ClaimWaits, Overdue, InProgress, Polls, tables, viewing, running, ending, saving, past, Active, Ended
<1>10. StopsOwn'
  BY DEF DInd, TasksTypeOK, Placed, StopsOwn, ActiveOn, ClaimWaits, Overdue, InProgress, Polls, tables, viewing, running, ending, saving, past, Active, Ended
<1>11. IdleIsEditable'
  <2>1. UNCHANGED label /\ stranded \subseteq stranded' /\ IdleIsEditable
    BY DEF DInd, ClaimWaits, Overdue, InProgress, Polls, tables, past
  <2>2. \A u \in Tasks : status[u] \in Active => status'[u] \in Active /\ on'[u] = on[u]
    BY DEF DInd, TasksTypeOK, ClaimWaits, Overdue, InProgress, Polls, tables, Active
  <2>. QED
    BY <2>1, <2>2, StaysEditable
<1>12. Views'
  BY DEF DInd, TasksTypeOK, Views, LockedRuns, StopsOwn, ClaimWaits, Overdue, InProgress, Polls, tables, viewing, running, ending, saving, past, Active, Ended
<1>13. HasRow'
  BY DEF DInd, TasksTypeOK, HasRow, Loops, ClaimWaits, RowTaken, Finishing, tables, viewing, running, ending, saving, past
<1>. QED
  BY <1>1, <1>2, <1>3, <1>4, <1>5, <1>6, <1>7, <1>8, <1>9, <1>10, <1>11, <1>12, <1>13 DEF DInd

LEMMA ClaimsKeeps ==
    ASSUME DInd, NEW w \in Workers, NEW S \in SUBSET Overdue, NEW D \in SUBSET Drafts,
           Claims(w, S, D), serving[w] = NoTask, ~sweep'[w].open,
           \A v \in Workers : v # w => sweep'[v] = sweep[v],
           sweep' \in [Workers -> [open : BOOLEAN, tasks : SUBSET Tasks, drafts : SUBSET Drafts]]
    PROVE  DInd'
<1>0. /\ UNCHANGED <<on, base, log, events, stop, viewing, loop, started, ending, saving, crashes>>
      /\ label' = [d \in Drafts |-> IF d \in {on[t] : t \in S} \cap D THEN "draft" ELSE label[d]]
      /\ stranded' = stranded \cup
           {d \in Drafts \ D : label[d] = "in_progress" /\ \E t \in S : on[t] = d}
  BY DEF Claims
<1>a. /\ status' \in [Tasks -> Active \cup Ended \cup {"new"}]
      /\ \A t \in Tasks :
            \/ status'[t] = status[t]
            \/ status[t] = "running" /\ status'[t] = "failed" /\ t \in S
            \/ status[t] = "queued" /\ status'[t] = "running"
      /\ \A t \in S : t \in Tasks /\ status'[t] = "failed" /\ ~RowTaken(t)
      /\ serving' \in [Workers -> Tasks \cup {NoTask}]
      /\ \A v \in Workers :
            \/ serving'[v] = serving[v]
            \/ v = w /\ serving'[v] \in Tasks /\ status[serving'[v]] = "queued"
               /\ status'[serving'[v]] = "running"
  BY ClaimedTasks
<1>1. TasksTypeOK'
  <2>1. /\ lease' \in [Tasks -> {"none", "live", "past"}]
        /\ by' \in [Tasks -> Workers \cup {0}]
    BY DEF DInd, TasksTypeOK, Claims
  <2>2. label' \in [Drafts -> {"draft", "in_progress"}] /\ stranded' \in SUBSET Drafts
    BY <1>0 DEF DInd, TasksTypeOK
  <2>. QED
    BY <1>0, <1>a, <2>1, <2>2 DEF DInd, TasksTypeOK, viewing, ending, saving
<1>2. Placed'
  BY <1>0, <1>a DEF DInd, Placed
<1>3. OneActive'
  BY <1>0, <1>a DEF DInd, OneActive, Active
<1>4. LockedRuns'
  BY <1>0, <1>a DEF DInd, LockedRuns, RowTaken, saving
<1>5. Unclaimed'
  BY <1>0, <1>a DEF DInd, Unclaimed, saving
<1>6. WritesOwn'
  <2>1. ASSUME NEW t \in Tasks, AtWork(t)'
        PROVE  AtWork(t)
    <3>1. started' = started /\ txn' = txn /\ ~started[w]
      BY <1>0 DEF DInd, Loops, saving
    <3>2. CASE status[t] = "running"
      BY <2>1, <3>1, <3>2, <1>a DEF AtWork
    <3>3. CASE status[t] = "queued"
      BY <2>1, <3>1, <3>3, <1>a DEF AtWork, DInd, Unclaimed
    <3>. QED
      BY <2>1, <3>2, <3>3, <1>a DEF AtWork
  <2>. QED
    BY <2>1, <1>0 DEF DInd, WritesOwn, Own
<1>7. OwnDraft'
  BY <1>0 DEF DInd, OwnDraft
<1>8. Writers'
  <2>1. \A d \in Drafts : \A i \in DOMAIN log[d] : log[d][i] # Seller => log[d][i] \in Tasks
    BY DEF DInd, TasksTypeOK
  <2>. QED
    BY <2>1, <1>0, <1>a DEF DInd, Writers
<1>9. StopsOwn'
  <2>1. SUFFICES ASSUME NEW d \in Drafts, NEW t \in stop[d]
                 PROVE  on[t] = d /\ status'[t] # "new"
    BY <1>0 DEF StopsOwn
  <2>2. t \in Tasks /\ on[t] = d /\ status[t] # "new"
    BY DEF DInd, TasksTypeOK, StopsOwn
  <2>. QED
    BY <2>2, <1>a
<1>10. IdleIsEditable'
  <2>1. SUFFICES ASSUME NEW d \in Drafts, ActiveOn(d)' = {}, label'[d] = "in_progress"
                 PROVE  d \in stranded'
    BY DEF IdleIsEditable
  <2>2. label[d] = "in_progress" /\ d \notin {on[t] : t \in S} \cap D
    BY <2>1, <1>0
  <2>3. CASE ActiveOn(d) = {}
    BY <2>2, <2>3, <1>0 DEF DInd, IdleIsEditable
  <2>4. CASE ActiveOn(d) # {}
    <3>1. PICK t \in Tasks : on[t] = d /\ status[t] \in Active
      BY <2>4 DEF ActiveOn
    <3>2. t \in S
      BY <3>1, <2>1, <1>0, <1>a DEF ActiveOn, Active
    <3>. QED
      BY <3>1, <3>2, <2>2, <1>0
  <2>. QED
    BY <2>3, <2>4
<1>11. Views'
  BY <1>0, <1>a DEF DInd, Views, viewing, Ended, TasksTypeOK
<1>12. Loops'
  BY <1>0, <1>a, TaskNumbers DEF DInd, Loops, ending
<1>13. HasRow'
  <2>1. SUFFICES ASSUME NEW v \in Workers, fin[v] = "has"
                 PROVE  /\ serving'[v] = serving[v] /\ serving[v] \in Tasks
                        /\ status'[serving[v]] = "running"
    BY <1>0 DEF DInd, HasRow, ending, saving
  <2>2. serving'[v] = serving[v] /\ serving[v] \in Tasks /\ status[serving[v]] = "running"
    BY <2>1, <1>a DEF DInd, HasRow, Loops
  <2>3. serving[v] \notin S
    BY <2>1, <1>a DEF RowTaken, Finishing
  <2>. QED
    BY <2>2, <2>3, <1>a
<1>. QED
  BY <1>1, <1>2, <1>3, <1>4, <1>5, <1>6, <1>7, <1>8, <1>9, <1>10, <1>11, <1>12, <1>13 DEF DInd

LEMMA ClaimKeeps ==
    ASSUME DInd, NEW w \in Workers, Claim(w)
    PROVE  DInd'
<1>1. Claims(w, Overdue, InProgress) /\ InProgress \in SUBSET Drafts
  BY DEF Claim, InProgress
<1>2. sweep' \in [Workers -> [open : BOOLEAN, tasks : SUBSET Tasks, drafts : SUBSET Drafts]]
  BY DEF DInd, TasksTypeOK, Claim
<1>3. serving[w] = NoTask /\ ~sweep'[w].open /\ \A v \in Workers : v # w => sweep'[v] = sweep[v]
  BY DEF Claim, Polls
<1>. QED
  BY <1>1, <1>2, <1>3, ClaimsKeeps

LEMMA ClaimResumesKeeps ==
    ASSUME DInd, NEW w \in Workers, ClaimResumes(w)
    PROVE  DInd'
<1>1. Claims(w, sweep[w].tasks \cap Overdue, sweep[w].drafts) /\ sweep[w].drafts \in SUBSET Drafts
  BY DEF ClaimResumes, DInd, TasksTypeOK
<1>2. sweep' \in [Workers -> [open : BOOLEAN, tasks : SUBSET Tasks, drafts : SUBSET Drafts]]
  BY DEF DInd, TasksTypeOK, ClaimResumes, NoSweep
<1>3. serving[w] = NoTask /\ ~sweep'[w].open /\ \A v \in Workers : v # w => sweep'[v] = sweep[v]
  BY DEF DInd, TasksTypeOK, Loops, ClaimResumes, NoSweep
<1>. QED
  BY <1>1, <1>2, <1>3, ClaimsKeeps

----------------------------------------------------------------------------
(* The invariant.                                                          *)

LEMMA DInitially == DInit => DInd
<1>. SUFFICES ASSUME DInit PROVE DInd
  OBVIOUS
<1>1. TasksTypeOK
  <2>1. log \in [Drafts -> Seq(Tasks \cup {Seller})]
    BY DEF DInit
  <2>2. sweep \in [Workers -> [open : BOOLEAN, tasks : SUBSET Tasks, drafts : SUBSET Drafts]]
    BY DEF DInit, NoSweep
  <2>3. /\ status \in [Tasks -> Active \cup Ended \cup {"new"}]
        /\ on \in [Tasks -> Drafts \cup {NoDraft}]
        /\ lease \in [Tasks -> {"none", "live", "past"}]
        /\ base \in [Tasks -> Nat] /\ events \in [Tasks -> Nat]
        /\ label \in [Drafts -> {"draft", "in_progress"}]
        /\ stop \in [Drafts -> SUBSET Tasks]
    BY DEF DInit
  <2>4. /\ loop \in [Workers -> {"up", "crashed", "ended"}]
        /\ serving \in [Workers -> Tasks \cup {NoTask}]
        /\ by \in [Tasks -> Workers \cup {0}]
        /\ started \in [Workers -> BOOLEAN]
        /\ fin \in [Workers -> {"no", "fresh", "late", "has"}]
        /\ out \in [Workers -> {"completed", "failed"}]
        /\ txn \in [Tasks -> {"none", "write", "events"}]
        /\ fresh \in [Tasks -> BOOLEAN] /\ locked \in [Tasks -> BOOLEAN]
    BY DEF DInit
  <2>. QED
    BY <2>1, <2>2, <2>3, <2>4 DEF DInit, TasksTypeOK
<1>2. Placed /\ OneActive /\ LockedRuns /\ Unclaimed /\ Loops /\ HasRow /\ WritesOwn
  BY TaskNumbers DEF DInit, Placed, OneActive, LockedRuns, Unclaimed, Loops, HasRow, WritesOwn, AtWork, Active, NoSweep
<1>3. OwnDraft /\ Writers /\ StopsOwn
  BY DEF DInit, OwnDraft, Writers, StopsOwn
<1>4. IdleIsEditable /\ Views
  BY DEF DInit, IdleIsEditable, Views
<1>. QED
  BY <1>1, <1>2, <1>3, <1>4 DEF DInd

LEMMA DInductive == DInd /\ [DNext]_dvars => DInd'
<1>. SUFFICES ASSUME DInd, [DNext]_dvars PROVE DInd'
  OBVIOUS
<1>1. CASE UNCHANGED dvars
  BY <1>1 DEF dvars, DInd, TasksTypeOK, Placed, OneActive, LockedRuns, Unclaimed, Loops, WritesOwn,
     HasRow, AtWork, Own, OwnDraft, Writers, StopsOwn, IdleIsEditable, ActiveOn, Views
<1>2. ASSUME NEW d \in Drafts, NEW t \in Tasks, Submit(d, t)
      PROVE  DInd'
  BY <1>2, SubmitKeeps
<1>3. ASSUME NEW d \in Drafts, Save(d)
      PROVE  DInd'
  BY <1>3, SaveKeeps
<1>4. ASSUME NEW d \in Drafts, StopReads(d)
      PROVE  DInd'
  BY <1>4, StopReadsKeeps
<1>5. ASSUME NEW d \in Drafts, StopCancels(d)
      PROVE  DInd'
  BY <1>5, StopCancelsKeeps
<1>6. ASSUME NEW t \in Tasks, Watch(t)
      PROVE  DInd'
  BY <1>6, WatchKeeps
<1>7. CASE PollStatus
  BY <1>7, PollStatusKeeps
<1>8. CASE PollRows
  BY <1>8, PollRowsKeeps
<1>9. ASSUME NEW w \in Workers, NEW t \in Tasks, Start(w, t)
      PROVE  DInd'
  BY <1>9, StartKeeps
<1>10. ASSUME NEW w \in Workers, NEW t \in Tasks, NEW kind \in {"write", "events"}, Begin(w, t, kind)
      PROVE  DInd'
  BY <1>10, BeginKeeps
<1>11. ASSUME NEW t \in Tasks, TakeRow(t)
      PROVE  DInd'
  BY <1>11, TakeRowKeeps
<1>12. ASSUME NEW t \in Tasks, Refused(t)
      PROVE  DInd'
  BY <1>12, RefusedKeeps
<1>13. ASSUME NEW t \in Tasks, NEW to \in {"draft", "in_progress"}, CommitWrite(t, to)
      PROVE  DInd'
  BY <1>13, CommitWriteKeeps
<1>14. ASSUME NEW t \in Tasks, CommitEvents(t)
      PROVE  DInd'
  BY <1>14, CommitEventsKeeps
<1>15. ASSUME NEW t \in Tasks, DeadlockWrite(t)
      PROVE  DInd'
  BY <1>15, DeadlockWriteKeeps
<1>16. ASSUME NEW d \in Drafts, DeadlockStop(d)
      PROVE  DInd'
  BY <1>16, DeadlockStopKeeps
<1>17. ASSUME NEW w \in Workers, NEW t \in Tasks, NEW outcome \in {"completed", "failed"}, FinishBegins(w, t, outcome)
      PROVE  DInd'
  BY <1>17, FinishBeginsKeeps
<1>18. ASSUME NEW w \in Workers, NEW t \in Tasks, FinishTakes(w, t)
      PROVE  DInd'
  BY <1>18, FinishTakesKeeps
<1>25. ASSUME NEW w \in Workers, NEW t \in Tasks, FinishRefused(w, t)
      PROVE  DInd'
  BY <1>25, FinishRefusedKeeps
<1>26. ASSUME NEW w \in Workers, NEW t \in Tasks, FinishCommits(w, t)
      PROVE  DInd'
  BY <1>26, FinishCommitsKeeps
<1>27. ASSUME NEW w \in Workers, NEW t \in Tasks, FinishAborts(w, t)
      PROVE  DInd'
  BY <1>27, FinishAbortsKeeps
<1>19. ASSUME NEW t \in Tasks, LeaseRunsOut(t)
      PROVE  DInd'
  BY <1>19, LeaseRunsOutKeeps
<1>20. ASSUME NEW w \in Workers, Crash(w)
      PROVE  DInd'
  BY <1>20, CrashKeeps
<1>21. ASSUME NEW w \in Workers, Restart(w)
      PROVE  DInd'
  BY <1>21, RestartKeeps
<1>22. ASSUME NEW w \in Workers, ClaimWaits(w)
      PROVE  DInd'
  BY <1>22, ClaimWaitsKeeps
<1>23. ASSUME NEW w \in Workers, Claim(w)
      PROVE  DInd'
  BY <1>23, ClaimKeeps
<1>24. ASSUME NEW w \in Workers, ClaimResumes(w)
      PROVE  DInd'
  BY <1>24, ClaimResumesKeeps
<1>. QED
  BY <1>1, <1>2, <1>3, <1>4, <1>5, <1>6, <1>7, <1>8, <1>9, <1>10, <1>11, <1>12, <1>13, <1>14, <1>15, <1>16, <1>17, <1>18, <1>19, <1>20, <1>21, <1>22, <1>23, <1>24, <1>25, <1>26, <1>27
     DEF DNext, Commits, Works, Ends, Settles, Finishes

\* The queue's state is one its tables and its workers allow.
THEOREM DInvariant == DSpec => []DInd
<1>1. DInit => DInd
  BY DInitially
<1>2. DInd /\ [DNext]_dvars => DInd'
  BY DInductive
<1>. QED
  BY <1>1, <1>2, PTL DEF DSpec

\* Every variable keeps its type.
THEOREM TasksTyped == DSpec => []TasksTypeOK
<1>1. DInd => TasksTypeOK
  BY DEF DInd
<1>. QED
  BY <1>1, DInvariant, PTL

\* From the edition it was given to its last write, a task alone writes the
\* draft: neither a save nor another task comes in between.
THEOREM TasksWriteAlone == DSpec => []OwnDraft
<1>1. DInd => OwnDraft
  BY DEF DInd
<1>. QED
  BY <1>1, DInvariant, PTL

\* A draft that no task has is one the seller can go on with, unless a claim
\* that waited for its last write left it behind.
THEOREM IdleDraftsEditable == DSpec => []IdleIsEditable
<1>1. DInd => IdleIsEditable
  BY DEF DInd
<1>. QED
  BY <1>1, DInvariant, PTL

\* A viewer that was told a task is over has all of the task's events.
THEOREM ViewerHasAll == DSpec => []DoneHasAll
<1>1. DInd => DoneHasAll
  BY DEF DInd, Views, DoneHasAll, TasksTypeOK
<1>. QED
  BY <1>1, DInvariant, PTL

----------------------------------------------------------------------------
(* The queue implements turns.                                             *)

\* Whose turn it is, given that no two active tasks are on one draft.
LEMMA Turn ==
    ASSUME OneActive, NEW d \in Drafts
    PROVE  /\ ActiveOn(d) = {} => TurnOf(d) = Seller
           /\ \A t \in ActiveOn(d) : TurnOf(d) = t /\ t # Seller
<1>1. ASSUME NEW t \in ActiveOn(d)
      PROVE  TurnOf(d) = t /\ t # Seller
  <2>1. \A u \in ActiveOn(d) : u = t
    BY DEF OneActive, ActiveOn
  <2>. QED
    BY <2>1, TaskNumbers DEF TurnOf, ActiveOn
<1>. QED
  BY <1>1 DEF TurnOf

\* Tasks that only end give the turn back.
LEMMA EndsGiveBack ==
    ASSUME DInd, DInd', UNCHANGED <<on, log>>,
           \A t \in Tasks : status'[t] \in Active => status[t] \in Active,
           \A t \in Tasks : status'[t] = "new" <=> status[t] = "new"
    PROVE  [Turns!Next]_(Turns!tvars)
<1> DEFINE back == {d \in Drafts : ActiveOn(d)' = {} /\ ActiveOn(d) # {}}
<1>1. \A d \in Drafts : ActiveOn(d)' \subseteq ActiveOn(d)
  BY DEF ActiveOn
<1>2. OneActive /\ OneActive'
  BY DEF DInd
<1>3. \A d \in Drafts : TurnOf(d)' = IF d \in back THEN Seller ELSE TurnOf(d)
  <2>1. SUFFICES ASSUME NEW d \in Drafts
                 PROVE  TurnOf(d)' = IF d \in back THEN Seller ELSE TurnOf(d)
    OBVIOUS
  <2>2. CASE ActiveOn(d)' = {}
    <3>1. TurnOf(d)' = Seller
      BY <2>2 DEF TurnOf, ActiveOn
    <3>2. d \notin back => TurnOf(d) = Seller
      BY <2>2 DEF TurnOf
    <3>. QED
      BY <3>1, <3>2
  <2>3. CASE ActiveOn(d)' # {}
    <3>1. PICK t : t \in ActiveOn(d)'
      BY <2>3
    <3>2. t \in ActiveOn(d)
      BY <3>1, <1>1
    <3>3. TurnOf(d) = t
      BY <3>2, <1>2, Turn
    <3>4. \A u \in ActiveOn(d)' : u = t
      BY <3>1, <1>2 DEF OneActive, ActiveOn
    <3>5. TurnOf(d)' = t
      BY <3>1, <3>4 DEF TurnOf, ActiveOn
    <3>. QED
      BY <2>3, <3>3, <3>5
  <2>. QED
    BY <2>2, <2>3
<1>4. {t \in Tasks : status'[t] # "new"} = {t \in Tasks : status[t] # "new"}
  OBVIOUS
<1>5. CASE back = {}
  <2>1. [d \in Drafts |-> TurnOf(d)]' = [d \in Drafts |-> TurnOf(d)]
    BY <1>3, <1>5
  <2>. QED
    BY <2>1, <1>4 DEF Turns!tvars
<1>6. CASE back # {}
  <2>1. Turns!GiveBack(back)
    BY <1>3, <1>4, <1>6 DEF Turns!GiveBack
  <2>. QED
    BY <2>1 DEF Turns!Next
<1>. QED
  BY <1>5, <1>6

\* Steps that leave the tasks and the editions alone.
LEMMA TurnsStutter ==
    ASSUME UNCHANGED <<status, on, log>>
    PROVE  [Turns!Next]_(Turns!tvars)
BY DEF Turns!tvars, TurnOf, ActiveOn

LEMMA SubmitTakes ==
    ASSUME DInd, DInd', NEW d \in Drafts, NEW t \in Tasks, Submit(d, t)
    PROVE  Turns!Take(d, t)
<1>1. /\ status[t] = "new" /\ ActiveOn(d) = {} /\ UNCHANGED log
      /\ status'[t] = "queued" /\ on'[t] = d
      /\ \A u \in Tasks : u # t => status'[u] = status[u] /\ on'[u] = on[u]
  BY DEF DInd, TasksTypeOK, Submit, Idle
<1>2. ActiveOn(d)' = {t} /\ \A e \in Drafts : e # d => ActiveOn(e)' = ActiveOn(e)
  BY <1>1 DEF ActiveOn, Active
<1>3. TurnOf(d) = Seller /\ TurnOf(d)' = t
  BY <1>1, <1>2 DEF TurnOf, ActiveOn
<1>4. ASSUME NEW e \in Drafts, e # d
      PROVE  TurnOf(e)' = TurnOf(e)
  <2>1. CASE ActiveOn(e) = {}
    BY <1>2, <1>4, <2>1 DEF TurnOf
  <2>2. CASE ActiveOn(e) # {}
    <3>1. PICK u : u \in ActiveOn(e) /\ u \in ActiveOn(e)'
      BY <2>2, <1>2, <1>4
    <3>2. \A v \in ActiveOn(e)' : v = u
      BY <3>1 DEF DInd, OneActive, ActiveOn
    <3>3. TurnOf(e)' = u
      BY <3>1, <3>2 DEF TurnOf, ActiveOn
    <3>4. TurnOf(e) = u
      BY <3>1, Turn DEF DInd
    <3>. QED
      BY <3>3, <3>4
  <2>. QED
    BY <2>1, <2>2
<1>5. {u \in Tasks : status'[u] # "new"} = {u \in Tasks : status[u] # "new"} \cup {t}
  BY <1>1
<1>6. [e \in Drafts |-> TurnOf(e)]' = [[e \in Drafts |-> TurnOf(e)] EXCEPT ![d] = t]
  BY <1>3, <1>4
<1>. QED
  BY <1>1, <1>3, <1>5, <1>6 DEF Turns!Take

\* Whoever's turn it is writes.
LEMMA TurnWrites ==
    ASSUME NEW d \in Drafts, UNCHANGED <<status, on>>,
           log' = [log EXCEPT ![d] = Append(@, TurnOf(d))]
    PROVE  Turns!Write(d)
<1>1. \A e \in Drafts : TurnOf(e)' = TurnOf(e)
  BY DEF TurnOf, ActiveOn
<1>. QED
  BY <1>1 DEF Turns!Write

LEMMA StepsAreTurns ==
    ASSUME DInd, DInd', [DNext]_dvars
    PROVE  [Turns!Next]_(Turns!tvars)
<1>0. OneActive
  BY DEF DInd
<1>1. ASSUME NEW d \in Drafts, NEW t \in Tasks, Submit(d, t)
      PROVE  [Turns!Next]_(Turns!tvars)
  BY <1>1, SubmitTakes DEF Turns!Next
<1>2. ASSUME NEW d \in Drafts, Save(d)
      PROVE  [Turns!Next]_(Turns!tvars)
  <2>1. TurnOf(d) = Seller /\ UNCHANGED <<status, on>>
    BY <1>2 DEF Save, Idle, TurnOf
  <2>. QED
    BY <2>1, <1>2, TurnWrites DEF Save, Turns!Next
<1>3. ASSUME NEW t \in Tasks, NEW to \in {"draft", "in_progress"}, CommitWrite(t, to)
      PROVE  [Turns!Next]_(Turns!tvars)
  <2>1. t \in ActiveOn(on[t]) /\ on[t] \in Drafts
    BY <1>3 DEF DInd, LockedRuns, Placed, CommitWrite, ActiveOn, Active
  <2>2. TurnOf(on[t]) = t
    BY <2>1, <1>0, Turn
  <2>. QED
    BY <2>1, <2>2, <1>3, TurnWrites DEF CommitWrite, Turns!Next
<1>4. ASSUME NEW d \in Drafts, StopCancels(d)
      PROVE  [Turns!Next]_(Turns!tvars)
  <2>1. \A t \in Tasks : status'[t] = status[t] \/ (status'[t] = "cancelled" /\ status[t] # "new")
    BY <1>4 DEF StopCancels, DInd, StopsOwn
  <2>. QED
    BY <2>1, <1>4, EndsGiveBack DEF StopCancels, Active
<1>5. ASSUME NEW w \in Workers, NEW t \in Tasks, FinishCommits(w, t)
      PROVE  [Turns!Next]_(Turns!tvars)
  <2>1. \A u \in Tasks : status'[u] = status[u] \/ (status[u] = "running" /\ status'[u] \in Ended)
    BY <1>5, FinishedTask
  <2>. QED
    BY <2>1, <1>5, EndsGiveBack DEF FinishCommits, Active, Ended
<1>6. ASSUME NEW w \in Workers, NEW S \in SUBSET Overdue, NEW D \in SUBSET Drafts, Claims(w, S, D)
      PROVE  [Turns!Next]_(Turns!tvars)
  <2>1. \A t \in Tasks :
            \/ status'[t] = status[t]
            \/ status[t] = "running" /\ status'[t] = "failed"
            \/ status[t] = "queued" /\ status'[t] = "running"
    BY <1>6, ClaimedTasks
  <2>2. UNCHANGED <<on, log>>
    BY <1>6 DEF Claims
  <2>. QED
    BY <2>1, <2>2, EndsGiveBack DEF Active
<1>7. ASSUME NEW w \in Workers, Claim(w) \/ ClaimResumes(w)
      PROVE  [Turns!Next]_(Turns!tvars)
  <2>1. InProgress \in SUBSET Drafts /\ sweep[w].drafts \in SUBSET Drafts
    BY DEF InProgress, DInd, TasksTypeOK
  <2>. QED
    BY <2>1, <1>6, <1>7 DEF Claim, ClaimResumes
<1>8. ASSUME NEW d \in Drafts, StopReads(d) \/ DeadlockStop(d)
      PROVE  [Turns!Next]_(Turns!tvars)
  BY <1>8, TurnsStutter DEF StopReads, DeadlockStop, tables
<1>9. ASSUME PollStatus \/ PollRows
      PROVE  [Turns!Next]_(Turns!tvars)
  BY <1>9, TurnsStutter DEF PollStatus, PollRows, tables
<1>10. ASSUME NEW t \in Tasks,
              \/ Watch(t) \/ TakeRow(t) \/ Refused(t) \/ CommitEvents(t)
              \/ DeadlockWrite(t) \/ LeaseRunsOut(t)
       PROVE  [Turns!Next]_(Turns!tvars)
  BY <1>10, TurnsStutter
     DEF Watch, TakeRow, Refused, CommitEvents, DeadlockWrite, LeaseRunsOut, tables
<1>11. ASSUME NEW w \in Workers, NEW t \in Tasks, Works(w, t)
       PROVE  [Turns!Next]_(Turns!tvars)
  BY <1>11, TurnsStutter DEF Works, Start, Begin, tables
<1>12. ASSUME NEW w \in Workers, ClaimWaits(w) \/ Crash(w) \/ Restart(w)
       PROVE  [Turns!Next]_(Turns!tvars)
  BY <1>12, TurnsStutter DEF ClaimWaits, Crash, Restart, tables
<1>14. ASSUME NEW w \in Workers, NEW t \in Tasks, Ends(w, t) \/ Settles(w, t) \/ FinishAborts(w, t)
       PROVE  [Turns!Next]_(Turns!tvars)
  BY <1>14, TurnsStutter
     DEF Ends, Settles, FinishBegins, FinishTakes, FinishRefused, FinishAborts, tables
<1>13. CASE UNCHANGED dvars
  BY <1>13, TurnsStutter DEF dvars
<1>. QED
  BY <1>1, <1>2, <1>3, <1>4, <1>5, <1>7, <1>8, <1>9, <1>10, <1>11, <1>12, <1>13, <1>14
     DEF DNext, Commits, Finishes

\* The queue implements turns: only whoever has a draft's turn writes it, and a
\* task that gave the turn back, or lost it, never has it again.
THEOREM TasksTakeTurns == DSpec => TurnsSpec
<1>1. DInit => Turns!Init
  <2>1. ASSUME DInit
        PROVE  /\ \A d \in Drafts : TurnOf(d) = Seller
               /\ {t \in Tasks : status[t] # "new"} = {}
               /\ log = [d \in Drafts |-> <<>>]
    BY <2>1 DEF DInit, TurnOf, ActiveOn, Active
  <2>. QED
    BY <2>1 DEF Turns!Init
<1>2. DInd /\ DInd' /\ [DNext]_dvars => [Turns!Next]_(Turns!tvars)
  BY StepsAreTurns
<1>. QED
  BY <1>1, <1>2, DInvariant, PTL DEF DSpec, TurnsSpec, Turns!Spec

=============================================================================
