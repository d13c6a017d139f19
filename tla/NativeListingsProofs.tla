-------------------------- MODULE NativeListingsProofs --------------------------
(***************************************************************************)
(* An item is listed once: for every number of marketplaces, jobs, crashes *)
(* and stops of Chrome's service worker.                                   *)
(***************************************************************************)
EXTENDS NativeListings, TLAPS

----------------------------------------------------------------------------
(* The inductive invariant: of each marketplace by itself.                 *)

Rows == {<<"save_draft">>, <<"save_draft", "publish">>, <<"publish">>, <<"list">>, <<"update">>}

\* The record's operation is at work, at Chrome or an API.
AtWork(m) == m \in mine /\ running[m] # NoOp

\* What a marketplace's operation, journal and job know of each other.
Ordered(m) ==
    /\ asked[m].action = rec[m].action
    /\ AtWork(m) =>
        /\ note[m] = "started" /\ running[m] = asked[m]
        /\ worker[m] # "ready" /\ m \notin sent
    /\ m \in sent =>
        /\ m \in Chrome /\ note[m] = "none" /\ m \notin mine
        /\ worker[m] \in {"asked", "waiting"} /\ rec[m].state = StepState(rec[m].action)
    /\ m \notin Chrome /\ running[m] # NoOp => worker[m] = "asked" /\ m \in mine
    /\ m \in checking => worker[m] = "none" /\ rec[m].action \in Actions
    /\ worker[m] # "none" => job[m] = "active" /\ rec[m].rev \in Revs /\ asked[m] \in Ops
    /\ worker[m] = "waiting" => m \in Chrome
    /\ worker[m] = "reading" => m \notin Chrome
    /\ worker[m] = "ready" => steps[m] \in Rows
    /\ worker[m] \in {"asked", "waiting", "reading"} =>
        /\ rec[m].action \in Actions
        /\ steps[m] = <<>> \/ (rec[m].action = "save_draft" /\ steps[m] = <<"publish">>)
    /\ note[m] = "gone" => asked[m].action = "publish"
    /\ AtWork(m) /\ stage[m] = "gone" => asked[m].action = "publish"

\* Where the record says that the item is listed, or may come to say so, it was.
Truthful(m) ==
    m \notin ended /\ live[m] = 0 =>
        /\ rec[m].state # "published"
        /\ rec[m].action # "update"
        /\ worker[m] = "ready" => steps[m] # <<"update">>
        /\ note[m] = "ok" \/ (AtWork(m) /\ stage[m] = "ok") => rec[m].action \in {"save_draft", "none"}

\* What may yet be posted is the record's operation: nothing is live, and the
\* record is open until it is read or looked at.
Pending(m) ==
    \A op \in late[m] : op.action \in Posting =>
        /\ op = asked[m] /\ live[m] = 0
        /\ rec[m].state \in {"publishing", "unknown"}
        /\ worker[m] # "ready" /\ m \notin sent
        /\ note[m] \in {"started", "unsure"}
        /\ AtWork(m) => stage[m] = "unsure"

\* Where something is live, nothing posts again: nor may a record from which
\* List starts, or a step that comes, be there.
Once(m) ==
    /\ live[m] <= 1
    /\ live[m] > 0 =>
        /\ rec[m].state \notin Resting
        /\ rec[m].action # "save_draft"
        /\ rec[m].action \in Posting =>
            /\ note[m] \in {"started", "ok", "unsure"}
            /\ m \notin sent
            /\ AtWork(m) => stage[m] \in Landed
        /\ worker[m] = "ready" => steps[m] = <<"update">>
    /\ AtWork(m) /\ running[m].action \in Posting /\ stage[m] = "started" =>
        rec[m].state \in {"publishing", "unknown"}
    /\ running[m] # NoOp /\ m \notin mine /\ stage[m] = "started" =>
        running[m].action \notin Posting
    /\ Pending(m)

\* An API posts one way only: what is listed already, or what the one draft
\* holds, which the record names from then on; nothing tells that it is gone.
Posted(m) == IF m \in TwoStep THEN "publish" ELSE "list"
Api(m) ==
    m \notin Chrome =>
        /\ live[m] <= 1
        /\ asked[m].action \in Posting => asked[m].action = Posted(m)
        /\ \A op \in late[m] : op.action \in Posting => op.action = Posted(m)
        /\ IF m \in TwoStep THEN steps[m] # <<"list">>
                            ELSE steps[m] \notin {<<"publish">>, <<"save_draft", "publish">>}
        /\ note[m] # "gone" /\ (AtWork(m) => stage[m] # "gone")
        /\ m \in TwoStep =>
            /\ live[m] > 0 => held[m] = NoRev /\ rec[m].link
            /\ \A op \in late[m] : op.action = "publish" => rec[m].link
            /\ AtWork(m) => /\ rec[m].link <=> asked[m].link
                            /\ asked[m].action = "publish" => rec[m].link
            /\ worker[m] = "ready" /\ steps[m] = <<"publish">> => rec[m].link

Good(m) == Ordered(m) /\ Truthful(m) /\ (m \notin early \cup slow => Once(m)) /\ Api(m)

NInd == NTypeOK /\ \A m \in Markets : Good(m)

\* A step leaves a marketplace alone, for all that the invariant says of it.
Same(m) ==
    /\ rec'[m] = rec[m] /\ asked'[m] = asked[m] /\ job'[m] = job[m]
    /\ worker'[m] = worker[m] /\ steps'[m] = steps[m]
    /\ m \in checking' => m \in checking
    /\ m \in sent' <=> m \in sent
    /\ m \in mine' <=> m \in mine
    /\ running'[m] = running[m] /\ stage'[m] = stage[m] /\ note'[m] = note[m]
    /\ held'[m] = held[m] /\ live'[m] = live[m] /\ late'[m] = late[m]
    /\ m \in early => m \in early'
    /\ m \in slow => m \in slow'
    /\ m \in ended => m \in ended'

\* A marketplace that is left alone stays as good as it was.
LEMMA LeftAlone ==
    ASSUME NEW m \in Markets, Good(m), Same(m)
    PROVE  Good(m)'
<1>1. Ordered(m)' /\ Truthful(m)' /\ (m \notin early' \cup slow' => Once(m)')
  BY DEF Good, Ordered, Truthful, Once, Pending, Same, AtWork
<1>2. Api(m)'
  BY DEF Good, Api, Same, AtWork
<1>. QED
  BY <1>1, <1>2 DEF Good

\* So a step that works on one marketplace has to keep that one good.
LEMMA OnlyHere ==
    ASSUME NInd, NEW m \in Markets, NTypeOK', Good(m)', \A n \in Markets \ {m} : Same(n)
    PROVE  NInd'
<1>1. ASSUME NEW n \in Markets PROVE Good(n)'
  <2>1. CASE n = m
    BY <2>1
  <2>2. CASE n # m
    BY <2>2, LeftAlone DEF NInd
  <2>. QED
    BY <2>1, <2>2
<1>. QED
  BY <1>1 DEF NInd

\* The steps a job may have before it.
LEMMA RowFacts ==
    /\ <<>> \in Seq(Actions)
    /\ \A row \in Rows :
        /\ row \in Seq(Actions) /\ row # <<>>
        /\ Head(row) \in Actions
        /\ Tail(row) \in Seq(Actions)
        /\ Tail(row) = <<>> \/ (Head(row) = "save_draft" /\ Tail(row) = <<"publish">>)
        /\ Head(row) = "update" <=> row = <<"update">>
        /\ Head(row) = "list" <=> row = <<"list">>
        /\ Head(row) = "publish" <=> row = <<"publish">>
        /\ Tail(row) # <<>> => row = <<"save_draft", "publish">>
        /\ Head(row) \in Actions
BY DEF Rows, Actions

\* The state a step puts the record in.
LEMMA StepStates ==
    ASSUME NEW step \in Actions
    PROVE  /\ StepState(step) \in Busy
           /\ step \in Posting <=> StepState(step) = "publishing"
           /\ step = "update" <=> StepState(step) = "updating"
BY DEF StepState, Actions, Busy, Posting

----------------------------------------------------------------------------
(* What an answer does to the record and to the job.                       *)

\* What an answer tells of the marketplace, and when there can be one.
Tells(m, answer) ==
    /\ answer \in Answers
    /\ answer = "gone" => rec[m].action = "publish" /\ m \in Chrome
    /\ m \notin ended /\ live[m] = 0 /\ answer = "ok" => rec[m].action = "save_draft"
    /\ m \in slow => m \in slow'
    /\ m \notin early \cup slow' =>
        /\ live[m] > 0 /\ rec[m].action \in Posting => answer \in Landed
        /\ InHand(m) => answer = "unsure"

\* The record after an answer.
LEMMA OutcomeFacts ==
    ASSUME NTypeOK, NEW m \in Markets, NEW answer \in Answers, rec[m].action \in Actions,
           answer = "gone" => rec[m].action = "publish"
    PROVE  /\ Outcome(m, answer) \in [state : {"unknown", "published"} \cup Resting,
                                      action : Actions,
                                      rev : Revs \cup {NoRev}, prev : Revs \cup {NoRev},
                                      link : BOOLEAN]
           /\ Outcome(m, answer).action = rec[m].action
           /\ Outcome(m, answer).state = "published" <=>
                \/ answer = "ok" /\ rec[m].action # "save_draft"
                \/ answer = "refused" /\ rec[m].action = "update"
           /\ Outcome(m, answer).state = "unknown" <=> answer = "unsure"
           /\ answer # "refused" => Outcome(m, answer).rev = rec[m].rev
           /\ answer # "gone" /\ rec[m].link => Outcome(m, answer).link
           /\ answer = "ok" /\ rec[m].action = "save_draft" => Outcome(m, answer).link
<1>1. rec[m] \in [state : Unsettled \cup Resting \cup {"published"},
                  action : Actions \cup {"none"},
                  rev : Revs \cup {NoRev}, prev : Revs \cup {NoRev}, link : BOOLEAN]
  BY DEF NTypeOK
<1>2. \A link \in BOOLEAN : RestingState(link) \in Resting
  BY DEF RestingState, Resting
<1>3. CASE answer = "ok"
  BY <1>1, <1>3 DEF Outcome, Actions, Resting
<1>4. CASE answer = "refused"
  BY <1>1, <1>2, <1>4 DEF Outcome, Actions, Resting
<1>5. CASE answer = "gone"
  BY <1>1, <1>5 DEF Outcome, Actions, Resting
<1>6. CASE answer = "unsure"
  BY <1>1, <1>6 DEF Outcome, Actions, Resting
<1>. QED
  BY <1>3, <1>4, <1>5, <1>6 DEF Answers

\* A job ends as its record and its cancel say.
LEMMA EndedFacts ==
    ASSUME NEW m \in Markets, NEW state, NEW error \in BOOLEAN
    PROVE  Ended(m, state, error) \in {"completed", "failed", "cancelled"}
BY DEF Ended

\* A job that ends: nothing of other marketplaces changes.
LEMMA FinishFacts ==
    ASSUME NTypeOK, NEW m \in Markets,
           NEW after \in [state : Unsettled \cup Resting \cup {"published"},
                          action : Actions \cup {"none"},
                          rev : Revs \cup {NoRev}, prev : Revs \cup {NoRev}, link : BOOLEAN],
           NEW error \in BOOLEAN, FinishJob(m, after, error)
    PROVE  /\ rec' \in [Markets -> [state : Unsettled \cup Resting \cup {"published"},
                                    action : Actions \cup {"none"},
                                    rev : Revs \cup {NoRev}, prev : Revs \cup {NoRev},
                                    link : BOOLEAN]]
           /\ rec'[m].state = IF after.state \in Busy THEN "unknown" ELSE after.state
           /\ rec'[m].action = after.action /\ rec'[m].link = after.link
           /\ job' \in [Markets -> {"none", "active", "completed", "failed", "cancelled"}]
           /\ worker' = [worker EXCEPT ![m] = "none"] /\ worker'[m] = "none"
           /\ steps' = [steps EXCEPT ![m] = <<>>]
           /\ saves' = saves /\ cancels' \in SUBSET Markets
           /\ \A n \in Markets \ {m} :
                /\ rec'[n] = rec[n] /\ job'[n] = job[n]
                /\ worker'[n] = worker[n] /\ steps'[n] = steps[n]
<1>0. /\ rec \in [Markets -> [state : Unsettled \cup Resting \cup {"published"},
                              action : Actions \cup {"none"},
                              rev : Revs \cup {NoRev}, prev : Revs \cup {NoRev}, link : BOOLEAN]]
      /\ job \in [Markets -> {"none", "active", "completed", "failed", "cancelled"}]
      /\ worker \in [Markets -> {"none", "ready", "asked", "waiting", "reading"}]
      /\ steps \in [Markets -> Seq(Actions)] /\ cancels \in SUBSET Markets
  BY DEF NTypeOK
<1> DEFINE state == IF after.state \in Busy THEN "unknown" ELSE after.state
           told == Ended(m, state, error \/ after.state \in Busy)
<1>1. state \in Unsettled \cup Resting \cup {"published"}
  BY DEF Unsettled
<1>2. told \in {"none", "active", "completed", "failed", "cancelled"}
  BY EndedFacts
<1>3. /\ rec' = [rec EXCEPT ![m] = [after EXCEPT !.state = state]]
      /\ job' = [job EXCEPT ![m] = told]
      /\ worker' = [worker EXCEPT ![m] = "none"] /\ steps' = [steps EXCEPT ![m] = <<>>]
      /\ saves' = saves /\ cancels' = cancels \ {m}
  BY DEF FinishJob
<1> HIDE DEF told
<1>4. /\ [after EXCEPT !.state = state] \in [state : Unsettled \cup Resting \cup {"published"},
                              action : Actions \cup {"none"},
                              rev : Revs \cup {NoRev}, prev : Revs \cup {NoRev}, link : BOOLEAN]
      /\ [after EXCEPT !.state = state].state = state
      /\ [after EXCEPT !.state = state].action = after.action
      /\ [after EXCEPT !.state = state].link = after.link
  BY <1>1
<1>5. rec'[m] = [after EXCEPT !.state = state]
  BY <1>0, <1>3
<1>. QED
  BY <1>0, <1>1, <1>2, <1>3, <1>4, <1>5

\* An answer that came: the job ends, or has a step still to ask for.
LEMMA ApplyFacts ==
    ASSUME NInd, NEW m \in Markets, NEW answer, Tells(m, answer),
           worker[m] \in {"asked", "waiting", "reading"}, Apply(m, answer)
    PROVE  /\ rec' \in [Markets -> [state : Unsettled \cup Resting \cup {"published"},
                                    action : Actions \cup {"none"},
                                    rev : Revs \cup {NoRev}, prev : Revs \cup {NoRev},
                                    link : BOOLEAN]]
           /\ job' \in [Markets -> {"none", "active", "completed", "failed", "cancelled"}]
           /\ worker' \in [Markets -> {"none", "ready", "asked", "waiting", "reading"}]
           /\ steps' \in [Markets -> Seq(Actions)]
           /\ saves' \in SUBSET Markets /\ cancels' \in SUBSET Markets
           /\ \A n \in Markets \ {m} :
                /\ rec'[n] = rec[n] /\ job'[n] = job[n]
                /\ worker'[n] = worker[n] /\ steps'[n] = steps[n]
           /\ rec'[m].action = rec[m].action
           /\ \/ worker'[m] = "none"
              \/ /\ worker'[m] = "ready" /\ job'[m] = job[m]
                 /\ steps'[m] \in Rows /\ answer # "unsure"
                 /\ rec'[m].rev \in Revs
           /\ m \notin ended /\ live[m] = 0 =>
                /\ rec'[m].state # "published"
                /\ worker'[m] = "ready" => steps'[m] # <<"update">>
           /\ m \notin early \cup slow' /\ live[m] > 0 =>
                /\ rec'[m].state \notin Resting
                /\ worker'[m] = "ready" => steps'[m] = <<"update">>
           /\ answer = "unsure" => rec'[m].state = "unknown"
           /\ m \notin Chrome =>
                /\ rec[m].link => rec'[m].link
                /\ steps'[m] = <<>> \/ steps'[m] = steps[m]
                /\ worker'[m] = "ready" /\ rec[m].action = "save_draft" => rec'[m].link
<1> DEFINE after == Outcome(m, answer)
<1>0. /\ rec \in [Markets -> [state : Unsettled \cup Resting \cup {"published"},
                              action : Actions \cup {"none"},
                              rev : Revs \cup {NoRev}, prev : Revs \cup {NoRev}, link : BOOLEAN]]
      /\ job \in [Markets -> {"none", "active", "completed", "failed", "cancelled"}]
      /\ worker \in [Markets -> {"none", "ready", "asked", "waiting", "reading"}]
      /\ steps \in [Markets -> Seq(Actions)]
      /\ saves \in SUBSET Markets /\ cancels \in SUBSET Markets
      /\ live[m] \in Nat
  BY DEF NInd, NTypeOK
<1>1. /\ NTypeOK /\ answer \in Answers /\ rec[m].action \in Actions
      /\ answer = "gone" => rec[m].action = "publish" /\ m \in Chrome
      /\ steps[m] = <<>> \/ (rec[m].action = "save_draft" /\ steps[m] = <<"publish">>)
      /\ rec[m].rev \in Revs
  BY DEF NInd, Good, Ordered, Tells
<1>2. /\ after \in [state : {"unknown", "published"} \cup Resting, action : Actions,
                    rev : Revs \cup {NoRev}, prev : Revs \cup {NoRev}, link : BOOLEAN]
      /\ after.action = rec[m].action
      /\ after.state = "published" <=>
           \/ answer = "ok" /\ rec[m].action # "save_draft"
           \/ answer = "refused" /\ rec[m].action = "update"
      /\ after.state = "unknown" <=> answer = "unsure"
      /\ answer # "refused" => after.rev = rec[m].rev
      /\ answer # "gone" /\ rec[m].link => after.link
      /\ answer = "ok" /\ rec[m].action = "save_draft" => after.link
  BY <1>1, OutcomeFacts
<1>3. after.state \notin Busy /\ after.state \in Unsettled \cup Resting \cup {"published"}
  BY <1>2 DEF Busy, Resting, Unsettled
<1>4. after \in [state : Unsettled \cup Resting \cup {"published"}, action : Actions \cup {"none"},
                 rev : Revs \cup {NoRev}, prev : Revs \cup {NoRev}, link : BOOLEAN]
  BY <1>2, <1>3
<1>5. m \notin ended /\ live[m] = 0 => after.state # "published"
  BY <1>2 DEF Tells, NInd, Good, Truthful
<1>6. m \notin early \cup slow' /\ live[m] > 0 =>
        /\ after.state \notin Resting
        /\ rec[m].action # "save_draft" /\ answer # "gone"
  <2>1. SUFFICES ASSUME m \notin early \cup slow', live[m] > 0
                 PROVE  /\ after.state \notin Resting
                        /\ rec[m].action # "save_draft" /\ answer # "gone"
    OBVIOUS
  <2>2. rec[m].action # "save_draft"
    BY <2>1 DEF NInd, Good, Once, Tells
  <2>3. answer # "gone" /\ (rec[m].action \in Posting => answer \in Landed)
    BY <2>1, <1>1 DEF Tells, Posting, Landed
  <2>4. after.state \in {"unknown", "published"}
    BY <1>1, <1>2, <2>2, <2>3 DEF Actions, Answers, Posting, Landed
  <2>. QED
    BY <2>2, <2>3, <2>4 DEF Resting
<1> HIDE DEF after
<1>7. PICK further \in Further(m, answer) :
        IF further = <<>>
        THEN FinishJob(m, after, answer # "ok")
        ELSE /\ rec' = [rec EXCEPT ![m] = after]
             /\ worker' = [worker EXCEPT ![m] = "ready"]
             /\ steps' = [steps EXCEPT ![m] = further]
             /\ saves' = IF Head(further) = "save_draft" THEN saves \cup {m} ELSE saves
             /\ UNCHANGED <<job, cancels>>
  BY DEF Apply, after
<1>8. CASE further = <<>>
  <2>1. FinishJob(m, after, answer # "ok")
    BY <1>7, <1>8
  <2>2. /\ rec'[m].state = after.state /\ rec'[m].action = rec[m].action
        /\ rec'[m].link = after.link
        /\ worker' = [worker EXCEPT ![m] = "none"] /\ worker'[m] = "none"
        /\ steps' = [steps EXCEPT ![m] = <<>>] /\ saves' = saves
        /\ cancels' \in SUBSET Markets
        /\ \A n \in Markets \ {m} :
             /\ rec'[n] = rec[n] /\ job'[n] = job[n]
             /\ worker'[n] = worker[n] /\ steps'[n] = steps[n]
        /\ job' \in [Markets -> {"none", "active", "completed", "failed", "cancelled"}]
    <3> DEFINE error == answer # "ok"
    <3>1. NTypeOK /\ error \in BOOLEAN /\ FinishJob(m, after, error)
      BY <1>1, <2>1
    <3> HIDE DEF error
    <3>2. /\ rec'[m].state = (IF after.state \in Busy THEN "unknown" ELSE after.state)
          /\ rec'[m].action = after.action /\ rec'[m].link = after.link
      BY <1>4, <3>1, FinishFacts
    <3>3. /\ worker' = [worker EXCEPT ![m] = "none"] /\ worker'[m] = "none"
          /\ steps' = [steps EXCEPT ![m] = <<>>] /\ saves' = saves
          /\ cancels' \in SUBSET Markets
          /\ \A n \in Markets \ {m} :
               /\ rec'[n] = rec[n] /\ job'[n] = job[n]
               /\ worker'[n] = worker[n] /\ steps'[n] = steps[n]
          /\ job' \in [Markets -> {"none", "active", "completed", "failed", "cancelled"}]
      BY <1>4, <3>1, FinishFacts
    <3>. QED
      BY <1>2, <1>3, <3>2, <3>3
  <2>3. rec' \in [Markets -> [state : Unsettled \cup Resting \cup {"published"},
                              action : Actions \cup {"none"},
                              rev : Revs \cup {NoRev}, prev : Revs \cup {NoRev}, link : BOOLEAN]]
    BY <1>1, <1>4, <2>1, FinishFacts
  <2>4. steps'[m] = <<>>
    BY <1>0, <2>2
  <2>. QED
    BY <1>0, <1>1, <1>2, <1>5, <1>6, <2>2, <2>3, <2>4, RowFacts
<1>9. CASE further # <<>>
  <2>1. /\ rec' = [rec EXCEPT ![m] = after] /\ worker' = [worker EXCEPT ![m] = "ready"]
        /\ steps' = [steps EXCEPT ![m] = further]
        /\ saves' = IF Head(further) = "save_draft" THEN saves \cup {m} ELSE saves
        /\ job' = job /\ cancels' = cancels
    BY <1>7, <1>9
  <2>2. /\ further \in Rows /\ answer # "unsure"
        /\ answer = "ok" \/ answer = "gone"
        /\ further = <<"update">> => answer = "ok" /\ rec[m].action = "publish"
        /\ answer = "ok" /\ rec[m].action # "save_draft" => further = <<"update">>
    <3>1. /\ <<"update">> # <<"publish">> /\ <<"save_draft", "publish">> # <<"update">>
          /\ <<"publish">> \in Rows /\ <<"save_draft", "publish">> \in Rows /\ <<"update">> \in Rows
      BY DEF Rows
    <3>2. CASE rec[m].action = "save_draft" /\ answer # "ok"
      <4>1. further = <<>>
        BY <1>1, <3>2 DEF Further
      <4>. QED
        BY <1>9, <4>1
    <3>3. CASE ~(rec[m].action = "save_draft" /\ answer # "ok") /\ answer = "gone" /\ m \notin saves
      <4>1. further = <<"save_draft", "publish">>
        BY <1>7, <3>3 DEF Further
      <4>. QED
        BY <3>1, <3>3, <4>1
    <3>4. CASE /\ ~(rec[m].action = "save_draft" /\ answer # "ok")
               /\ ~(answer = "gone" /\ m \notin saves)
      <4>1. \/ further = steps[m]
            \/ answer = "ok" /\ rec[m].action = "publish" /\ further = <<"update">>
        BY <1>7, <3>4 DEF Further
      <4>. QED
        BY <1>1, <1>9, <3>1, <3>4, <4>1
    <3>. QED
      BY <3>2, <3>3, <3>4
  <2>3. rec'[m] = after /\ worker'[m] = "ready" /\ steps'[m] = further
    BY <1>0, <2>1
  <2>4. rec' \in [Markets -> [state : Unsettled \cup Resting \cup {"published"},
                              action : Actions \cup {"none"},
                              rev : Revs \cup {NoRev}, prev : Revs \cup {NoRev}, link : BOOLEAN]]
    BY <1>0, <1>4, <2>1
  <2>5. steps' \in [Markets -> Seq(Actions)]
    BY <1>0, <2>1, <2>2, RowFacts
  <2>6. /\ worker' \in [Markets -> {"none", "ready", "asked", "waiting", "reading"}]
        /\ saves' \in SUBSET Markets
        /\ \A n \in Markets \ {m} :
             /\ rec'[n] = rec[n] /\ worker'[n] = worker[n] /\ steps'[n] = steps[n]
    BY <1>0, <2>1
  <2>7. m \notin ended /\ live[m] = 0 => further # <<"update">>
    BY <2>2 DEF Tells
  <2>8. m \notin early \cup slow' /\ live[m] > 0 => further = <<"update">>
    BY <1>6, <2>2
  <2>9. rec'[m].rev \in Revs
    BY <1>1, <1>2, <2>2, <2>3
  <2>10. m \notin Chrome =>
           /\ further = steps[m] /\ (rec[m].link => after.link)
           /\ rec[m].action = "save_draft" => after.link
    <3>1. SUFFICES ASSUME m \notin Chrome PROVE answer = "ok" /\ further = steps[m]
      BY <1>2
    <3>2. answer = "ok" /\ m \notin Boosts
      BY <1>1, <2>2, <3>1, ListingConstants
    <3>. QED
      BY <1>7, <3>2 DEF Further
  <2>. QED
    BY <2>10, <1>0, <1>2, <1>5, <1>6, <2>1, <2>2, <2>3, <2>4, <2>5, <2>6, <2>7, <2>8, <2>9
<1>. QED
  BY <1>8, <1>9

\* Whatever brought it, an answer keeps its marketplace good.
LEMMA AnswerKeeps ==
    ASSUME NInd, NEW m \in Markets, NEW answer, Tells(m, answer),
           worker[m] \in {"asked", "waiting", "reading"}, Apply(m, answer),
           ~AtWork(m) \/ (answer = "unsure" /\ m \in Chrome /\ note'[m] = note[m]),
           asked' = asked, checking' = checking, running' = running, mine' = mine,
           stage' = stage, live' = live, late' = late, early' = early, ended' = ended,
           held' = held, m \notin sent', note'[m] \in {note[m], answer}
    PROVE  Good(m)'
<1>1. /\ rec'[m].action = rec[m].action
      /\ \/ worker'[m] = "none"
         \/ /\ worker'[m] = "ready" /\ job'[m] = job[m]
            /\ steps'[m] \in Rows /\ answer # "unsure"
            /\ rec'[m].rev \in Revs
      /\ m \notin ended /\ live[m] = 0 =>
           /\ rec'[m].state # "published"
           /\ worker'[m] = "ready" => steps'[m] # <<"update">>
      /\ m \notin early \cup slow' /\ live[m] > 0 =>
           /\ rec'[m].state \notin Resting
           /\ worker'[m] = "ready" => steps'[m] = <<"update">>
      /\ answer = "unsure" => rec'[m].state = "unknown"
      /\ m \notin Chrome =>
           /\ rec[m].link => rec'[m].link
           /\ steps'[m] = <<>> \/ steps'[m] = steps[m]
           /\ worker'[m] = "ready" /\ rec[m].action = "save_draft" => rec'[m].link
  BY ApplyFacts
<1>2. Ordered(m) /\ Truthful(m) /\ (m \notin early \cup slow => Once(m)) /\ answer \in Answers
  BY DEF NInd, Good, Tells
<1>3. Ordered(m)'
  BY <1>1, <1>2 DEF Ordered, AtWork, Tells, Answers
<1>4. Truthful(m)'
  BY <1>1, <1>2 DEF Truthful, AtWork, Tells
<1>5. m \notin early \cup slow' => Once(m)'
  <2>1. SUFFICES ASSUME m \notin early \cup slow' PROVE Once(m)'
    OBVIOUS
  <2>2. Once(m) /\ (InHand(m) => answer = "unsure")
    BY <1>2, <2>1 DEF Tells
  <2>3. Pending(m)'
    BY <1>1, <2>2 DEF Once, Pending, InHand, AtWork
  <2>. QED
    BY <1>1, <1>2, <2>1, <2>2, <2>3 DEF Once, AtWork, Tells, Landed
<1>6. Api(m)'
  <2>1. Api(m) /\ (m \notin Chrome => answer # "gone" /\ ~AtWork(m))
    BY DEF NInd, Good, Tells
  <2>2. <<>> # <<"list">> /\ <<>> # <<"publish">> /\ <<>> # <<"save_draft", "publish">>
    OBVIOUS
  <2>3. worker'[m] = "ready" /\ steps'[m] = <<"publish">> /\ m \notin Chrome => rec'[m].link
    <3>1. steps[m] = <<"publish">> => rec[m].action = "save_draft"
      BY <1>2, <2>2 DEF Ordered
    <3>. QED
      BY <1>1, <2>2, <3>1
  <2>. QED
    BY <1>1, <2>1, <2>2, <2>3 DEF Api, AtWork
<1>. QED
  BY <1>3, <1>4, <1>5, <1>6 DEF Good

----------------------------------------------------------------------------
(* One lemma per action.                                                   *)

Recs == [state : Unsettled \cup Resting \cup {"published"}, action : Actions \cup {"none"},
         rev : Revs \cup {NoRev}, prev : Revs \cup {NoRev}, link : BOOLEAN]

\* A List, Update or Save Draft starts.
LEMMA StartStep ==
    ASSUME NInd, NEW m \in Markets, NEW kind \in {"list", "update", "save_draft"},
           NEW r \in Revs, Start(m, kind, r)
    PROVE  NInd'
<1>0. /\ rec \in [Markets -> Recs] /\ asked \in [Markets -> Ops \cup {NoOp}]
      /\ job \in [Markets -> {"none", "active", "completed", "failed", "cancelled"}]
      /\ worker \in [Markets -> {"none", "ready", "asked", "waiting", "reading"}]
      /\ steps \in [Markets -> Seq(Actions)] /\ saves \in SUBSET Markets
      /\ note \in [Markets -> Answers \cup {"none", "started"}] /\ mine \in SUBSET Markets
      /\ jobs \in 0..MaxJobs /\ live[m] \in Nat
  BY DEF NInd, NTypeOK, Recs
<1>1. PICK plan \in Plans(m, kind, r) :
        /\ steps' = [steps EXCEPT ![m] = plan]
        /\ saves' = IF Head(plan) = "save_draft" THEN saves \cup {m} ELSE saves \ {m}
        /\ rec' = [rec EXCEPT ![m].state = StepState(Head(plan)), ![m].action = Head(plan),
                              ![m].prev = rec[m].rev, ![m].rev = r]
        /\ asked' = [asked EXCEPT ![m] = [action |-> Head(plan), rev |-> r, link |-> rec[m].link]]
  BY DEF Start
<1>2. /\ plan \in Rows
      /\ plan = <<"update">> => kind = "update"
      /\ kind = "update" => plan = <<"update">>
      /\ IF m \in TwoStep THEN plan # <<"list">>
                          ELSE plan \notin {<<"publish">>, <<"save_draft", "publish">>}
      /\ plan = <<"publish">> => rec[m].link
  <2>1. CASE kind = "list" /\ m \in TwoStep
    BY <1>1, <2>1 DEF Plans, Rows
  <2>2. CASE kind = "list" /\ m \notin TwoStep
    BY <1>1, <2>2 DEF Plans, Rows
  <2>3. CASE kind = "update"
    BY <1>1, <2>3 DEF Plans, Rows
  <2>4. CASE kind = "save_draft"
    BY <1>1, <2>4 DEF Plans, Rows
  <2>. QED
    BY <2>1, <2>2, <2>3, <2>4
<1>3. /\ Head(plan) \in Actions /\ plan \in Seq(Actions)
      /\ Head(plan) = "update" <=> plan = <<"update">>
      /\ StepState(Head(plan)) \in Busy
  BY <1>2, RowFacts, StepStates
<1>4. /\ rec' \in [Markets -> Recs]
      /\ rec'[m].state = StepState(Head(plan)) /\ rec'[m].action = Head(plan)
      /\ rec'[m].rev = r /\ rec'[m].link = rec[m].link
      /\ \A n \in Markets \ {m} : rec'[n] = rec[n]
  <2>1. StepState(Head(plan)) \in Unsettled \cup Resting \cup {"published"}
    BY <1>3 DEF Unsettled
  <2>2. rec[m] \in Recs
    BY <1>0
  <2>3. [rec[m] EXCEPT !.state = StepState(Head(plan)), !.action = Head(plan),
                       !.prev = rec[m].rev, !.rev = r] \in Recs
    BY <1>3, <2>1, <2>2 DEF Recs
  <2>4. rec' = [rec EXCEPT ![m] = [rec[m] EXCEPT !.state = StepState(Head(plan)), !.action = Head(plan),
                                                 !.prev = rec[m].rev, !.rev = r]]
    BY <1>1
  <2>5. /\ [rec[m] EXCEPT !.state = StepState(Head(plan)), !.action = Head(plan),
                          !.prev = rec[m].rev, !.rev = r].state = StepState(Head(plan))
        /\ [rec[m] EXCEPT !.state = StepState(Head(plan)), !.action = Head(plan),
                          !.prev = rec[m].rev, !.rev = r].action = Head(plan)
        /\ [rec[m] EXCEPT !.state = StepState(Head(plan)), !.action = Head(plan),
                          !.prev = rec[m].rev, !.rev = r].rev = r
        /\ [rec[m] EXCEPT !.state = StepState(Head(plan)), !.action = Head(plan),
                          !.prev = rec[m].rev, !.rev = r].link = rec[m].link
    BY <2>2 DEF Recs
  <2>. QED
    BY <1>0, <2>3, <2>4, <2>5
<1>5. [action |-> Head(plan), rev |-> r, link |-> rec[m].link] \in Ops
  BY <1>0, <1>3 DEF Ops, Recs
<1>6. /\ asked' \in [Markets -> Ops \cup {NoOp}]
      /\ asked'[m].action = Head(plan) /\ asked'[m] \in Ops
      /\ steps' \in [Markets -> Seq(Actions)] /\ steps'[m] = plan
      /\ saves' \in SUBSET Markets
      /\ \A n \in Markets \ {m} : asked'[n] = asked[n] /\ steps'[n] = steps[n]
  BY <1>0, <1>1, <1>3, <1>5
<1>7. /\ note' = [note EXCEPT ![m] = "none"] /\ mine' = mine \ {m}
      /\ job' = [job EXCEPT ![m] = "active"] /\ worker' = [worker EXCEPT ![m] = "ready"]
      /\ jobs' = jobs + 1 /\ jobs < MaxJobs
      /\ job[m] # "active" /\ m \notin checking
      /\ UNCHANGED <<cancels, checking, up, sent, running, stage, market, early, slow, ended, crashes, deaths>>
  BY DEF Start
<1>. rec[m].state \notin Busy /\ rec[m].state # "unknown"
  BY DEF Start, Unsettled
<1>. (kind = "update") <=> (rec[m].state = "published")
  BY DEF Start
<1>8. jobs' \in 0..MaxJobs
  BY <1>0, <1>7, ListingConstants
<1>9. NTypeOK'
  BY <1>0, <1>4, <1>6, <1>7, <1>8 DEF NInd, NTypeOK, Recs, market
<1>10. \A n \in Markets \ {m} : Same(n)
  BY <1>0, <1>4, <1>6, <1>7 DEF Same, market
<1>11. Good(m)
  BY DEF NInd
<1>12. m \notin sent /\ worker[m] = "none"
  BY <1>0, <1>7, <1>11, StepStates DEF Good, Ordered, Unsettled, Recs
<1>13. Ordered(m)'
  BY <1>0, <1>2, <1>3, <1>4, <1>6, <1>7, <1>11, <1>12 DEF Good, Ordered, AtWork, market
<1>14. Truthful(m)'
  <2>1. m \notin ended /\ live[m] = 0 => plan # <<"update">>
    BY <1>2, <1>11 DEF Good, Truthful
  <2>. QED
    BY <1>0, <1>3, <1>4, <1>6, <1>7, <2>1 DEF Truthful, AtWork, Busy, market
<1>15. m \notin early \cup slow => Once(m)'
  <2>1. SUFFICES ASSUME m \notin early \cup slow PROVE Once(m)'
    OBVIOUS
  <2>2. Once(m) /\ Ordered(m)
    BY <1>11, <2>1 DEF Good
  <2>3. live[m] > 0 => plan = <<"update">>
    <3>1. live[m] > 0 => rec[m].state = "published"
      BY <1>0, <2>2 DEF Once, Pending, Recs, Unsettled
    <3>. QED
      BY <1>2, <1>7, <3>1
  <2>4. running[m] # NoOp /\ m \notin mine' /\ stage[m] = "started" => running[m].action \notin Posting
    <3>1. CASE m \in mine
      BY <2>2, <3>1 DEF Once, Pending, AtWork, Busy
    <3>2. CASE m \notin mine
      BY <2>2, <3>2 DEF Once, Pending
    <3>. QED
      BY <3>1, <3>2
  <2>. QED
    BY <1>0, <1>3, <1>4, <1>6, <1>7, <1>12, <2>2, <2>3, <2>4 DEF Once, Pending, AtWork, Busy, Resting, Posting, market
<1>17. Api(m)'
  <2>1. Api(m) /\ (Head(plan) = "list" <=> plan = <<"list">>) /\ (Head(plan) = "publish" <=> plan = <<"publish">>)
    BY <1>2, <1>11, RowFacts DEF Good
  <2>2. Head(plan) \in Posting /\ m \notin Chrome => Head(plan) = Posted(m)
    BY <1>2, <2>1 DEF Posting, Posted
  <2>3. ~AtWork(m)' /\ note'[m] = "none"
    BY <1>0, <1>7 DEF AtWork
  <2>. QED
    BY <1>2, <1>4, <1>6, <1>7, <2>1, <2>2, <2>3 DEF Api, market
<1>16. Good(m)'
  BY <1>7, <1>13, <1>14, <1>15, <1>17 DEF Good
<1>. QED
  BY <1>9, <1>10, <1>16, OnlyHere

\* A job asks for its next step.
LEMMA StepBeginsStep ==
    ASSUME NInd, NEW m \in Markets, StepBegins(m)
    PROVE  NInd'
<1> DEFINE step == Head(steps[m])
<1>0. /\ rec \in [Markets -> Recs] /\ asked \in [Markets -> Ops \cup {NoOp}]
      /\ job \in [Markets -> {"none", "active", "completed", "failed", "cancelled"}]
      /\ worker \in [Markets -> {"none", "ready", "asked", "waiting", "reading"}]
      /\ steps \in [Markets -> Seq(Actions)] /\ sent \in SUBSET Chrome
      /\ running \in [Markets -> Ops \cup {NoOp}] /\ stage \in [Markets -> Answers \cup {"started"}]
      /\ note \in [Markets -> Answers \cup {"none", "started"}] /\ mine \in SUBSET Markets
      /\ live[m] \in Nat
  BY DEF NInd, NTypeOK, Recs
<1>1. Good(m)
  BY DEF NInd
<1>2. worker[m] = "ready" /\ steps[m] \in Rows
  BY <1>1 DEF StepBegins, Good, Ordered
<1>3. /\ step \in Actions /\ Tail(steps[m]) \in Seq(Actions)
      /\ Tail(steps[m]) = <<>> \/ (step = "save_draft" /\ Tail(steps[m]) = <<"publish">>)
      /\ step = "update" <=> steps[m] = <<"update">>
      /\ step = "list" <=> steps[m] = <<"list">>
      /\ step = "publish" <=> steps[m] = <<"publish">>
      /\ Tail(steps[m]) # <<>> => steps[m] = <<"save_draft", "publish">>
  BY <1>2, RowFacts
<1>4. /\ StepState(step) \in Busy
      /\ step \in Posting <=> StepState(step) = "publishing"
  BY <1>3, StepStates
<1> HIDE DEF step
<1>5. /\ rec' = [rec EXCEPT ![m].state = StepState(step), ![m].action = step]
      /\ asked' = [asked EXCEPT ![m] = [action |-> step, rev |-> rec[m].rev, link |-> rec[m].link]]
      /\ steps' = [steps EXCEPT ![m] = Tail(@)]
  BY DEF StepBegins, step
<1>6. /\ rec' \in [Markets -> Recs]
      /\ rec'[m].state = StepState(step) /\ rec'[m].action = step
      /\ rec'[m].rev = rec[m].rev /\ rec'[m].link = rec[m].link
      /\ \A n \in Markets \ {m} : rec'[n] = rec[n]
  <2>1. StepState(step) \in Unsettled \cup Resting \cup {"published"}
    BY <1>4 DEF Unsettled
  <2>2. rec[m] \in Recs
    BY <1>0
  <2>3. [rec[m] EXCEPT !.state = StepState(step), !.action = step] \in Recs
    BY <1>3, <2>1, <2>2 DEF Recs
  <2>4. rec' = [rec EXCEPT ![m] = [rec[m] EXCEPT !.state = StepState(step), !.action = step]]
    BY <1>5
  <2>5. /\ [rec[m] EXCEPT !.state = StepState(step), !.action = step].state = StepState(step)
        /\ [rec[m] EXCEPT !.state = StepState(step), !.action = step].action = step
        /\ [rec[m] EXCEPT !.state = StepState(step), !.action = step].rev = rec[m].rev
        /\ [rec[m] EXCEPT !.state = StepState(step), !.action = step].link = rec[m].link
    BY <2>2 DEF Recs
  <2>. QED
    BY <1>0, <2>3, <2>4, <2>5
<1>7. rec[m].rev \in Revs /\ rec[m].link \in BOOLEAN /\ job[m] = "active"
  BY <1>0, <1>1, <1>2 DEF Recs, Good, Ordered
<1>8. [action |-> step, rev |-> rec[m].rev, link |-> rec[m].link] \in Ops
  BY <1>3, <1>7 DEF Ops
<1>9. asked'[m] \in Ops /\ asked'[m].action = step /\ asked'[m] # NoOp /\ asked'[m].link = rec[m].link
  BY <1>0, <1>3, <1>5, <1>8 DEF NoOp, Actions
<1>10. /\ asked' \in [Markets -> Ops \cup {NoOp}]
       /\ steps' \in [Markets -> Seq(Actions)] /\ steps'[m] = Tail(steps[m])
       /\ \A n \in Markets \ {m} : asked'[n] = asked[n] /\ steps'[n] = steps[n]
  BY <1>0, <1>3, <1>5, <1>8
<1>11. ~AtWork(m) /\ m \notin sent /\ m \notin checking /\ (m \notin Chrome => running[m] = NoOp)
  BY <1>1, <1>2 DEF Good, Ordered, AtWork
<1>12. UNCHANGED <<job, saves, cancels, checking, up, held, live, shows, late, early, slow, ended, jobs, crashes, deaths>>
  BY DEF StepBegins, market, history
<1>13. m \notin ended /\ live[m] = 0 => step # "update"
  BY <1>1, <1>2, <1>3 DEF Good, Truthful
<1>14. m \notin early \cup slow =>
         /\ live[m] > 0 => step = "update"
         /\ \A op \in late[m] : op.action \notin Posting
  BY <1>1, <1>2, <1>3 DEF Good, Once, Pending
<1>15. CASE m \in Chrome
  <2>1. /\ sent' = IF up THEN sent \cup {m} ELSE sent
        /\ worker' = [worker EXCEPT ![m] = IF up THEN "asked" ELSE "waiting"]
        /\ note' = [note EXCEPT ![m] = "none"] /\ mine' = mine \ {m}
        /\ running' = running /\ stage' = stage
    BY <1>15 DEF StepBegins
  <2>2. /\ worker'[m] \in {"asked", "waiting"} /\ note'[m] = "none"
        /\ worker' \in [Markets -> {"none", "ready", "asked", "waiting", "reading"}]
        /\ note' \in [Markets -> Answers \cup {"none", "started"}]
        /\ sent' \in SUBSET Chrome /\ mine' \in SUBSET Markets
        /\ \A n \in Markets \ {m} :
             /\ worker'[n] = worker[n] /\ note'[n] = note[n]
             /\ n \in sent' <=> n \in sent
             /\ n \in mine' <=> n \in mine
    BY <1>0, <1>15, <2>1
  <2>3. NTypeOK'
    BY <1>0, <1>6, <1>10, <1>12, <2>1, <2>2 DEF NInd, NTypeOK, Recs
  <2>4. \A n \in Markets \ {m} : Same(n)
    BY <1>6, <1>10, <1>12, <2>1, <2>2 DEF Same
  <2>5. Ordered(m)'
    BY <1>1, <1>3, <1>6, <1>7, <1>9, <1>10, <1>11, <1>12, <1>15, <2>1, <2>2
       DEF Good, Ordered, AtWork, Answers
  <2>6. Truthful(m)'
    BY <1>4, <1>6, <1>12, <1>13, <2>1, <2>2 DEF Truthful, AtWork, Busy
  <2>7. m \notin early \cup slow => Once(m)'
    <3>1. running[m] # NoOp /\ m \notin mine' /\ stage[m] = "started" /\ m \notin early \cup slow =>
             running[m].action \notin Posting
      BY <1>1, <1>11 DEF Good, Once, Pending, AtWork
    <3>. QED
      BY <1>1, <1>4, <1>6, <1>12, <1>14, <2>1, <2>2, <3>1 DEF Good, Once, Pending, AtWork, Busy, Resting, Posting
  <2>8. Api(m)'
    BY <1>15 DEF Api
  <2>. QED
    BY <1>12, <2>3, <2>4, <2>5, <2>6, <2>7, <2>8, OnlyHere DEF Good
<1>16. CASE m \notin Chrome
  <2>1. /\ worker' = [worker EXCEPT ![m] = "asked"]
        /\ running' = [running EXCEPT ![m] = asked'[m]]
        /\ mine' = mine \cup {m}
        /\ stage' = [stage EXCEPT ![m] = "started"]
        /\ note' = [note EXCEPT ![m] = "started"]
        /\ sent' = sent
    BY <1>16 DEF StepBegins
  <2>2. /\ worker'[m] = "asked" /\ note'[m] = "started" /\ stage'[m] = "started"
        /\ running'[m] = asked'[m] /\ m \in mine'
        /\ worker' \in [Markets -> {"none", "ready", "asked", "waiting", "reading"}]
        /\ note' \in [Markets -> Answers \cup {"none", "started"}]
        /\ stage' \in [Markets -> Answers \cup {"started"}]
        /\ running' \in [Markets -> Ops \cup {NoOp}]
        /\ mine' \in SUBSET Markets
        /\ \A n \in Markets \ {m} :
             /\ worker'[n] = worker[n] /\ note'[n] = note[n] /\ stage'[n] = stage[n]
             /\ running'[n] = running[n] /\ (n \in mine' <=> n \in mine)
    BY <1>0, <1>9, <2>1
  <2>3. NTypeOK'
    BY <1>0, <1>6, <1>10, <1>12, <2>1, <2>2 DEF NInd, NTypeOK, Recs
  <2>4. \A n \in Markets \ {m} : Same(n)
    BY <1>6, <1>10, <1>12, <2>1, <2>2 DEF Same
  <2>5. Ordered(m)'
    BY <1>1, <1>3, <1>6, <1>7, <1>9, <1>10, <1>11, <1>12, <1>16, <2>1, <2>2
       DEF Good, Ordered, AtWork, Answers
  <2>6. Truthful(m)'
    BY <1>4, <1>6, <1>12, <1>13, <2>1, <2>2 DEF Truthful, AtWork, Busy
  <2>7. m \notin early \cup slow => Once(m)'
    BY <1>1, <1>4, <1>6, <1>9, <1>11, <1>12, <1>14, <2>1, <2>2 DEF Good, Once, Pending, AtWork, Busy, Resting, Posting
  <2>8. Api(m)'
    <3>1. Api(m)
      BY <1>1 DEF Good
    <3>2. step \in Posting => step = Posted(m)
      BY <1>3, <1>16, <3>1 DEF Api, Posting, Posted
    <3>3. /\ step = "publish" /\ m \in TwoStep => rec[m].link
          /\ Tail(steps[m]) # <<"list">>
          /\ m \notin TwoStep => Tail(steps[m]) = <<>>
      <4>1. step = "publish" /\ m \in TwoStep => rec[m].link
        BY <1>2, <1>3, <1>16, <3>1 DEF Api
      <4>2. <<>> # <<"list">> /\ <<"publish">> # <<"list">>
        OBVIOUS
      <4>3. Tail(steps[m]) # <<"list">>
        BY <1>3, <4>2
      <4>4. m \notin TwoStep => steps[m] # <<"save_draft", "publish">>
        BY <1>16, <3>1 DEF Api
      <4>. QED
        BY <1>3, <4>1, <4>3, <4>4
    <3>4. <<>> # <<"publish">> /\ <<>> # <<"save_draft", "publish">>
      OBVIOUS
    <3>5. /\ live'[m] <= 1
          /\ asked'[m].action \in Posting => asked'[m].action = Posted(m)
          /\ \A op \in late'[m] : op.action \in Posting => op.action = Posted(m)
          /\ note'[m] # "gone" /\ stage'[m] # "gone"
      BY <1>9, <1>12, <1>16, <2>2, <3>1, <3>2 DEF Api
    <3>6. IF m \in TwoStep THEN steps'[m] # <<"list">>
                           ELSE steps'[m] \notin {<<"publish">>, <<"save_draft", "publish">>}
      BY <1>10, <3>3, <3>4
    <3>7. CASE m \in TwoStep
      <4>1. /\ live'[m] > 0 => held'[m] = NoRev /\ rec'[m].link
            /\ \A op \in late'[m] : op.action = "publish" => rec'[m].link
        BY <1>6, <1>12, <1>16, <3>1, <3>7 DEF Api
      <4>2. /\ rec'[m].link <=> asked'[m].link
            /\ asked'[m].action = "publish" => rec'[m].link
        BY <1>6, <1>9, <3>3, <3>7
      <4>3. worker'[m] # "ready"
        BY <2>2
      <4>. QED
        BY <3>5, <3>6, <4>1, <4>2, <4>3 DEF Api
    <3>8. CASE m \notin TwoStep
      BY <3>5, <3>6, <3>8 DEF Api
    <3>. QED
      BY <3>7, <3>8
  <2>. QED
    BY <1>12, <2>3, <2>4, <2>5, <2>6, <2>7, <2>8, OnlyHere DEF Good
<1>. QED
  BY <1>15, <1>16

\* A step that ends a job over the record it has.
LEMMA JobOverStep ==
    ASSUME NInd, NEW m \in Markets, NEW act \in Actions,
           \/ StepStops(m) /\ act = rec[m].action
           \/ StepBreaks(m) /\ act = Head(steps[m])
    PROVE  NInd'
<1>0. /\ rec \in [Markets -> Recs] /\ asked \in [Markets -> Ops \cup {NoOp}]
      /\ note \in [Markets -> Answers \cup {"none", "started"}] /\ live[m] \in Nat
  BY DEF NInd, NTypeOK, Recs
<1>1. Good(m) /\ NTypeOK /\ rec[m] \in Recs
  BY <1>0 DEF NInd
<1>2. worker[m] = "ready" /\ steps[m] \in Rows /\ ~AtWork(m) /\ m \notin sent /\ m \notin checking
  BY <1>1 DEF StepStops, StepBreaks, Good, Ordered, AtWork
<1>3. m \notin Chrome => running[m] = NoOp
  BY <1>1, <1>2 DEF Good, Ordered
<1>4. Head(steps[m]) \in Actions /\ (Head(steps[m]) = "update" <=> steps[m] = <<"update">>)
  BY <1>2, RowFacts
<1>5. UNCHANGED <<checking, up, sent, running, mine, stage, held, live, shows, late,
                  early, slow, ended, jobs, crashes, deaths>>
  BY DEF StepStops, StepBreaks, chrome, market, history
<1>6. m \notin ended /\ live[m] = 0 => rec[m].state # "published" /\ act # "update"
  <2>1. CASE StepStops(m) /\ act = rec[m].action
    BY <1>1, <2>1 DEF Good, Truthful
  <2>2. CASE StepBreaks(m) /\ act = Head(steps[m])
    BY <1>1, <1>2, <1>4, <2>2 DEF Good, Truthful
  <2>. QED
    BY <2>1, <2>2
<1>7. m \notin early \cup slow /\ live[m] > 0 => rec[m].state \notin Resting /\ act # "save_draft"
  <2>1. CASE StepStops(m) /\ act = rec[m].action
    BY <1>1, <2>1 DEF Good, Once, Pending
  <2>2. CASE StepBreaks(m) /\ act = Head(steps[m])
    BY <1>1, <1>2, <1>4, <2>2 DEF Good, Once, Pending
  <2>. QED
    BY <2>1, <2>2
<1>8. CASE StepStops(m) /\ act = rec[m].action
  <2>1. rec[m] \in [state : Unsettled \cup Resting \cup {"published"}, action : Actions \cup {"none"},
                    rev : Revs \cup {NoRev}, prev : Revs \cup {NoRev}, link : BOOLEAN]
    BY <1>1 DEF Recs
  <2>2. /\ rec' \in [Markets -> Recs]
        /\ rec'[m].state = IF rec[m].state \in Busy THEN "unknown" ELSE rec[m].state
        /\ rec'[m].action = rec[m].action /\ rec'[m].link = rec[m].link
        /\ job' \in [Markets -> {"none", "active", "completed", "failed", "cancelled"}]
        /\ worker' = [worker EXCEPT ![m] = "none"] /\ worker'[m] = "none"
        /\ steps' = [steps EXCEPT ![m] = <<>>]
        /\ saves' = saves /\ cancels' \in SUBSET Markets
        /\ \A n \in Markets \ {m} :
             /\ rec'[n] = rec[n] /\ job'[n] = job[n]
             /\ worker'[n] = worker[n] /\ steps'[n] = steps[n]
    BY <1>1, <1>8, <2>1, FinishFacts DEF StepStops, Recs
  <2>3. asked' = asked /\ note' = note
    BY <1>8 DEF StepStops
  <2>4. NTypeOK'
    BY <1>1, <1>5, <2>2, <2>3, RowFacts DEF NTypeOK, Recs
  <2>5. \A n \in Markets \ {m} : Same(n)
    BY <1>5, <2>2, <2>3 DEF Same
  <2>6. Ordered(m)'
    BY <1>1, <1>2, <1>3, <1>5, <2>2, <2>3 DEF Good, Ordered, AtWork
  <2>7. Truthful(m)'
    BY <1>1, <1>2, <1>5, <1>6, <2>2, <2>3 DEF Good, Truthful, AtWork
  <2>8. m \notin early \cup slow => Once(m)'
    BY <1>1, <1>2, <1>5, <1>7, <2>2, <2>3 DEF Good, Once, Pending, AtWork, Resting
  <2>9. Api(m)'
    <3>1. steps'[m] = <<>> /\ <<>> # <<"list">> /\ <<>> # <<"publish">> /\ <<>> # <<"save_draft", "publish">>
      BY <1>1, <2>2 DEF NTypeOK
    <3>. QED
      BY <1>1, <1>2, <1>5, <2>2, <2>3, <3>1 DEF Good, Api, AtWork
  <2>. QED
    BY <1>5, <2>4, <2>5, <2>6, <2>7, <2>8, <2>9, OnlyHere DEF Good
<1>9. CASE StepBreaks(m) /\ act = Head(steps[m])
  <2> DEFINE after == [rec[m] EXCEPT !.state = StepState(act), !.action = act]
  <2>0. StepState(act) \in Busy
    BY StepStates
  <2>1. /\ after \in [state : Unsettled \cup Resting \cup {"published"}, action : Actions \cup {"none"},
                      rev : Revs \cup {NoRev}, prev : Revs \cup {NoRev}, link : BOOLEAN]
        /\ after.state = StepState(act) /\ after.action = act /\ after.link = rec[m].link
    <3>1. StepState(act) \in Unsettled \cup Resting \cup {"published"}
      BY <2>0 DEF Unsettled
    <3>. QED
      BY <1>1, <3>1 DEF Recs
  <2>2. FinishJob(m, after, FALSE)
    BY <1>9 DEF StepBreaks
  <2> HIDE DEF after
  <2>3. /\ rec' \in [Markets -> Recs]
        /\ rec'[m].state = (IF after.state \in Busy THEN "unknown" ELSE after.state)
        /\ rec'[m].action = after.action /\ rec'[m].link = after.link
        /\ job' \in [Markets -> {"none", "active", "completed", "failed", "cancelled"}]
        /\ worker' = [worker EXCEPT ![m] = "none"] /\ worker'[m] = "none"
        /\ steps' = [steps EXCEPT ![m] = <<>>]
        /\ saves' = saves /\ cancels' \in SUBSET Markets
        /\ \A n \in Markets \ {m} :
             /\ rec'[n] = rec[n] /\ job'[n] = job[n]
             /\ worker'[n] = worker[n] /\ steps'[n] = steps[n]
    BY <1>1, <2>1, <2>2, FinishFacts DEF Recs
  <2>. rec'[m].state = "unknown" /\ rec'[m].action = act
    BY <2>0, <2>1, <2>3
  <2>4. asked' = [asked EXCEPT ![m].action = act] /\ note' = [note EXCEPT ![m] = "none"]
    BY <1>9 DEF StepBreaks
  <2>5. /\ asked' \in [Markets -> Ops \cup {NoOp}] /\ asked'[m].action = act
        /\ \A n \in Markets \ {m} : asked'[n] = asked[n]
    <3>1. asked[m] \in Ops
      BY <1>1, <1>2 DEF Good, Ordered
    <3>2. [asked[m] EXCEPT !.action = act] \in Ops /\ [asked[m] EXCEPT !.action = act].action = act
      BY <3>1 DEF Ops
    <3>. QED
      BY <1>0, <2>4, <3>2
  <2>6. /\ note' \in [Markets -> Answers \cup {"none", "started"}] /\ note'[m] = "none"
        /\ \A n \in Markets \ {m} : note'[n] = note[n]
    BY <1>0, <2>4
  <2>7. NTypeOK'
    BY <1>1, <1>5, <2>3, <2>5, <2>6, RowFacts DEF NTypeOK, Recs
  <2>8. \A n \in Markets \ {m} : Same(n)
    BY <1>5, <2>3, <2>5, <2>6 DEF Same
  <2>9. Ordered(m)'
    BY <1>1, <1>2, <1>3, <1>5, <2>3, <2>5, <2>6 DEF Good, Ordered, AtWork
  <2>10. Truthful(m)'
    BY <1>2, <1>5, <1>6, <2>3, <2>6 DEF Truthful, AtWork
  <2>11. m \notin early \cup slow => Once(m)'
    <3>1. m \notin early \cup slow /\ live[m] > 0 => act = "update"
      BY <1>1, <1>2, <1>4, <1>9 DEF Good, Once, Pending
    <3>. QED
      BY <1>1, <1>2, <1>5, <2>3, <2>6, <3>1 DEF Good, Once, Pending, AtWork, Resting, Posting
  <2>12. Api(m)'
    <3>1. steps'[m] = <<>> /\ <<>> # <<"list">> /\ <<>> # <<"publish">> /\ <<>> # <<"save_draft", "publish">>
      BY <1>1, <2>3 DEF NTypeOK
    <3>2. Api(m) /\ (act = "list" <=> steps[m] = <<"list">>) /\ (act = "publish" <=> steps[m] = <<"publish">>)
      BY <1>1, <1>2, <1>9, RowFacts DEF Good
    <3>3. m \notin Chrome /\ act \in Posting => act = Posted(m)
      BY <3>2 DEF Api, Posting, Posted
    <3>. QED
      BY <1>2, <1>5, <2>1, <2>3, <2>5, <2>6, <3>1, <3>2, <3>3 DEF Api, AtWork
  <2>. QED
    BY <1>5, <2>7, <2>8, <2>9, <2>10, <2>11, <2>12, OnlyHere DEF Good
<1>. QED
  BY <1>8, <1>9

\* It was cancelled, or could not begin.
LEMMA StopsStep ==
    ASSUME NInd, NEW m \in Markets, StepStops(m) \/ StepBreaks(m)
    PROVE  NInd'
<1>1. /\ asked[m] \in Ops /\ asked[m].action = rec[m].action
      /\ steps[m] \in Rows
  BY DEF NInd, Good, Ordered, StepStops, StepBreaks
<1>2. rec[m].action \in Actions /\ Head(steps[m]) \in Actions
  BY <1>1, RowFacts DEF Ops
<1>3. PICK act \in Actions :
        \/ StepStops(m) /\ act = rec[m].action
        \/ StepBreaks(m) /\ act = Head(steps[m])
  BY <1>2
<1>. QED
  BY <1>3, JobOverStep

\* An answer that is applied to its marketplace.
LEMMA AnswerStep ==
    ASSUME NInd, NEW m \in Markets, NEW answer, Tells(m, answer),
           worker[m] \in {"asked", "waiting", "reading"}, Apply(m, answer),
           ~AtWork(m) \/ (answer = "unsure" /\ m \in Chrome /\ note'[m] = note[m]),
           asked' = asked, checking' = checking, up' = up, running' = running, mine' = mine,
           stage' = stage, held' = held, live' = live, shows' = shows, late' = late,
           early' = early, slow' \in SUBSET (Markets \ Chrome),
           \A n \in Markets \ {m} : n \in slow => n \in slow', ended' = ended, jobs' = jobs, crashes' = crashes, deaths' = deaths,
           sent' = sent \ {m}, note' \in [Markets -> Answers \cup {"none", "started"}],
           note'[m] \in {note[m], answer}, \A n \in Markets \ {m} : note'[n] = note[n]
    PROVE  NInd'
<1>1. /\ rec' \in [Markets -> Recs]
      /\ job' \in [Markets -> {"none", "active", "completed", "failed", "cancelled"}]
      /\ worker' \in [Markets -> {"none", "ready", "asked", "waiting", "reading"}]
      /\ steps' \in [Markets -> Seq(Actions)]
      /\ saves' \in SUBSET Markets /\ cancels' \in SUBSET Markets
      /\ \A n \in Markets \ {m} :
           /\ rec'[n] = rec[n] /\ job'[n] = job[n]
           /\ worker'[n] = worker[n] /\ steps'[n] = steps[n]
  BY ApplyFacts DEF Recs
<1>2. NTypeOK'
  BY <1>1 DEF NInd, NTypeOK, Recs
<1>3. \A n \in Markets \ {m} : Same(n)
  BY <1>1 DEF Same
<1>4. Good(m)'
  BY AnswerKeeps
<1>. QED
  BY <1>2, <1>3, <1>4, OnlyHere

\* What a marketplace shows, read back.
LEMMA ReadFacts ==
    ASSUME NInd, NEW m \in Markets, NEW answer \in Answers, Reads(m, answer), Misread(m, answer),
           rec[m].action \in Actions
    PROVE  Tells(m, answer)
<1>0. live[m] \in Nat /\ slow \in SUBSET (Markets \ Chrome)
  BY DEF NInd, NTypeOK
<1>1. asked[m].action = rec[m].action /\ (m \notin early \cup slow => Pending(m))
  BY DEF NInd, Good, Ordered, Once
<1>2. m \in slow => m \in slow'
  BY DEF Misread
<1>3. m \notin early \cup slow' /\ InHand(m) =>
        live[m] = 0 /\ asked[m] \in late[m] /\ asked[m].action \in Posting
  BY <1>1, <1>2 DEF Pending, InHand
<1>4. CASE answer = "ok" /\ Shown(m)
  <2>1. rec[m].action \in {"publish", "list", "update"} => live[m] > 0
    BY <1>1, <1>4 DEF Shown, Posting
  <2>2. rec[m].action # "save_draft" => live[m] > 0
    BY <2>1 DEF Actions
  <2>3. m \notin early \cup slow' => ~InHand(m)
    BY <1>0, <1>1, <1>3, <2>2 DEF Posting
  <2>. QED
    BY <1>0, <1>2, <1>4, <2>2, <2>3 DEF Tells, Landed
<1>5. CASE answer = "unsure"
  BY <1>2, <1>5 DEF Tells, Landed
<1>6. CASE answer = "refused" /\ m \notin Chrome /\ ~Shown(m)
  <2>1. rec[m].action \in Posting => ~(live[m] > 0)
    BY <1>1, <1>6 DEF Shown, Posting
  <2>2. m \notin slow' => ~InHand(m)
    BY <1>6 DEF Misread
  <2>. QED
    BY <1>2, <1>6, <2>1, <2>2 DEF Tells
<1>7. CASE /\ answer = "refused"
           /\ \/ asked[m].action = "save_draft"
              \/ asked[m].action = "publish" /\ ~Shown(m) /\ asked[m] \notin late[m]
  <2>1. rec[m].action \in Posting => ~(live[m] > 0) /\ asked[m] \notin late[m]
    BY <1>1, <1>7 DEF Shown, Posting
  <2>2. m \notin early \cup slow' => ~InHand(m)
    BY <1>1, <1>3, <2>1
  <2>. QED
    BY <1>2, <1>7, <2>1, <2>2 DEF Tells
<1>. QED
  BY <1>4, <1>5, <1>6, <1>7 DEF Reads

\* What the journal holds.
LEMMA NoteTells ==
    ASSUME NInd, NEW m \in Markets, note[m] \in Answers, rec[m].action \in Actions, slow' = slow
    PROVE  Tells(m, note[m]) /\ ~AtWork(m)
<1>1. Good(m)
  BY DEF NInd
<1>2. ~AtWork(m)
  BY <1>1 DEF Good, Ordered, Answers
<1>3. m \notin early \cup slow /\ InHand(m) => note[m] = "unsure"
  BY <1>1 DEF Good, Once, Pending, InHand, Answers
<1>4. note[m] = "gone" => m \in Chrome
  BY <1>1 DEF Good, Api
<1>. QED
  BY <1>1, <1>2, <1>3, <1>4 DEF Good, Ordered, Truthful, Once, Tells, Answers, Landed, Actions

\* The answer comes.
LEMMA AnswerComesStep ==
    ASSUME NInd, NEW m \in Markets, AnswerComes(m)
    PROVE  NInd'
<1>0. /\ rec \in [Markets -> Recs] /\ note \in [Markets -> Answers \cup {"none", "started"}]
      /\ worker \in [Markets -> {"none", "ready", "asked", "waiting", "reading"}]
      /\ live[m] \in Nat
  BY DEF NInd, NTypeOK, Recs
<1>1. Good(m) /\ NTypeOK /\ worker[m] = "asked" /\ note[m] \in Answers
  BY DEF NInd, AnswerComes
<1>2. rec[m].action \in Actions /\ m \notin sent
  BY <1>1 DEF Good, Ordered, Answers
<1>3. Tells(m, note[m]) /\ ~AtWork(m)
  <2>1. slow' = slow
    BY DEF AnswerComes, history
  <2>. QED
    BY <1>1, <1>2, <2>1, NoteTells
<1>4. UNCHANGED <<asked, checking, up, sent, running, mine, stage, note, held, live, shows, late,
                  early, slow, ended, jobs, crashes, deaths>>
  BY DEF AnswerComes, chrome, market, history
<1>7. slow' \in SUBSET (Markets \ Chrome)
  BY <1>1, <1>4 DEF NTypeOK
<1>5. CASE m \notin Chrome /\ note[m] = "unsure"
  <2>1. /\ rec' = [rec EXCEPT ![m] = Outcome(m, "unsure")]
        /\ worker' = [worker EXCEPT ![m] = "reading"]
        /\ UNCHANGED <<job, steps, saves, cancels>>
    BY <1>5 DEF AnswerComes
  <2>2. Outcome(m, "unsure") = [rec[m] EXCEPT !.state = "unknown"]
    BY DEF Outcome
  <2>3. /\ [rec[m] EXCEPT !.state = "unknown"] \in Recs
        /\ [rec[m] EXCEPT !.state = "unknown"].state = "unknown"
        /\ [rec[m] EXCEPT !.state = "unknown"].action = rec[m].action
        /\ [rec[m] EXCEPT !.state = "unknown"].rev = rec[m].rev
        /\ [rec[m] EXCEPT !.state = "unknown"].link = rec[m].link
    BY <1>0 DEF Recs, Unsettled
  <2>4. /\ rec' \in [Markets -> Recs] /\ rec'[m].state = "unknown"
        /\ rec'[m].action = rec[m].action /\ rec'[m].rev = rec[m].rev /\ rec'[m].link = rec[m].link
        /\ worker' \in [Markets -> {"none", "ready", "asked", "waiting", "reading"}]
        /\ worker'[m] = "reading"
        /\ \A n \in Markets \ {m} : rec'[n] = rec[n] /\ worker'[n] = worker[n]
    BY <1>0, <2>1, <2>2, <2>3
  <2>5. NTypeOK'
    BY <1>1, <1>4, <2>1, <2>4 DEF NTypeOK, Recs
  <2>6. \A n \in Markets \ {m} : Same(n)
    BY <1>4, <2>1, <2>4 DEF Same
  <2>7. running[m] = NoOp
    BY <1>1, <1>3, <1>5 DEF Good, Ordered, AtWork
  <2>8. Ordered(m)' /\ Truthful(m)' /\ (m \notin early \cup slow => Once(m)')
    BY <1>1, <1>2, <1>3, <1>4, <1>5, <2>1, <2>4, <2>7 DEF Good, Ordered, Truthful, Once, Pending, AtWork, Resting
  <2>9. Api(m)'
    BY <1>1, <1>4, <2>1, <2>4, <2>7 DEF Good, Api, AtWork
  <2>. QED
    BY <1>4, <2>5, <2>6, <2>8, <2>9, OnlyHere DEF Good
<1>6. CASE ~(m \notin Chrome /\ note[m] = "unsure")
  <2>1. Apply(m, note[m])
    BY <1>6 DEF AnswerComes
  <2>. QED
    BY <1>0, <1>1, <1>2, <1>3, <1>4, <1>7, <2>1, AnswerStep
<1>. QED
  BY <1>5, <1>6

\* Chrome refuses an operation.
LEMMA RefusedStep ==
    ASSUME NInd, NEW m \in Markets, Refused(m)
    PROVE  NInd'
<1>1. Good(m) /\ NTypeOK /\ m \in sent
  BY DEF NInd, Refused
<1>2. m \notin mine /\ worker[m] \in {"asked", "waiting"} /\ rec[m].action \in Actions /\ ~AtWork(m)
  BY <1>1 DEF Good, Ordered, AtWork
<1>3. Tells(m, "refused")
  <2>1. slow' = slow
    BY DEF Refused, history
  <2>. QED
    BY <1>1, <1>2, <2>1 DEF Good, Once, Pending, InHand, Tells, Answers
<1>4. /\ UNCHANGED <<asked, checking, up, running, mine, stage, note, held, live, shows, late,
                     early, slow, ended, jobs, crashes, deaths>>
      /\ sent' = sent \ {m}
  BY DEF Refused, market, history
<1>5. CASE worker[m] = "asked"
  <2>1. /\ Apply(m, "refused") /\ note' \in [Markets -> Answers \cup {"none", "started"}]
        /\ slow' \in SUBSET (Markets \ Chrome)
    BY <1>1, <1>4, <1>5 DEF Refused, NTypeOK
  <2>. QED
    BY <1>1, <1>2, <1>3, <1>4, <2>1, AnswerStep
<1>6. CASE worker[m] # "asked"
  <2>1. UNCHANGED <<rec, job, worker, steps, saves, cancels>>
    BY <1>6 DEF Refused, process
  <2>2. NTypeOK'
    BY <1>1, <1>4, <2>1 DEF NTypeOK
  <2>3. \A n \in Markets \ {m} : Same(n)
    BY <1>4, <2>1 DEF Same
  <2>4. Good(m)'
    BY <1>1, <1>2, <1>4, <2>1 DEF Good, Ordered, Truthful, Once, Pending, Api, AtWork
  <2>. QED
    BY <2>2, <2>3, <2>4, OnlyHere
<1>. QED
  BY <1>5, <1>6

\* An API is read back.
LEMMA ReadsBackStep ==
    ASSUME NInd, NEW m \in Markets, ReadsBack(m)
    PROVE  NInd'
<1>1. Good(m) /\ NTypeOK /\ worker[m] = "reading"
  BY DEF NInd, ReadsBack
<1>2. rec[m].action \in Actions /\ ~AtWork(m) /\ m \notin sent
  BY <1>1 DEF Good, Ordered, AtWork
<1>3. PICK answer \in Answers : Reads(m, answer) /\ Misread(m, answer) /\ Apply(m, answer)
  BY DEF ReadsBack
<1>4. Tells(m, answer)
  BY <1>2, <1>3, ReadFacts
<1>5. /\ UNCHANGED <<asked, checking, up, sent, running, mine, stage, note, held, live, shows, late,
                     early, ended, jobs, crashes, deaths>>
      /\ note' \in [Markets -> Answers \cup {"none", "started"}]
      /\ slow' \in SUBSET (Markets \ Chrome) /\ \A n \in Markets \ {m} : n \in slow => n \in slow'
  BY <1>1, <1>3 DEF ReadsBack, Misread, chrome, market, NTypeOK
<1>. QED
  BY <1>1, <1>2, <1>3, <1>4, <1>5, AnswerStep

\* Chrome is asked for the result, and has one, or the wait is over.
LEMMA WaitStep ==
    ASSUME NInd, NEW m \in Markets, AnswerLate(m) \/ ResultComes(m) \/ GivesUp(m)
    PROVE  NInd'
<1>1. Good(m) /\ NTypeOK
  BY DEF NInd
<1>2. CASE AnswerLate(m)
  <2>1. /\ worker[m] = "asked" /\ m \in Chrome
        /\ worker' = [worker EXCEPT ![m] = "waiting"]
        /\ UNCHANGED <<rec, job, asked, steps, saves, cancels, checking, up, sent, running, mine, stage,
                       note, held, live, shows, late, early, slow, ended, jobs, crashes, deaths>>
    BY <1>2 DEF AnswerLate, chrome, market, history
  <2>2. /\ worker' \in [Markets -> {"none", "ready", "asked", "waiting", "reading"}]
        /\ worker'[m] = "waiting" /\ \A n \in Markets \ {m} : worker'[n] = worker[n]
    BY <1>1, <2>1 DEF NTypeOK
  <2>3. NTypeOK'
    BY <1>1, <2>1, <2>2 DEF NTypeOK
  <2>4. \A n \in Markets \ {m} : Same(n)
    BY <2>1, <2>2 DEF Same
  <2>5. Good(m)'
    BY <1>1, <2>1, <2>2 DEF Good, Ordered, Truthful, Once, Pending, Api, AtWork
  <2>. QED
    BY <2>3, <2>4, <2>5, OnlyHere
<1>3. CASE ResultComes(m)
  <2>1. worker[m] = "waiting" /\ ~Unfinished(m) /\ m \in Chrome /\ rec[m].action \in Actions
    BY <1>1, <1>3 DEF ResultComes, Good, Ordered
  <2>2. PICK answer \in Answers : Answered(m, answer) /\ Apply(m, answer)
    BY <1>3 DEF ResultComes
  <2>3. /\ m \notin sent /\ note' = [note EXCEPT ![m] = answer]
        /\ Recovers(m) => Reads(m, answer)
        /\ ~Recovers(m) => answer = note[m]
    BY <2>1, <2>2 DEF Answered
  <2>4. Tells(m, answer) /\ ~AtWork(m)
    <3>0. slow' = slow /\ Misread(m, answer)
      BY <1>3, <2>1 DEF ResultComes, history, Misread
    <3>1. CASE Recovers(m)
      BY <2>1, <2>3, <3>0, <3>1, ReadFacts DEF Recovers, AtWork
    <3>2. CASE ~Recovers(m)
      BY <2>1, <2>3, <3>0, <3>2, NoteTells
    <3>. QED
      BY <3>1, <3>2
  <2>5. /\ UNCHANGED <<asked, checking, up, sent, running, mine, stage, held, live, shows, late,
                       early, slow, ended, jobs, crashes, deaths>>
        /\ note' \in [Markets -> Answers \cup {"none", "started"}] /\ note'[m] = answer
        /\ \A n \in Markets \ {m} : note'[n] = note[n]
    BY <1>1, <1>3, <2>3 DEF ResultComes, chrome, market, history, NTypeOK
  <2>6. sent' = sent \ {m} /\ slow' \in SUBSET (Markets \ Chrome)
    BY <1>1, <2>3, <2>5 DEF NTypeOK
  <2>. QED
    BY <2>1, <2>2, <2>4, <2>5, <2>6, AnswerStep
<1>4. CASE GivesUp(m)
  <2>1. worker[m] = "waiting" /\ m \in Chrome /\ m \notin sent /\ Apply(m, "unsure")
    BY <1>1, <1>4 DEF GivesUp, Good, Ordered
  <2>2. Tells(m, "unsure")
    BY <1>4 DEF GivesUp, history, Tells, Answers, Landed
  <2>3. /\ UNCHANGED <<asked, checking, up, sent, running, mine, stage, note, held, live, shows, late,
                       early, slow, ended, jobs, crashes, deaths>>
        /\ note' \in [Markets -> Answers \cup {"none", "started"}]
    BY <1>1, <1>4 DEF GivesUp, chrome, market, history, NTypeOK
  <2>4. sent' = sent \ {m} /\ slow' \in SUBSET (Markets \ Chrome)
    BY <1>1, <2>1, <2>3 DEF NTypeOK
  <2>. QED
    BY <2>1, <2>2, <2>3, <2>4, AnswerStep
<1>. QED
  BY <1>2, <1>3, <1>4

\* A cancel, a check that starts, a draft that is deleted.
LEMMA QuietStep ==
    ASSUME NInd, NEW m \in Markets, Cancel(m) \/ CheckStarts(m) \/ DraftGone(m)
    PROVE  NInd'
<1>1. Good(m) /\ NTypeOK
  BY DEF NInd
<1>2. UNCHANGED <<rec, job, asked, worker, steps, saves, up, sent, running, mine, stage,
                  note, live, shows, early, slow, ended, jobs, crashes, deaths>>
  BY DEF Cancel, CheckStarts, DraftGone, process, chrome, market, history
<1>3. /\ checking' \in SUBSET Markets /\ cancels' \in SUBSET Markets
      /\ \A n \in Markets \ {m} : n \in checking' => n \in checking
      /\ m \in checking' => m \in checking \/ (worker[m] = "none" /\ rec[m].action \in Actions)
  <2>1. CASE Cancel(m)
    BY <1>1, <2>1 DEF Cancel, NTypeOK
  <2>2. CASE CheckStarts(m)
    <3>1. asked[m] \in Ops /\ worker[m] = "none"
      BY <1>1, <2>2 DEF CheckStarts, NTypeOK
    <3>2. rec[m].action \in Actions
      BY <1>1, <3>1 DEF Good, Ordered, Ops
    <3>. QED
      BY <1>1, <2>2, <3>1, <3>2 DEF CheckStarts, NTypeOK, process
  <2>3. CASE DraftGone(m)
    BY <1>1, <2>3 DEF DraftGone, NTypeOK, process
  <2>. QED
    BY <2>1, <2>2, <2>3
<1>4. /\ held' \in [Markets -> Revs \cup {NoRev}] /\ late' \in [Markets -> SUBSET Ops]
      /\ late'[m] \subseteq late[m] /\ held'[m] \in {held[m], NoRev}
      /\ \A n \in Markets \ {m} : late'[n] = late[n] /\ held'[n] = held[n]
  <2>1. CASE UNCHANGED market
    BY <1>1, <2>1 DEF NTypeOK, market
  <2>2. CASE DraftGone(m)
    <3>1. /\ held' = [held EXCEPT ![m] = NoRev]
          /\ late' = [late EXCEPT ![m] = {op \in @ : ~Draws(op)}]
      BY <2>2 DEF DraftGone
    <3>. QED
      BY <1>1, <3>1 DEF NTypeOK
  <2>. QED
    BY <2>1, <2>2 DEF Cancel, CheckStarts
<1>5. NTypeOK'
  BY <1>1, <1>2, <1>3, <1>4 DEF NTypeOK
<1>6. \A n \in Markets \ {m} : Same(n)
  BY <1>2, <1>3, <1>4 DEF Same
<1>7. Ordered(m)' /\ Truthful(m)'
  BY <1>1, <1>2, <1>3 DEF Good, Ordered, Truthful, AtWork
<1>8. m \notin early \cup slow => Once(m)'
  BY <1>1, <1>2, <1>4 DEF Good, Once, Pending, AtWork
<1>9. Api(m)'
  BY <1>1, <1>2, <1>4 DEF Good, Api, AtWork
<1>. QED
  BY <1>2, <1>5, <1>6, <1>7, <1>8, <1>9, OnlyHere DEF Good

\* A record is written anew while no job runs on its marketplace.
LEMMA RecordStep ==
    ASSUME NInd, NEW m \in Markets, NEW new \in Recs, rec' = [rec EXCEPT ![m] = new],
           new.action = rec[m].action, worker[m] = "none",
           asked' = asked, worker' = worker, steps' = steps, saves' = saves, cancels' = cancels,
           checking' \in SUBSET checking, up' = up, sent' = sent, running' = running,
           mine' = mine, stage' = stage, held' = held, live' = live, shows' = shows, late' = late,
           ended' = ended, jobs' = jobs, crashes' = crashes, deaths' = deaths,
           early' \in {early, early \cup {m}}, slow' \in {slow, slow \cup {m}},
           slow' \in SUBSET (Markets \ Chrome),
           m \notin Chrome /\ rec[m].link => new.link,
           m \notin early' \cup slow' /\ InHand(m) => new.state \in {"publishing", "unknown"},
           job' \in [Markets -> {"none", "active", "completed", "failed", "cancelled"}],
           \A n \in Markets \ {m} : job'[n] = job[n],
           note' \in [Markets -> Answers \cup {"none", "started"}],
           \A n \in Markets \ {m} : note'[n] = note[n],
           note'[m] = note[m] \/ (Tells(m, note'[m]) /\ ~AtWork(m)),
           m \notin ended /\ live[m] = 0 => new.state # "published",
           m \notin early' \cup slow' /\ live[m] > 0 => new.state \notin Resting,
           m \notin early' \cup slow' => \/ new.state \in {"publishing", "unknown"}
                              \/ ~(AtWork(m) /\ rec[m].action \in Posting /\ stage[m] = "started")
    PROVE  NInd'
<1>1. Good(m) /\ NTypeOK /\ rec \in [Markets -> Recs]
  BY DEF NInd, NTypeOK, Recs
<1>2. /\ rec' \in [Markets -> Recs] /\ rec'[m] = new
      /\ \A n \in Markets \ {m} : rec'[n] = rec[n]
  BY <1>1
<1>3. NTypeOK'
  BY <1>1, <1>2 DEF NTypeOK, Recs
<1>4. \A n \in Markets \ {m} : Same(n)
  BY <1>2 DEF Same
<1>5. m \notin sent
  BY <1>1 DEF Good, Ordered
<1>6. Ordered(m)'
  BY <1>1, <1>2, <1>5 DEF Good, Ordered, AtWork, Tells, Answers
<1>7. Truthful(m)'
  BY <1>1, <1>2 DEF Good, Truthful, AtWork, Tells
<1>8. m \notin early' \cup slow' => Once(m)'
  <2>1. SUFFICES ASSUME m \notin early' \cup slow' PROVE Once(m)'
    OBVIOUS
  <2>2. m \notin early \cup slow /\ Once(m) /\ Ordered(m)
    BY <1>1, <2>1 DEF Good
  <2>3. Pending(m)'
    BY <1>2, <1>5, <2>1, <2>2 DEF Once, Pending, InHand, AtWork, Tells
  <2>. QED
    BY <1>2, <1>5, <2>1, <2>2, <2>3 DEF Once, Ordered, AtWork, Tells, Landed
<1>9. Api(m)'
  <2>1. m \notin Chrome => running[m] = NoOp
    BY <1>1 DEF Good, Ordered
  <2>. QED
    BY <1>1, <1>2, <2>1 DEF Good, Api, AtWork, Tells
<1>. QED
  BY <1>3, <1>4, <1>6, <1>7, <1>8, <1>9, OnlyHere DEF Good

\* The states a record may be given.
LEMMA RecSet ==
    ASSUME NTypeOK, NEW m \in Markets, NEW state \in Unsettled \cup Resting \cup {"published"},
           NEW rev \in Revs \cup {NoRev}
    PROVE  /\ rec[m] \in Recs
           /\ [rec[m] EXCEPT !.state = state, !.rev = rev] \in Recs
           /\ [rec[m] EXCEPT !.state = state, !.rev = rev].state = state
           /\ [rec[m] EXCEPT !.state = state, !.rev = rev].action = rec[m].action
           /\ [rec[m] EXCEPT !.state = state] \in Recs
           /\ [rec[m] EXCEPT !.state = state].state = state
           /\ [rec[m] EXCEPT !.state = state].action = rec[m].action
           /\ [rec[m] EXCEPT !.state = state].link = rec[m].link
<1>1. rec[m] \in Recs
  BY DEF NTypeOK, Recs
<1>. QED
  BY <1>1 DEF Recs

\* The seller looks and resets, or marks.
LEMMA SellerStep ==
    ASSUME NInd, NEW m \in Markets, Reset(m) \/ MarkListed(m) \/ MarkNotListed(m)
    PROVE  NInd'
<1>0. Good(m) /\ NTypeOK /\ worker[m] = "none" /\ m \notin sent /\ live[m] \in Nat
  BY DEF NInd, NTypeOK, Reset, MarkListed, MarkNotListed, Good, Ordered
<1>1. /\ UNCHANGED <<job, asked, worker, steps, saves, cancels, checking, up, sent, running, mine, stage,
                     note, held, live, shows, late, ended, jobs, crashes, deaths>>
      /\ job' \in [Markets -> {"none", "active", "completed", "failed", "cancelled"}]
      /\ note' \in [Markets -> Answers \cup {"none", "started"}]
      /\ checking' \in SUBSET checking
      /\ \A n \in Markets \ {m} : job'[n] = job[n] /\ note'[n] = note[n]
      /\ slow' \in {slow, slow \cup {m}} /\ slow' \in SUBSET (Markets \ Chrome) /\ slow' = slow
  BY <1>0 DEF Reset, MarkListed, MarkNotListed, process, chrome, market, history, NTypeOK
<1>2. /\ RestingState(rec[m].link) \in Resting
      /\ RestingState(rec[m].link) \in Unsettled \cup Resting \cup {"published"}
      /\ NoRev \in Revs \cup {NoRev}
  BY DEF RestingState, Resting
<1>3. Looks(m) => /\ early' \in {early, early \cup {m}}
                  /\ m \notin early' =>
                       /\ ~(rec[m].action \in Posting /\ m \in mine /\ stage[m] = "started")
                       /\ ~InHand(m)
  BY <1>0 DEF Looks, StillAtIt, Good, Ordered
<1>4. "published" \notin Resting /\ ("published" \in Unsettled \cup Resting \cup {"published"})
  BY DEF Resting
<1>5. CASE /\ live[m] > 0 /\ rec' = [rec EXCEPT ![m].state = "published"]
           /\ early' \in {early, early \cup {m}}
  <2> DEFINE new == [rec[m] EXCEPT !.state = "published"]
  <2>1. rec' = [rec EXCEPT ![m] = new]
    BY <1>5
  <2>2. new \in Recs /\ new.state = "published" /\ new.action = rec[m].action /\ new.link = rec[m].link
    BY <1>0, <1>2, <1>4, RecSet
  <2> HIDE DEF new
  <2>3. /\ early' \in {early, early \cup {m}}
        /\ m \notin early' \cup slow' => ~(AtWork(m) /\ rec[m].action \in Posting /\ stage[m] = "started")
        /\ m \notin early' \cup slow' => ~InHand(m)
    BY <1>0, <1>1, <1>5 DEF Good, Ordered, Once, Pending, InHand, AtWork, Landed
  <2>5. /\ new \in Recs /\ rec' = [rec EXCEPT ![m] = new] /\ new.action = rec[m].action
        /\ worker[m] = "none" /\ asked' = asked /\ worker' = worker /\ steps' = steps
        /\ saves' = saves /\ cancels' = cancels
        /\ checking' \in SUBSET checking /\ up' = up /\ sent' = sent /\ running' = running
        /\ mine' = mine /\ stage' = stage /\ held' = held /\ live' = live /\ shows' = shows /\ late' = late
        /\ ended' = ended /\ jobs' = jobs /\ crashes' = crashes /\ deaths' = deaths
        /\ early' \in {early, early \cup {m}} /\ note'[m] = note[m]
    BY <1>0, <1>1, <2>1, <2>2, <2>3
  <2>6. /\ m \notin ended /\ live[m] = 0 => new.state # "published"
        /\ m \notin early' \cup slow' /\ live[m] > 0 => new.state \notin Resting
    BY <1>0, <1>2, <1>4, <1>5, <2>2, <2>3
  <2>. QED
    BY <1>1, <2>2, <2>3, <2>5, <2>6, RecordStep
<1>6. CASE /\ live[m] = 0 /\ Looks(m)
           /\ rec' = [rec EXCEPT ![m].state = RestingState(rec[m].link), ![m].rev = NoRev]
  <2> DEFINE new == [rec[m] EXCEPT !.state = RestingState(rec[m].link), !.rev = NoRev]
  <2>1. rec' = [rec EXCEPT ![m] = new]
    BY <1>6
  <2>2. /\ new \in Recs /\ new.state = RestingState(rec[m].link)
        /\ new.action = rec[m].action /\ new.link = rec[m].link
    <3>1. rec[m] \in Recs
      BY <1>0 DEF NTypeOK, Recs
    <3>. QED
      BY <1>2, <3>1 DEF Recs
  <2> HIDE DEF new
  <2>3. new.state # "published"
    BY <1>2, <1>4, <2>2
  <2>4. /\ early' \in {early, early \cup {m}}
        /\ m \notin early' \cup slow' => ~(AtWork(m) /\ rec[m].action \in Posting /\ stage[m] = "started")
        /\ m \notin early' \cup slow' => ~InHand(m)
    BY <1>3, <1>6 DEF AtWork
  <2>5. /\ new \in Recs /\ rec' = [rec EXCEPT ![m] = new] /\ new.action = rec[m].action
        /\ worker[m] = "none" /\ asked' = asked /\ worker' = worker /\ steps' = steps
        /\ saves' = saves /\ cancels' = cancels
        /\ checking' \in SUBSET checking /\ up' = up /\ sent' = sent /\ running' = running
        /\ mine' = mine /\ stage' = stage /\ held' = held /\ live' = live /\ shows' = shows /\ late' = late
        /\ ended' = ended /\ jobs' = jobs /\ crashes' = crashes /\ deaths' = deaths
        /\ early' \in {early, early \cup {m}} /\ note'[m] = note[m]
    BY <1>0, <1>1, <2>1, <2>2, <2>4
  <2>6. /\ m \notin ended /\ live[m] = 0 => new.state # "published"
        /\ m \notin early' \cup slow' /\ live[m] > 0 => new.state \notin Resting
    BY <1>0, <1>2, <1>4, <1>6, <2>2, <2>3
  <2>. QED
    BY <1>1, <2>2, <2>4, <2>5, <2>6, RecordStep
<1>7. CASE Reset(m)
  <2>1. CASE rec[m].action = "update"
    <3>1. live[m] > 0 /\ rec' = [rec EXCEPT ![m].state = "published"] /\ Looks(m)
      BY <1>7, <2>1 DEF Reset
    <3>. QED
      BY <1>3, <1>5, <3>1
  <2>2. CASE rec[m].action # "update"
    <3>1. /\ live[m] = 0 /\ Looks(m)
          /\ rec' = [rec EXCEPT ![m].state = RestingState(rec[m].link), ![m].rev = NoRev]
      BY <1>7, <2>2 DEF Reset
    <3>. QED
      BY <1>6, <3>1
  <2>. QED
    BY <2>1, <2>2
<1>8. CASE MarkListed(m)
  <2>1. early' = early
    BY <1>8 DEF MarkListed, history
  <2>. QED
    BY <1>5, <1>8, <2>1 DEF MarkListed
<1>9. CASE MarkNotListed(m)
  BY <1>6, <1>9 DEF MarkNotListed
<1>. QED
  BY <1>7, <1>8, <1>9

\* A check is answered.
LEMMA CheckedStep ==
    ASSUME NInd, NEW m \in Markets, Checked(m)
    PROVE  NInd'
<1>0. /\ Good(m) /\ NTypeOK /\ m \in checking /\ worker[m] = "none" /\ m \notin sent
      /\ rec[m].action \in Actions /\ rec[m] \in Recs /\ live[m] \in Nat
  BY DEF NInd, NTypeOK, Checked, Good, Ordered, Recs
<1>1. /\ UNCHANGED <<asked, worker, steps, saves, cancels, up, sent, running, mine, stage,
                     held, live, shows, late, early, ended, jobs, crashes, deaths>>
      /\ checking' = checking \ {m} /\ checking' \in SUBSET checking
      /\ early' \in {early, early \cup {m}}
      /\ slow' \in {slow, slow \cup {m}} /\ slow' \in SUBSET (Markets \ Chrome)
  BY <1>0 DEF Checked, Misread, process, chrome, market, NTypeOK
<1>2. CASE /\ m \notin Chrome \/ ~Unfinished(m)
           /\ \E answer \in Answers :
               /\ Answered(m, answer) /\ Misread(m, answer)
               /\ rec' = [rec EXCEPT ![m] = Outcome(m, answer)]
               /\ job' = [job EXCEPT ![m] = IF answer = "ok" /\ @ = "failed" THEN "completed" ELSE @]
  <2>1. PICK answer \in Answers :
          /\ Answered(m, answer) /\ Misread(m, answer)
          /\ rec' = [rec EXCEPT ![m] = Outcome(m, answer)]
          /\ job' = [job EXCEPT ![m] = IF answer = "ok" /\ @ = "failed" THEN "completed" ELSE @]
    BY <1>2
  <2>2. Tells(m, answer) /\ ~AtWork(m)
    <3>1. CASE m \notin Chrome
      <4>1. running[m] = NoOp /\ Reads(m, answer)
        BY <1>0, <2>1, <3>1 DEF Good, Ordered, Answered
      <4>. QED
        BY <1>0, <2>1, <4>1, ReadFacts DEF AtWork
    <3>2. CASE m \in Chrome /\ Recovers(m)
      <4>1. running[m] = NoOp /\ Reads(m, answer)
        BY <2>1, <3>2 DEF Answered, Recovers
      <4>. QED
        BY <1>0, <2>1, <4>1, ReadFacts DEF AtWork
    <3>3. CASE m \in Chrome /\ ~Recovers(m)
      <4>1. answer = note[m] /\ slow' = slow
        BY <2>1, <3>3 DEF Answered, Misread
      <4>. QED
        BY <1>0, <4>1, NoteTells
    <3>. QED
      BY <3>1, <3>2, <3>3
  <2>3. /\ note' \in [Markets -> Answers \cup {"none", "started"}]
        /\ note'[m] = note[m] \/ note'[m] = answer
        /\ \A n \in Markets \ {m} : note'[n] = note[n]
    BY <1>0, <2>1 DEF Answered, NTypeOK
  <2>4. /\ job' \in [Markets -> {"none", "active", "completed", "failed", "cancelled"}]
        /\ \A n \in Markets \ {m} : job'[n] = job[n]
    BY <1>0, <2>1 DEF NTypeOK
  <2> DEFINE new == Outcome(m, answer)
  <2>5. /\ new \in [state : {"unknown", "published"} \cup Resting, action : Actions,
                    rev : Revs \cup {NoRev}, prev : Revs \cup {NoRev}, link : BOOLEAN]
        /\ new.action = rec[m].action
        /\ new.state = "published" <=>
             \/ answer = "ok" /\ rec[m].action # "save_draft"
             \/ answer = "refused" /\ rec[m].action = "update"
        /\ new.state = "unknown" <=> answer = "unsure"
        /\ m \notin Chrome /\ rec[m].link => new.link
    BY <1>0, <2>1, <2>2, OutcomeFacts DEF Tells
  <2>6. rec' = [rec EXCEPT ![m] = new]
    BY <2>1
  <2> HIDE DEF new
  <2>7. new \in Recs
    BY <2>5 DEF Recs, Unsettled
  <2>8. m \notin ended /\ live[m] = 0 => new.state # "published"
    BY <1>0, <2>2, <2>5 DEF Tells, Good, Truthful
  <2>9. m \notin early' \cup slow' /\ live[m] > 0 => new.state \notin Resting
    <3>1. SUFFICES ASSUME m \notin early' \cup slow', m \notin early \cup slow, live[m] > 0 PROVE new.state \in {"unknown", "published"}
      BY <1>1 DEF Resting
    <3>2. rec[m].action # "save_draft" /\ (rec[m].action \in Posting => answer \in Landed)
      BY <1>0, <2>2, <3>1 DEF Good, Once, Pending, Tells
    <3>. QED
      BY <1>0, <2>2, <2>5, <3>2 DEF Actions, Posting, Landed, Tells, Answers
  <2>11. m \notin early' \cup slow' /\ InHand(m) => new.state \in {"publishing", "unknown"}
    BY <1>1, <2>2, <2>5 DEF Tells
  <2>10. /\ new \in Recs /\ rec' = [rec EXCEPT ![m] = new] /\ new.action = rec[m].action
         /\ worker[m] = "none" /\ asked' = asked /\ worker' = worker /\ steps' = steps
         /\ saves' = saves /\ cancels' = cancels
         /\ checking' \in SUBSET checking /\ up' = up /\ sent' = sent /\ running' = running
         /\ mine' = mine /\ stage' = stage /\ held' = held /\ live' = live /\ shows' = shows /\ late' = late
         /\ ended' = ended /\ jobs' = jobs /\ crashes' = crashes /\ deaths' = deaths
         /\ early' \in {early, early \cup {m}}
         /\ note'[m] = note[m] \/ (Tells(m, note'[m]) /\ ~AtWork(m))
    BY <1>0, <1>1, <2>2, <2>3, <2>5, <2>6, <2>7
  <2>. QED
    BY <1>1, <2>2, <2>3, <2>4, <2>5, <2>8, <2>9, <2>10, <2>11, RecordStep
<1>3. CASE /\ m \in Chrome /\ up /\ Unfinished(m)
           /\ rec' = [rec EXCEPT ![m].state = "unknown"]
           /\ UNCHANGED <<job, note, slow>>
  <2> DEFINE new == [rec[m] EXCEPT !.state = "unknown"]
  <2>1. rec' = [rec EXCEPT ![m] = new]
    BY <1>3
  <2>2. new \in Recs /\ new.state = "unknown" /\ new.action = rec[m].action /\ new.link = rec[m].link
    BY <1>0 DEF Recs, Unsettled
  <2> HIDE DEF new
  <2>3. /\ new \in Recs /\ rec' = [rec EXCEPT ![m] = new] /\ new.action = rec[m].action
        /\ worker[m] = "none" /\ asked' = asked /\ worker' = worker /\ steps' = steps
        /\ saves' = saves /\ cancels' = cancels
        /\ checking' \in SUBSET checking /\ up' = up /\ sent' = sent /\ running' = running
        /\ mine' = mine /\ stage' = stage /\ held' = held /\ live' = live /\ shows' = shows /\ late' = late
        /\ ended' = ended /\ jobs' = jobs /\ crashes' = crashes /\ deaths' = deaths
        /\ early' \in {early, early \cup {m}} /\ note'[m] = note[m]
    BY <1>0, <1>1, <1>3, <2>1, <2>2
  <2>4. /\ job' \in [Markets -> {"none", "active", "completed", "failed", "cancelled"}]
        /\ note' \in [Markets -> Answers \cup {"none", "started"}]
        /\ \A n \in Markets \ {m} : job'[n] = job[n] /\ note'[n] = note[n]
    BY <1>0, <1>3 DEF NTypeOK
  <2>5. new.state # "published" /\ new.state \notin Resting /\ new.state \in {"publishing", "unknown"}
    BY <2>2 DEF Resting
  <2>. QED
    BY <1>1, <2>2, <2>3, <2>4, <2>5, RecordStep
<1>4. CASE UNCHANGED <<rec, job, note, slow>>
  <2>1. NTypeOK'
    BY <1>0, <1>1, <1>4 DEF NTypeOK
  <2>2. \A n \in Markets \ {m} : Same(n)
    BY <1>1, <1>4 DEF Same
  <2>3. Good(m)'
    BY <1>0, <1>1, <1>4 DEF Good, Ordered, Truthful, Once, Pending, Api, AtWork
  <2>. QED
    BY <2>1, <2>2, <2>3, OnlyHere
<1>. QED
  BY <1>2, <1>3, <1>4 DEF Checked

\* An orphaned job is swept, or a listing ends.
LEMMA SweepStep ==
    ASSUME NInd, NEW m \in Markets, Sweep(m) \/ ListingEnds(m)
    PROVE  NInd'
<1>0. Good(m) /\ NTypeOK /\ rec[m] \in Recs /\ live[m] \in Nat
  BY DEF NInd, NTypeOK, Recs
<1>1. CASE Sweep(m)
  <2>1. PICK status \in {"failed", "cancelled"} : job' = [job EXCEPT ![m] = status]
    BY <1>1 DEF Sweep
  <2>2. /\ job' \in [Markets -> {"none", "active", "completed", "failed", "cancelled"}]
        /\ \A n \in Markets \ {m} : job'[n] = job[n]
    BY <1>0, <2>1 DEF NTypeOK
  <2>3. /\ worker[m] = "none" /\ rec' = [rec EXCEPT ![m] = Interrupted(m)]
        /\ UNCHANGED <<asked, worker, steps, saves, cancels, checking, up, sent, running, mine, stage, note,
                       held, live, shows, late, early, slow, ended, jobs, crashes, deaths>>
    BY <1>1 DEF Sweep, Orphan, process, chrome, market, history
  <2> DEFINE new == Interrupted(m)
  <2>4. /\ new \in Recs /\ new.action = rec[m].action /\ new.link = rec[m].link
        /\ new.state = "unknown" \/ new = rec[m]
    BY <1>0 DEF Interrupted, Recs, Unsettled
  <2>5. rec' = [rec EXCEPT ![m] = new]
    BY <2>3
  <2> HIDE DEF new
  <2>6. /\ new \in Recs /\ rec' = [rec EXCEPT ![m] = new] /\ new.action = rec[m].action
        /\ worker[m] = "none" /\ asked' = asked /\ worker' = worker /\ steps' = steps
        /\ saves' = saves /\ cancels' = cancels
        /\ checking' \in SUBSET checking /\ up' = up /\ sent' = sent /\ running' = running
        /\ mine' = mine /\ stage' = stage /\ held' = held /\ live' = live /\ shows' = shows /\ late' = late
        /\ ended' = ended /\ jobs' = jobs /\ crashes' = crashes /\ deaths' = deaths
        /\ early' \in {early, early \cup {m}} /\ note'[m] = note[m]
    BY <2>3, <2>4, <2>5
  <2>7. /\ note' \in [Markets -> Answers \cup {"none", "started"}]
        /\ \A n \in Markets \ {m} : note'[n] = note[n]
    BY <1>0, <2>3 DEF NTypeOK
  <2>8. /\ m \notin ended /\ live[m] = 0 => new.state # "published"
        /\ m \notin early \cup slow /\ live[m] > 0 => new.state \notin Resting
    BY <1>0, <2>4 DEF Good, Truthful, Once, Pending, Resting
  <2>9. m \notin early \cup slow => \/ new.state \in {"publishing", "unknown"}
                           \/ ~(AtWork(m) /\ rec[m].action \in Posting /\ stage[m] = "started")
    BY <1>0, <2>4 DEF Good, Ordered, Once, Pending, AtWork
  <2>10. early' = early /\ slow' = slow /\ slow' \in SUBSET (Markets \ Chrome)
    BY <1>0, <2>3 DEF NTypeOK
  <2>11. m \notin early \cup slow /\ InHand(m) => new.state \in {"publishing", "unknown"}
    BY <1>0, <2>4 DEF Good, Once, Pending, InHand
  <2>. QED
    BY <2>2, <2>4, <2>6, <2>7, <2>8, <2>9, <2>10, <2>11, RecordStep
<1>2. CASE ListingEnds(m)
  <2>1. /\ live' = [live EXCEPT ![m] = 0] /\ ended' = ended \cup {m}
        /\ UNCHANGED <<rec, job, asked, worker, steps, saves, cancels, checking, up, sent, running, mine,
                       stage, note, held, shows, late, early, slow, jobs, crashes, deaths>>
    BY <1>2 DEF ListingEnds, process, chrome
  <2>2. /\ live' \in [Markets -> Nat] /\ live'[m] = 0
        /\ \A n \in Markets \ {m} : live'[n] = live[n]
        /\ ended' \in SUBSET Markets
    BY <1>0, <2>1 DEF NTypeOK
  <2>3. NTypeOK'
    BY <1>0, <2>1, <2>2 DEF NTypeOK
  <2>4. \A n \in Markets \ {m} : Same(n)
    BY <2>1, <2>2 DEF Same
  <2>5. Ordered(m)' /\ Truthful(m)' /\ (m \notin early' \cup slow' => Once(m)')
    BY <1>0, <2>1, <2>2 DEF Good, Ordered, Truthful, Once, Pending, AtWork
  <2>6. Api(m)'
    BY <1>0, <2>1, <2>2 DEF Good, Api, AtWork
  <2>. QED
    BY <2>3, <2>4, <2>5, <2>6, OnlyHere DEF Good
<1>. QED
  BY <1>1, <1>2

\* Chrome takes an operation up.
LEMMA ClaimStep ==
    ASSUME NInd, NEW m \in Markets, Claim(m)
    PROVE  NInd'
<1>0. /\ Good(m) /\ NTypeOK /\ m \in sent
      /\ asked \in [Markets -> Ops \cup {NoOp}] /\ live[m] \in Nat
  BY DEF NInd, NTypeOK, Claim
<1>1. /\ sent' = sent \ {m} /\ running' = [running EXCEPT ![m] = asked[m]]
      /\ mine' = mine \cup {m} /\ stage' = [stage EXCEPT ![m] = "started"]
      /\ note' = [note EXCEPT ![m] = "started"]
      /\ UNCHANGED <<rec, job, asked, worker, steps, saves, cancels, checking, up, held, live, shows, late,
                     early, slow, ended, jobs, crashes, deaths>>
  BY DEF Claim, process, market, history
<1>2. /\ m \in Chrome /\ note[m] = "none" /\ m \notin mine
      /\ worker[m] \in {"asked", "waiting"} /\ rec[m].state = StepState(rec[m].action)
      /\ rec[m].action \in Actions /\ asked[m].action = rec[m].action
  BY <1>0 DEF Good, Ordered
<1>3. rec[m].action \in Posting => rec[m].state = "publishing"
  BY <1>2, StepStates
<1>4. /\ running' \in [Markets -> Ops \cup {NoOp}] /\ running'[m] = asked[m]
      /\ stage' \in [Markets -> Answers \cup {"started"}] /\ stage'[m] = "started"
      /\ note' \in [Markets -> Answers \cup {"none", "started"}] /\ note'[m] = "started"
      /\ sent' \in SUBSET Chrome /\ mine' \in SUBSET Markets
      /\ \A n \in Markets \ {m} :
           /\ running'[n] = running[n] /\ stage'[n] = stage[n] /\ note'[n] = note[n]
           /\ (n \in sent' <=> n \in sent) /\ (n \in mine' <=> n \in mine)
  BY <1>0, <1>1 DEF NTypeOK
<1>5. NTypeOK'
  BY <1>0, <1>1, <1>4 DEF NTypeOK
<1>6. \A n \in Markets \ {m} : Same(n)
  BY <1>1, <1>4 DEF Same
<1>7. Ordered(m)'
  BY <1>0, <1>1, <1>2, <1>4 DEF Good, Ordered, AtWork
<1>8. Truthful(m)'
  BY <1>0, <1>1, <1>4 DEF Good, Truthful, AtWork
<1>9. m \notin early \cup slow => Once(m)'
  BY <1>0, <1>1, <1>2, <1>3, <1>4 DEF Good, Once, Pending, AtWork
<1>10. Api(m)'
  BY <1>2 DEF Api
<1>. QED
  BY <1>1, <1>5, <1>6, <1>7, <1>8, <1>9, <1>10, OnlyHere DEF Good

\* What a write that lands does to what is live.
LEMMA LandsFacts ==
    ASSUME NTypeOK, NEW m \in Markets, NEW op \in Ops, Lands(m, op)
    PROVE  /\ held' \in [Markets -> Revs \cup {NoRev}]
           /\ live' \in [Markets -> Nat] /\ shows' \in [Markets -> Revs \cup {NoRev}]
           /\ \A n \in Markets \ {m} : live'[n] = live[n] /\ held'[n] = held[n]
           /\ \/ op.action \notin Posting /\ live'[m] = live[m]
              \/ op.action \in Posting /\ live'[m] = live[m] + 1
           /\ op.action = "update" => live[m] > 0
           /\ Left(m, op) \subseteq late[m]
<1>0. /\ held \in [Markets -> Revs \cup {NoRev}] /\ live \in [Markets -> Nat]
      /\ shows \in [Markets -> Revs \cup {NoRev}] /\ op.rev \in Revs
      /\ live[m] \in Nat /\ live[m] + 1 \in Nat /\ held[m] \in Revs \cup {NoRev}
  BY DEF NTypeOK, Ops
<1>1. Left(m, op) \subseteq late[m]
  BY DEF Left
<1>2. CASE op.action = "save_draft" /\ Saves(m, op)
  BY <1>0, <1>1, <1>2 DEF Saves, Posting
<1>3. ASSUME NEW r \in Revs \cup {NoRev}, GoesLive(m, r)
      PROVE  /\ live' \in [Markets -> Nat] /\ shows' \in [Markets -> Revs \cup {NoRev}]
             /\ live'[m] = live[m] + 1 /\ \A n \in Markets \ {m} : live'[n] = live[n]
  BY <1>0, <1>3 DEF GoesLive
<1>4. CASE op.action = "publish" /\ Publishes(m)
  BY <1>0, <1>1, <1>3, <1>4 DEF Publishes, Posting
<1>5. CASE op.action = "list" /\ Lists(m, op)
  BY <1>0, <1>1, <1>3, <1>5 DEF Lists, Posting
<1>6. CASE op.action = "update" /\ Updates(m, op)
  BY <1>0, <1>1, <1>6 DEF Updates, Posting
<1>. QED
  BY <1>2, <1>4, <1>5, <1>6 DEF Lands

\* An API's write never makes a second listing.
LEMMA ApiLands ==
    ASSUME NTypeOK, NEW m \in Markets, NEW op \in Ops, Lands(m, op), m \notin Chrome,
           live[m] <= 1, m \in TwoStep /\ live[m] > 0 => held[m] = NoRev /\ rec[m].link,
           op.action \in Posting => op.action = Posted(m),
           m \in TwoStep =>
             /\ op.action = "publish" => rec[m].link
             /\ op.action = "save_draft" /\ rec[m].link => op.link
    PROVE  /\ live'[m] <= 1
           /\ m \in TwoStep /\ live'[m] > 0 => held'[m] = NoRev /\ rec[m].link
<1>0. /\ held \in [Markets -> Revs \cup {NoRev}] /\ live \in [Markets -> Nat] /\ live[m] \in Nat
  BY DEF NTypeOK
<1>1. CASE op.action = "save_draft" /\ Saves(m, op)
  BY <1>0, <1>1 DEF Saves, Draws
<1>2. CASE op.action = "publish" /\ Publishes(m)
  BY <1>0, <1>2 DEF Publishes, GoesLive, Posting, Posted
<1>3. CASE op.action = "list" /\ Lists(m, op)
  BY <1>0, <1>3 DEF Lists, GoesLive, Posting, Posted
<1>4. CASE op.action = "update" /\ Updates(m, op)
  BY <1>0, <1>4 DEF Updates
<1>. QED
  BY <1>1, <1>2, <1>3, <1>4 DEF Lands

\* What an operation does to what is live, and to what is still in hand.
LEMMA DoesFacts ==
    ASSUME NTypeOK, NEW m \in Markets, NEW op \in Ops, NEW answer \in Answers, Does(m, op, answer)
    PROVE  /\ held' \in [Markets -> Revs \cup {NoRev}]
           /\ live' \in [Markets -> Nat] /\ shows' \in [Markets -> Revs \cup {NoRev}]
           /\ late' \in [Markets -> SUBSET Ops]
           /\ \A n \in Markets \ {m} : live'[n] = live[n] /\ held'[n] = held[n] /\ late'[n] = late[n]
           /\ \/ live'[m] = live[m]
              \/ /\ op.action \in Posting /\ answer \in Landed
                 /\ live'[m] = live[m] + 1 /\ late'[m] \subseteq late[m]
           /\ late'[m] \subseteq late[m] \cup {op}
           /\ op.action \in Posting /\ answer # "unsure" => late'[m] \subseteq late[m]
           /\ answer = "gone" => op.action = "publish" /\ m \in Chrome
           /\ Lands(m, op) \/ UNCHANGED <<held, live>>
           /\ live'[m] = 0 /\ answer = "ok" => op.action = "save_draft"
<1>0. /\ held \in [Markets -> Revs \cup {NoRev}] /\ live \in [Markets -> Nat]
      /\ shows \in [Markets -> Revs \cup {NoRev}] /\ late \in [Markets -> SUBSET Ops]
      /\ live[m] \in Nat /\ live[m] + 1 \in Nat /\ live[m] + 1 # 0
  BY DEF NTypeOK
<1>1. CASE Misses(m, op, answer)
  <2>1. answer \in {"refused", "unsure"} /\ UNCHANGED <<held, live, shows>>
    BY <1>1 DEF Misses
  <2>2. \/ late' = late
        \/ /\ late' = [late EXCEPT ![m] = @ \cup {op}]
           /\ op.action \in Posting => answer = "unsure"
    BY <1>1 DEF Misses, Open, Posting
  <2>. QED
    BY <1>0, <2>1, <2>2
<1>2. CASE Finds(m, op, answer)
  BY <1>0, <1>2 DEF Finds, market
<1>3. CASE Posts(m, op, answer)
  <2>1. /\ Lands(m, op) /\ late' = [late EXCEPT ![m] = Left(m, op)]
        /\ answer \in Landed \/ (answer = "refused" /\ op.action = "save_draft")
    BY <1>3 DEF Posts
  <2>2. /\ held' \in [Markets -> Revs \cup {NoRev}]
        /\ live' \in [Markets -> Nat] /\ shows' \in [Markets -> Revs \cup {NoRev}]
        /\ \A n \in Markets \ {m} : live'[n] = live[n] /\ held'[n] = held[n]
        /\ \/ op.action \notin Posting /\ live'[m] = live[m]
           \/ op.action \in Posting /\ live'[m] = live[m] + 1
        /\ op.action = "update" => live[m] > 0
        /\ Left(m, op) \subseteq late[m]
    BY <2>1, LandsFacts
  <2>3. /\ late' \in [Markets -> SUBSET Ops] /\ late'[m] \subseteq late[m]
        /\ \A n \in Markets \ {m} : late'[n] = late[n]
    BY <1>0, <2>1, <2>2
  <2>4. answer \in Landed \/ op.action \notin Posting
    BY <2>1 DEF Posting
  <2>5. answer # "gone"
    BY <2>1 DEF Landed
  <2>6. live'[m] = 0 => op.action = "save_draft"
    BY <1>0, <2>2 DEF Ops, Actions, Posting
  <2>. QED
    BY <2>1, <2>2, <2>3, <2>4, <2>5, <2>6
<1>. QED
  BY <1>1, <1>2, <1>3 DEF Does

\* An operation acts.
LEMMA ActStep ==
    ASSUME NInd, NEW m \in Markets, Act(m)
    PROVE  NInd'
<1>0. Good(m) /\ NTypeOK /\ live[m] \in Nat
  BY DEF NInd, NTypeOK
<1>1. /\ running[m] \in Ops /\ running[m] # NoOp /\ stage[m] = "started"
      /\ UNCHANGED <<rec, job, asked, worker, steps, saves, cancels, checking, up, sent, running, mine,
                     note, early, slow, ended, jobs, crashes, deaths>>
  BY <1>0 DEF Act, NTypeOK, process, history
<1>2. PICK answer \in Answers :
        Does(m, running[m], answer) /\ stage' = [stage EXCEPT ![m] = answer]
  BY DEF Act
<1>3. /\ held' \in [Markets -> Revs \cup {NoRev}]
      /\ live' \in [Markets -> Nat] /\ shows' \in [Markets -> Revs \cup {NoRev}]
      /\ late' \in [Markets -> SUBSET Ops]
      /\ \A n \in Markets \ {m} : live'[n] = live[n] /\ held'[n] = held[n] /\ late'[n] = late[n]
      /\ \/ live'[m] = live[m]
         \/ /\ running[m].action \in Posting /\ answer \in Landed
            /\ live'[m] = live[m] + 1 /\ late'[m] \subseteq late[m]
      /\ late'[m] \subseteq late[m] \cup {running[m]}
      /\ running[m].action \in Posting /\ answer # "unsure" => late'[m] \subseteq late[m]
      /\ answer = "gone" => running[m].action = "publish" /\ m \in Chrome
      /\ Lands(m, running[m]) \/ UNCHANGED <<held, live>>
      /\ live'[m] = 0 /\ answer = "ok" => running[m].action = "save_draft"
  BY <1>0, <1>1, <1>2, DoesFacts
<1>4. /\ stage' \in [Markets -> Answers \cup {"started"}] /\ stage'[m] = answer /\ answer # "started"
      /\ \A n \in Markets \ {m} : stage'[n] = stage[n]
  BY <1>0, <1>2 DEF NTypeOK, Answers
<1>5. NTypeOK'
  BY <1>0, <1>1, <1>3, <1>4 DEF NTypeOK
<1>6. \A n \in Markets \ {m} : Same(n)
  BY <1>1, <1>3, <1>4 DEF Same
<1>7. Ordered(m)'
  BY <1>0, <1>1, <1>3, <1>4 DEF Good, Ordered, AtWork
<1>8. Truthful(m)'
  <2>1. live'[m] = 0 => live[m] = 0
    BY <1>0, <1>3
  <2>2. m \in mine => running[m].action = rec[m].action
    BY <1>0, <1>1 DEF Good, Ordered, AtWork
  <2>. QED
    BY <1>0, <1>1, <1>3, <1>4, <2>1, <2>2 DEF Good, Truthful, AtWork
<1>9. m \notin early \cup slow => Once(m)'
  <2>1. SUFFICES ASSUME m \notin early \cup slow PROVE Once(m)'
    OBVIOUS
  <2>2. Once(m) /\ Ordered(m)
    BY <1>0, <2>1 DEF Good
  <2>3. CASE live'[m] = live[m]
    <3>1. live[m] > 0 /\ rec[m].action \in Posting => ~AtWork(m)
      BY <1>1, <2>2 DEF Once, Pending, Landed
    <3>2. Pending(m)'
      <4>1. SUFFICES ASSUME NEW op \in late'[m], op.action \in Posting
                     PROVE  /\ op = asked[m] /\ live[m] = 0
                            /\ rec[m].state \in {"publishing", "unknown"}
                            /\ worker[m] # "ready" /\ m \notin sent
                            /\ note[m] \in {"started", "unsure"}
                            /\ AtWork(m) => answer = "unsure"
        BY <1>1, <1>4, <2>3 DEF Pending, AtWork
      <4>2. CASE op \in late[m]
        BY <1>1, <2>2, <4>1, <4>2 DEF Once, Pending, AtWork
      <4>3. CASE op \notin late[m]
        <5>1. op = running[m] /\ answer = "unsure"
          BY <1>3, <4>1, <4>3
        <5>2. AtWork(m) /\ rec[m].state \in {"publishing", "unknown"}
          BY <1>1, <2>2, <4>1, <5>1 DEF Once, AtWork
        <5>3. asked[m] = op /\ note[m] = "started" /\ worker[m] # "ready" /\ m \notin sent
          BY <2>2, <5>1, <5>2 DEF Ordered
        <5>4. rec[m].action \in Posting
          BY <2>2, <4>1, <5>3 DEF Ordered
        <5>5. live[m] = 0
          BY <1>0, <3>1, <5>2, <5>4
        <5>. QED
          BY <5>1, <5>2, <5>3, <5>5
      <4>. QED
        BY <4>2, <4>3
    <3>. QED
      BY <1>1, <1>4, <2>2, <2>3, <3>1, <3>2 DEF Once, AtWork
  <2>4. CASE /\ running[m].action \in Posting /\ answer \in Landed
             /\ live'[m] = live[m] + 1 /\ late'[m] \subseteq late[m]
    <3>1. /\ AtWork(m) /\ rec[m].action = running[m].action /\ note[m] = "started"
          /\ m \notin sent /\ worker[m] # "ready"
      BY <1>1, <2>2, <2>4 DEF Once, Pending, Ordered, AtWork
    <3>2. rec[m].state \in {"publishing", "unknown"}
      BY <1>1, <2>2, <2>4, <3>1 DEF Once, Pending
    <3>3. live[m] = 0
      BY <1>0, <1>1, <2>2, <2>4, <3>1 DEF Once, Pending, Landed
    <3>4. \A op \in late'[m] : op.action \notin Posting
      BY <1>1, <2>2, <2>4, <3>1 DEF Once, Pending
    <3>. QED
      BY <1>1, <1>4, <2>4, <3>1, <3>2, <3>3, <3>4 DEF Once, Pending, AtWork, Resting, Posting
  <2>. QED
    BY <1>3, <2>3, <2>4
<1>10. Api(m)'
  <2>1. SUFFICES ASSUME m \notin Chrome PROVE Api(m)'
    BY DEF Api
  <2>2. /\ Api(m) /\ AtWork(m) /\ running[m] = asked[m]
    BY <1>0, <1>1, <2>1 DEF Good, Ordered, AtWork
  <2>3. /\ live'[m] <= 1
        /\ m \in TwoStep /\ live'[m] > 0 => held'[m] = NoRev /\ rec[m].link
    <3>1. CASE Lands(m, running[m])
      BY <1>0, <1>1, <2>1, <2>2, <3>1, ApiLands DEF Api
    <3>2. CASE UNCHANGED <<held, live>>
      BY <2>1, <2>2, <3>2 DEF Api
    <3>. QED
      BY <1>3, <3>1, <3>2
  <2>. QED
    BY <1>1, <1>3, <1>4, <2>1, <2>2, <2>3 DEF Api, AtWork
<1>. QED
  BY <1>1, <1>5, <1>6, <1>7, <1>8, <1>9, <1>10, OnlyHere DEF Good

\* A write lands after its answer.
LEMMA LandsLateStep ==
    ASSUME NInd, NEW m \in Markets, LandsLate(m)
    PROVE  NInd'
<1>0. Good(m) /\ NTypeOK /\ live[m] \in Nat /\ late \in [Markets -> SUBSET Ops]
  BY DEF NInd, NTypeOK
<1>1. UNCHANGED <<rec, job, asked, worker, steps, saves, cancels, checking, up, sent, running, mine,
                  stage, note, early, slow, ended, jobs, crashes, deaths>>
  BY DEF LandsLate, process, chrome, history
<1>2. PICK op \in late[m] :
        /\ op.action = "save_draft" /\ ~op.link => ~rec[m].link
        /\ Lands(m, op)
        /\ late' = [late EXCEPT ![m] = Left(m, op) \ {op}]
  BY DEF LandsLate
<1>3. op \in Ops
  BY <1>0, <1>2
<1>4. /\ held' \in [Markets -> Revs \cup {NoRev}]
      /\ live' \in [Markets -> Nat] /\ shows' \in [Markets -> Revs \cup {NoRev}]
      /\ \A n \in Markets \ {m} : live'[n] = live[n] /\ held'[n] = held[n]
      /\ \/ op.action \notin Posting /\ live'[m] = live[m]
         \/ op.action \in Posting /\ live'[m] = live[m] + 1
      /\ Left(m, op) \subseteq late[m]
  BY <1>0, <1>2, <1>3, LandsFacts
<1>5. /\ late' \in [Markets -> SUBSET Ops] /\ late'[m] \subseteq late[m] \ {op}
      /\ \A n \in Markets \ {m} : late'[n] = late[n]
  BY <1>0, <1>2, <1>4
<1>6. NTypeOK'
  BY <1>0, <1>1, <1>4, <1>5 DEF NTypeOK
<1>7. \A n \in Markets \ {m} : Same(n)
  BY <1>1, <1>4, <1>5 DEF Same
<1>8. Ordered(m)'
  BY <1>0, <1>1 DEF Good, Ordered, AtWork
<1>9. Truthful(m)'
  <2>1. live'[m] = 0 => live[m] = 0
    BY <1>0, <1>4
  <2>. QED
    BY <1>0, <1>1, <2>1 DEF Good, Truthful, AtWork
<1>10. m \notin early \cup slow => Once(m)'
  <2>1. SUFFICES ASSUME m \notin early \cup slow PROVE Once(m)'
    OBVIOUS
  <2>2. Once(m) /\ Ordered(m)
    BY <1>0, <2>1 DEF Good
  <2>3. CASE op.action \notin Posting /\ live'[m] = live[m]
    <3>1. Pending(m)'
      BY <1>1, <1>5, <2>2, <2>3 DEF Once, Pending, AtWork
    <3>. QED
      BY <1>1, <2>2, <2>3, <3>1 DEF Once, AtWork
  <2>4. CASE op.action \in Posting /\ live'[m] = live[m] + 1
    <3>1. /\ op = asked[m] /\ live[m] = 0
          /\ rec[m].state \in {"publishing", "unknown"}
          /\ worker[m] # "ready" /\ m \notin sent
          /\ note[m] \in {"started", "unsure"}
          /\ AtWork(m) => stage[m] = "unsure"
      BY <1>2, <2>2, <2>4 DEF Once, Pending
    <3>2. rec[m].action \in Posting
      BY <2>2, <2>4, <3>1 DEF Ordered
    <3>3. \A other \in late'[m] : other.action \notin Posting
      BY <1>5, <2>2, <3>1 DEF Once, Pending
    <3>. QED
      BY <1>1, <2>2, <2>4, <3>1, <3>2, <3>3 DEF Once, Pending, AtWork, Resting, Posting, Landed
  <2>. QED
    BY <1>4, <2>3, <2>4
<1>11. Api(m)'
  <2>1. SUFFICES ASSUME m \notin Chrome PROVE Api(m)'
    BY DEF Api
  <2>2. Api(m)
    BY <1>0 DEF Good
  <2>3. /\ live'[m] <= 1
        /\ m \in TwoStep /\ live'[m] > 0 => held'[m] = NoRev /\ rec[m].link
    BY <1>0, <1>2, <1>3, <2>1, <2>2, ApiLands DEF Api
  <2>. QED
    BY <1>1, <1>5, <2>1, <2>2, <2>3 DEF Api, AtWork
<1>. QED
  BY <1>1, <1>6, <1>7, <1>8, <1>9, <1>10, <1>11, OnlyHere DEF Good

\* An operation is over.
LEMMA DoneStep ==
    ASSUME NInd, NEW m \in Markets, Done(m)
    PROVE  NInd'
<1>0. Good(m) /\ NTypeOK
  BY DEF NInd
<1>1. /\ running[m] # NoOp /\ stage[m] # "started" /\ stage[m] \in Answers
      /\ running' = [running EXCEPT ![m] = NoOp] /\ mine' = mine \ {m}
      /\ note' = IF m \in mine THEN [note EXCEPT ![m] = stage[m]] ELSE note
      /\ UNCHANGED <<rec, job, asked, worker, steps, saves, cancels, checking, up, sent, stage,
                     held, live, shows, late, early, slow, ended, jobs, crashes, deaths>>
  BY <1>0 DEF Done, NTypeOK, process, market, history
<1>2. /\ running' \in [Markets -> Ops \cup {NoOp}] /\ running'[m] = NoOp
      /\ note' \in [Markets -> Answers \cup {"none", "started"}]
      /\ note'[m] = IF m \in mine THEN stage[m] ELSE note[m]
      /\ mine' \in SUBSET Markets
      /\ \A n \in Markets \ {m} :
           /\ running'[n] = running[n] /\ note'[n] = note[n] /\ (n \in mine' <=> n \in mine)
  BY <1>0, <1>1 DEF NTypeOK
<1>3. NTypeOK'
  BY <1>0, <1>1, <1>2 DEF NTypeOK
<1>4. \A n \in Markets \ {m} : Same(n)
  BY <1>1, <1>2 DEF Same
<1>5. Ordered(m)' /\ Truthful(m)'
  BY <1>0, <1>1, <1>2 DEF Good, Ordered, Truthful, AtWork
<1>6. m \notin early \cup slow => Once(m)'
  BY <1>0, <1>1, <1>2 DEF Good, Once, Pending, AtWork, Landed
<1>7. Api(m)'
  BY <1>0, <1>1, <1>2 DEF Good, Api, AtWork
<1>. QED
  BY <1>1, <1>3, <1>4, <1>5, <1>6, <1>7, OnlyHere DEF Good

\* Chrome or Studio stops, or the connection between them does.
LEMMA StopStep ==
    ASSUME NInd, Dies \/ Crash \/ Disconnects
    PROVE  NInd'
<1>0. NTypeOK /\ crashes \in 0..MaxCrashes /\ deaths \in 0..MaxDeaths
  BY DEF NInd, NTypeOK
<1>1. /\ UNCHANGED <<rec, job, asked, stage, note, held, live, shows, early, slow, ended, jobs>>
      /\ up' = FALSE /\ sent' = {} /\ checking' \in SUBSET checking
      /\ worker' \in [Markets -> {"none", "ready", "asked", "waiting", "reading"}]
      /\ steps' \in [Markets -> Seq(Actions)]
      /\ saves' \in SUBSET Markets /\ cancels' \in SUBSET Markets
      /\ running' \in [Markets -> Ops \cup {NoOp}] /\ mine' \in SUBSET mine
  <2>1. CASE Dies
    BY <1>0, <2>1 DEF Dies, NTypeOK, process
  <2>2. CASE Crash
    BY <1>0, <2>2, RowFacts DEF Crash, NTypeOK
  <2>3. CASE Disconnects
    BY <1>0, <2>3 DEF Disconnects, NTypeOK, process, market, history
  <2>. QED
    BY <2>1, <2>2, <2>3
<1>2. crashes' \in 0..MaxCrashes /\ deaths' \in 0..MaxDeaths
  <2>1. CASE Dies
    BY <1>0, <2>1, ListingConstants DEF Dies
  <2>2. CASE Crash
    BY <1>0, <2>2, ListingConstants DEF Crash
  <2>3. CASE Disconnects
    BY <1>0, <2>3 DEF Disconnects, history
  <2>. QED
    BY <2>1, <2>2, <2>3
<1>5. ASSUME NEW n \in Markets
      PROVE  /\ late'[n] \in SUBSET Ops
             /\ \/ late'[n] = late[n]
                \/ /\ UnderWay(n) /\ running'[n] = NoOp
                   /\ late'[n] = late[n] \cup {running[n]}
  <2>0. late \in [Markets -> SUBSET Ops] /\ running[n] \in Ops \cup {NoOp}
    BY <1>0 DEF NTypeOK
  <2>1. CASE Dies
    BY <2>0, <2>1 DEF Dies, CutOff, UnderWay
  <2>2. CASE Crash
    BY <2>0, <2>2 DEF Crash, CutOff, UnderWay
  <2>3. CASE Disconnects
    BY <2>0, <2>3 DEF Disconnects, market
  <2>. QED
    BY <2>1, <2>2, <2>3
<1>6. late' \in [Markets -> SUBSET Ops]
  <2>1. \E new : late' = [n \in Markets |-> new[n]]
    BY <1>0 DEF Dies, Crash, Disconnects, CutOff, market, NTypeOK
  <2>. QED
    BY <1>5, <2>1
<1>3. NTypeOK'
  BY <1>0, <1>1, <1>2, <1>6 DEF NTypeOK
<1>4. ASSUME NEW n \in Markets PROVE Good(n)'
  <2>0. Good(n)
    BY DEF NInd
  <2>1. \/ worker'[n] = "none"
        \/ worker'[n] = worker[n] /\ steps'[n] = steps[n]
    BY DEF Dies, Crash, Disconnects, process
  <2>2. /\ running'[n] = running[n] \/ running'[n] = NoOp
        /\ running'[n] # NoOp => (n \in mine' <=> n \in mine)
        /\ n \notin Chrome /\ worker'[n] # worker[n] => running'[n] = NoOp
        /\ running'[n] # NoOp /\ n \in mine' => worker'[n] = worker[n] \/ worker'[n] = "none"
    BY DEF Dies, Crash, Disconnects, chrome, process
  <2>3. Ordered(n)'
    BY <1>1, <2>0, <2>1, <2>2 DEF Good, Ordered, AtWork
  <2>4. Truthful(n)'
    BY <1>1, <2>0, <2>1, <2>2 DEF Good, Truthful, AtWork
  <2>5. n \notin early \cup slow => Once(n)'
    <3>1. SUFFICES ASSUME n \notin early \cup slow PROVE Once(n)'
      OBVIOUS
    <3>2. Once(n) /\ Ordered(n) /\ live[n] \in Nat
      BY <1>0, <2>0, <3>1 DEF Good, NTypeOK
    <3>3. CASE late'[n] = late[n]
      BY <1>1, <2>1, <2>2, <3>2, <3>3 DEF Once, Pending, AtWork
    <3>4. CASE /\ UnderWay(n) /\ running'[n] = NoOp
               /\ late'[n] = late[n] \cup {running[n]}
      <4>1. running[n] # NoOp /\ stage[n] = "started" /\ ~AtWork(n)'
        BY <3>4 DEF UnderWay, AtWork
      <4>2. running[n].action \in Posting =>
              /\ running[n] = asked[n] /\ live[n] = 0
              /\ rec[n].state \in {"publishing", "unknown"}
              /\ worker[n] # "ready" /\ n \notin sent /\ note[n] = "started"
        <5>1. SUFFICES ASSUME running[n].action \in Posting
                       PROVE  /\ running[n] = asked[n] /\ live[n] = 0
                              /\ rec[n].state \in {"publishing", "unknown"}
                              /\ worker[n] # "ready" /\ n \notin sent /\ note[n] = "started"
          OBVIOUS
        <5>2. AtWork(n)
          BY <3>2, <4>1, <5>1 DEF Once, AtWork
        <5>3. /\ running[n] = asked[n] /\ rec[n].action \in Posting
              /\ worker[n] # "ready" /\ n \notin sent /\ note[n] = "started"
          BY <3>2, <5>1, <5>2 DEF Ordered
        <5>. QED
          BY <3>2, <4>1, <5>1, <5>2, <5>3 DEF Once, Landed
      <4>3. Pending(n)'
        BY <1>1, <2>1, <3>2, <3>4, <4>1, <4>2 DEF Once, Pending
      <4>. QED
        BY <1>1, <2>1, <2>2, <3>2, <4>1, <4>3 DEF Once, AtWork
    <3>. QED
      BY <1>5, <3>3, <3>4
  <2>6. Api(n)'
    <3>1. SUFFICES ASSUME n \notin Chrome PROVE Api(n)'
      BY DEF Api
    <3>2. Api(n) /\ Ordered(n)
      BY <2>0 DEF Good
    <3>3. steps'[n] = steps[n] \/ (steps'[n] = <<>> /\ worker'[n] = "none")
      BY DEF Dies, Crash, Disconnects, process
    <3>4. <<>> # <<"list">> /\ <<>> # <<"publish">> /\ <<>> # <<"save_draft", "publish">>
      OBVIOUS
    <3>5. running[n] # NoOp => AtWork(n) /\ running[n] = asked[n]
      BY <3>1, <3>2 DEF Ordered, AtWork
    <3>6. AtWork(n)' => AtWork(n)
      BY <2>2 DEF AtWork
    <3>7. /\ \A op \in late'[n] : op.action \in Posting => op.action = Posted(n)
          /\ n \in TwoStep => \A op \in late'[n] : op.action = "publish" => rec[n].link
      BY <1>5, <3>1, <3>2, <3>5 DEF Api, UnderWay
    <3>. QED
      BY <1>1, <2>1, <3>1, <3>2, <3>3, <3>4, <3>6, <3>7 DEF Api
  <2>. QED
    BY <1>1, <2>3, <2>4, <2>5, <2>6 DEF Good
<1>. QED
  BY <1>3, <1>4 DEF NInd

\* Chrome is back: the jobs nothing runs any more are ended.
LEMMA ReconnectStep ==
    ASSUME NInd, Reconnects
    PROVE  NInd'
<1>0. NTypeOK /\ rec \in [Markets -> Recs]
  BY DEF NInd, NTypeOK, Recs
<1>1. /\ UNCHANGED <<asked, worker, steps, saves, cancels, checking, sent, running, mine, stage, note,
                     held, live, shows, late, early, slow, ended, jobs, crashes, deaths>>
      /\ up' = TRUE
      /\ job' = [m \in Markets |-> IF Orphan(m) THEN "failed" ELSE job[m]]
      /\ rec' = [m \in Markets |-> IF Orphan(m) THEN Interrupted(m) ELSE rec[m]]
  BY DEF Reconnects, process, chrome, market, history
<1>2. ASSUME NEW n \in Markets
      PROVE  /\ Interrupted(n) \in Recs /\ Interrupted(n).action = rec[n].action
             /\ Interrupted(n).state = "unknown" \/ Interrupted(n) = rec[n]
             /\ Interrupted(n).link = rec[n].link
  <2>1. rec[n] \in Recs
    BY <1>0
  <2>. QED
    BY <2>1 DEF Interrupted, Recs, Unsettled
<1>3. rec' \in [Markets -> Recs]
  BY <1>0, <1>1, <1>2
<1>4. job' \in [Markets -> {"none", "active", "completed", "failed", "cancelled"}]
  BY <1>0, <1>1 DEF NTypeOK
<1>5. NTypeOK'
  BY <1>0, <1>1, <1>3, <1>4 DEF NTypeOK, Recs
<1>6. ASSUME NEW n \in Markets PROVE Good(n)'
  <2>0. Good(n)
    BY DEF NInd
  <2>1. \/ rec'[n] = rec[n] /\ job'[n] = job[n]
        \/ /\ worker[n] = "none" /\ rec'[n].action = rec[n].action /\ rec'[n].link = rec[n].link
           /\ rec'[n].state = "unknown" \/ rec'[n] = rec[n]
    BY <1>1, <1>2 DEF Orphan
  <2>2. Ordered(n)'
    BY <1>1, <2>0, <2>1 DEF Good, Ordered, AtWork
  <2>3. Truthful(n)'
    BY <1>1, <2>0, <2>1 DEF Good, Truthful, AtWork
  <2>4. n \notin early \cup slow => Once(n)'
    BY <1>1, <2>0, <2>1 DEF Good, Once, Pending, AtWork, Resting
  <2>5. Api(n)'
    BY <1>1, <2>0, <2>1 DEF Good, Api, AtWork
  <2>. QED
    BY <1>1, <2>2, <2>3, <2>4, <2>5 DEF Good
<1>. QED
  BY <1>5, <1>6 DEF NInd

----------------------------------------------------------------------------
(* The theorems.                                                           *)

\* Nothing is listed at first.
LEMMA NInitial == NInit => NInd
<1>1. SUFFICES ASSUME NInit PROVE NInd
  OBVIOUS
<1>2. [state |-> "not_saved", action |-> "none", rev |-> NoRev, prev |-> NoRev, link |-> FALSE]
        \in [state : Unsettled \cup Resting \cup {"published"}, action : Actions \cup {"none"},
             rev : Revs \cup {NoRev}, prev : Revs \cup {NoRev}, link : BOOLEAN]
  BY DEF Resting
<1>3. NTypeOK
  BY <1>1, <1>2, RowFacts, ListingConstants DEF NInit, NTypeOK
<1>4. ASSUME NEW m \in Markets PROVE Good(m)
  BY <1>1 DEF NInit, Good, Ordered, Truthful, Once, Pending, Api, AtWork, NoOp, Posting
<1>. QED
  BY <1>3, <1>4 DEF NInd

\* Every step keeps the invariant.
LEMMA NInductive == NInd /\ [NNext]_nvars => NInd'
<1>1. SUFFICES ASSUME NInd, [NNext]_nvars PROVE NInd'
  OBVIOUS
<1>2. CASE UNCHANGED nvars
  <2>1. NTypeOK'
    BY <1>1, <1>2 DEF NInd, NTypeOK, nvars
  <2>2. ASSUME NEW m \in Markets PROVE Good(m)'
    BY <1>1, <1>2, LeftAlone DEF NInd, Same, nvars
  <2>. QED
    BY <2>1, <2>2 DEF NInd
<1>3. ASSUME NEW m \in Markets, Works(m) \/ Operates(m) PROVE NInd'
  BY <1>1, <1>3, RowFacts, StepBeginsStep, AnswerComesStep, RefusedStep, ReadsBackStep, WaitStep,
     ClaimStep, ActStep, DoneStep, StopsStep DEF Works, Operates
<1>. QED
  BY <1>1, <1>2, <1>3, StartStep, QuietStep, CheckedStep, SellerStep, SweepStep, StopStep,
     ReconnectStep, LandsLateStep DEF NNext

\* In every state the program reaches.
THEOREM NInvariant == NSpec => []NInd
<1>1. NInit => NInd
  BY NInitial
<1>2. NInd /\ [NNext]_nvars => NInd'
  BY NInductive
<1>. QED
  BY <1>1, <1>2, PTL DEF NSpec

\* Records, jobs, journals and markets hold what they may hold.
THEOREM ListingsTyped == NSpec => []NTypeOK
<1>1. NInd => NTypeOK
  BY DEF NInd
<1>. QED
  BY <1>1, NInvariant, PTL

\* An item never has two listings live on a marketplace, whatever was lost, cut
\* off or asked for again: a step that posts is not begun over a record that is
\* not settled, and nothing settles a record while its step may still post.
THEOREM ListedOnce == NSpec => []OneLive
<1>1. NInd => OneLive
  <2>1. SUFFICES ASSUME NInd, NEW m \in Markets \ (early \cap Chrome) PROVE live[m] <= 1
    BY DEF OneLive
  <2>2. slow \in SUBSET (Markets \ Chrome) /\ Good(m)
    BY <2>1 DEF NInd, NTypeOK
  <2>. QED
    BY <2>1, <2>2 DEF Good, Once, Api
<1>. QED
  BY <1>1, NInvariant, PTL

\* Where List can start again, nothing is live.
THEOREM RestsUnlisted == NSpec => []RestsWhenNothingIsLive
<1>1. ASSUME NInd PROVE RestsWhenNothingIsLive
  <2>1. \A m \in Markets : live[m] \in Nat
    BY <1>1 DEF NInd, NTypeOK
  <2>2. \A m \in Markets \ (early \cup slow) : live[m] > 0 => rec[m].state \notin Resting
    BY <1>1 DEF NInd, Good, Once, Pending
  <2>. QED
    BY <2>1, <2>2 DEF RestsWhenNothingIsLive
<1>. QED
  BY <1>1, NInvariant, PTL

\* A record that says "published" is right until that listing ended.
THEOREM PublishedIsLive == NSpec => []ListedIsLive
<1>1. ASSUME NInd PROVE ListedIsLive
  <2>1. \A m \in Markets : live[m] \in Nat
    BY <1>1 DEF NInd, NTypeOK
  <2>2. \A m \in Markets \ ended : live[m] = 0 => rec[m].state # "published"
    BY <1>1 DEF NInd, Good, Truthful
  <2>. QED
    BY <2>1, <2>2 DEF ListedIsLive
<1>. QED
  BY <1>1, NInvariant, PTL
=============================================================================
