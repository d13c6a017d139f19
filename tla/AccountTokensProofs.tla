-------------------------- MODULE AccountTokensProofs --------------------------
(***************************************************************************)
(* What holds of a marketplace's record, the grants behind it and its link *)
(* at the relay: for every number of accounts, sign-ins and callers.       *)
(***************************************************************************)
EXTENDS AccountTokens, TLAPS

----------------------------------------------------------------------------
(* The inductive invariant.                                                *)

\* A call under way is about a record it has read.
Asking == \A c \in Calls : call[c] # "idle" => was[c] \in Records

\* What was stored, or let go, came of a sign-in that is over: it is not
\* stored again.
Over ==
    /\ rec # NoRecord => waiter[rec.grant] = "ended"
    /\ \A s \in gone : s \in SignIns /\ waiter[s] = "ended"

\* The relay hears of a sign-in when Studio has asked for it, and finishes it
\* when the account is linked.
Told ==
    \A s \in SignIns :
        /\ waiter[s] \in {"none", "asking"} => session[s] = "none" /\ code[s] = "none"
        /\ code[s] = "none" => session[s] # "done"
        /\ session[s] = "done" \/ waiter[s] = "taken" => code[s] = "told"
        /\ code[s] # "none" => whose[s] \in Accounts

\* The account of a sign-in that Studio still waits for, or is about to store,
\* is linked once the relay got so far.
SignInLinked ==
    \A s \in SignIns :
        code[s] \in {"linked", "told"} /\ waiter[s] \in {"polling", "taken"} =>
            link[whose[s]] = "here" \/ whose[s] \in cut

AInd ==
    /\ AccountTypeOK /\ Asking /\ Over /\ Told
    /\ SignInLinked /\ ConnectedIsLinked /\ NeverRevived

----------------------------------------------------------------------------
(* Small facts.                                                            *)

\* A record names a sign-in and an account; none does not.
LEMMA RecordFields ==
    ASSUME NEW r \in Records
    PROVE  /\ r.grant \in SignIns /\ r.account \in Accounts /\ r.token \in Nat
           /\ r # NoRecord /\ r.grant # NoSignIn
           /\ [r EXCEPT !.token = @ + 1] \in Records
           /\ [r EXCEPT !.token = @ + 1].grant = r.grant
           /\ [r EXCEPT !.token = @ + 1].account = r.account
           /\ [r EXCEPT !.token = @ + 1].token = r.token + 1
BY TokenConstants DEF Records, NoRecord

\* No record names nothing.
LEMMA NoRecordFields ==
    NoRecord.grant = NoSignIn /\ NoRecord.account = NoAccount
BY DEF NoRecord

\* The record's grant is a sign-in, or none.
LEMMA RecGrant ==
    ASSUME AccountTypeOK
    PROVE  rec.grant \in SignIns \cup {NoSignIn}
BY RecordFields, NoRecordFields DEF AccountTypeOK

\* Cancelling ends at most the sign-in that was pending.
LEMMA CancelEnds ==
    ASSUME AccountTypeOK
    PROVE  /\ CancelledPending \in [SignIns -> {"none", "asking", "polling", "taken", "ended"}]
           /\ \A s \in SignIns :
                \/ CancelledPending[s] = waiter[s]
                \/ waiter[s] \in {"polling", "taken"} /\ CancelledPending[s] = "ended"
BY DEF AccountTypeOK, CancelledPending, Cancelled

----------------------------------------------------------------------------
(* Types.                                                                  *)

\* A step of a call keeps the types, and what calls know of their records.
LEMMA CallTypes ==
    ASSUME AccountTypeOK, Asking, NEW c \in Calls, Ask(c) \/ Proceeds(c)
    PROVE  AccountTypeOK' /\ Asking'
<1>0. c \in Calls /\ LoopOf[c] \in Loops
  BY DEF Loops
<1>1. CASE Ask(c)
  <2>1. rec \in Records
    BY <1>1 DEF Ask, AccountTypeOK
  <2>. QED
    BY <1>1, <2>1 DEF Ask, AccountTypeOK, Asking, market, relay, signing, past
<1>2. CASE NothingToDo(c)
  BY <1>2 DEF NothingToDo, AccountTypeOK, Asking, market, relay, signing, past
<1>3. CASE Send(c)
  <2>1. rec \in Records
    BY <1>3 DEF Send, AccountTypeOK
  <2>. QED
    BY <1>0, <1>3, <2>1 DEF Send, AccountTypeOK, Asking, market, relay, signing, past
<1>4. CASE Etsy(c)
  <2>1. was[c].grant \in SignIns
    BY <1>4, RecordFields DEF Etsy, Asking
  <2>2. current' \in [SignIns -> Nat] /\ dead' \in SUBSET SignIns
    BY <1>4, <2>1 DEF Etsy, AccountTypeOK
  <2>3. /\ call' \in [Calls -> {"idle", "waiting", "sent", "answered", "refused"}]
        /\ \A d \in Calls : call'[d] # "idle" => call[d] # "idle"
    BY <1>4 DEF Etsy, AccountTypeOK
  <2>. QED
    BY <1>4, <2>2, <2>3 DEF Etsy, AccountTypeOK, Asking, relay, signing, past
<1>5. CASE StoreTokens(c)
  <2>1. was[c] \in Records
    BY <1>5 DEF StoreTokens, Asking
  <2>2. [was[c] EXCEPT !.token = @ + 1] \in Records
    BY <2>1, RecordFields
  <2>3. rec' \in Records \cup {NoRecord} /\ stale' \in BOOLEAN
    BY <1>5, <2>2 DEF StoreTokens, AccountTypeOK
  <2>. QED
    BY <1>0, <1>5, <2>3
       DEF StoreTokens, Released, AccountTypeOK, Asking, market, relay, signing, past
<1>6. CASE RefreshFails(c)
  BY <1>0, <1>6 DEF RefreshFails, Released, AccountTypeOK, Asking, market, relay, signing, past
<1>7. CASE AnswerLost(c)
  <2>1. was[c].grant \in SignIns
    BY <1>7, RecordFields DEF AnswerLost, Asking
  <2>. QED
    BY <1>0, <1>7, <2>1 DEF AnswerLost, Released, AccountTypeOK, Asking, market, relay, signing
<1>. QED
  BY <1>1, <1>2, <1>3, <1>4, <1>5, <1>6, <1>7 DEF Proceeds

\* So does a step of a sign-in.
LEMMA SignInTypes ==
    ASSUME AccountTypeOK, Asking, Told, NEW s \in SignIns,
           \/ StartSignIn(s) \/ Started(s) \/ Link(s) \/ FinishSession(s) \/ FailSession(s)
           \/ TakeResult(s) \/ StoreResult(s) \/ SignInFails(s) \/ SessionExpires(s)
           \/ \E a \in Accounts : Exchange(s, a)
    PROVE  AccountTypeOK' /\ Asking'
<1>1. CASE StartSignIn(s)
  BY <1>1, CancelEnds DEF StartSignIn, AccountTypeOK, Asking, market, relay, asking, past
<1>2. CASE Started(s) \/ FailSession(s) \/ SessionExpires(s)
  BY <1>2 DEF Started, FailSession, SessionExpires, AccountTypeOK, Asking, market, signing,
              asking, past
<1>3. CASE Link(s) \/ FinishSession(s)
  BY <1>3 DEF Link, FinishSession, AccountTypeOK, Asking, market, signing, asking, past
<1>4. CASE TakeResult(s) \/ SignInFails(s)
  BY <1>4 DEF TakeResult, SignInFails, AccountTypeOK, Asking, market, asking, past
<1>5. CASE StoreResult(s)
  <2>1. whose[s] \in Accounts
    BY <1>5 DEF StoreResult, Told, AccountTypeOK
  <2>2. rec' \in Records
    BY <1>5, <2>1 DEF StoreResult, Records
  <2>. QED
    BY <1>5, <2>2, RecGrant DEF StoreResult, AccountTypeOK, Asking, market, relay, asking
<1>6. ASSUME NEW a \in Accounts, Exchange(s, a)
      PROVE  AccountTypeOK' /\ Asking'
  BY <1>6 DEF Exchange, AccountTypeOK, Asking, market, signing, asking, past
<1>. QED
  BY <1>1, <1>2, <1>3, <1>4, <1>5, <1>6

\* And so does every step.
LEMMA Types ==
    ASSUME AccountTypeOK, Asking, Told, [ANext]_avars
    PROVE  AccountTypeOK' /\ Asking'
<1>1. ASSUME NEW s \in SignIns,
             \/ StartSignIn(s) \/ Started(s) \/ Link(s) \/ FinishSession(s) \/ FailSession(s)
             \/ TakeResult(s) \/ StoreResult(s) \/ SignInFails(s) \/ SessionExpires(s)
             \/ \E a \in Accounts : Exchange(s, a)
      PROVE  AccountTypeOK' /\ Asking'
  BY <1>1, SignInTypes
<1>2. CASE CancelSignIn \/ Disconnect
  <2>1. rec # NoRecord => rec.account \in Accounts
    BY RecordFields DEF AccountTypeOK
  <2>. QED
    BY <1>2, <2>1, CancelEnds
       DEF CancelSignIn, Disconnect, AccountTypeOK, Asking, market, relay, asking, past
<1>3. CASE Unlink
  <2>1. cut' \in SUBSET Accounts
    BY <1>3 DEF Unlink, AccountTypeOK
  <2>. QED
    BY <1>3, <2>1 DEF Unlink, AccountTypeOK, Asking, market, signing, asking
<1>4. CASE Forget
  BY <1>4, RecGrant DEF Forget, AccountTypeOK, Asking, market, relay, signing, asking
<1>5. ASSUME NEW a \in Accounts, Moved(a) \/ Closed(a)
      PROVE  AccountTypeOK' /\ Asking'
  BY <1>5 DEF Moved, Closed, AccountTypeOK, Asking, market, signing, asking
<1>6. ASSUME NEW a \in Accounts, ForgetClosed(a)
      PROVE  AccountTypeOK' /\ Asking'
  <2>1. rec \in Records
    BY <1>6, NoRecordFields, TokenConstants DEF ForgetClosed, AccountTypeOK
  <2>2. rec.grant \in SignIns
    BY <2>1, RecordFields
  <2>. QED
    BY <1>6, <2>2 DEF ForgetClosed, AccountTypeOK, Asking, market, relay, signing, asking
<1>7. CASE GoesStale
  BY <1>7 DEF GoesStale, AccountTypeOK, Asking, market, relay, signing, asking, past
<1>8. ASSUME NEW c \in Calls, Ask(c) \/ Proceeds(c)
      PROVE  AccountTypeOK' /\ Asking'
  BY <1>8, CallTypes
<1>9. CASE Crash
  <2>1. \A c \in Calls : call[c] \in {"sent", "answered"} => was[c].grant \in SignIns
    BY RecordFields DEF Asking
  <2>2. lost' \in SUBSET SignIns
    BY <1>9, <2>1 DEF Crash, AccountTypeOK
  <2>. QED
    BY <1>9, <2>2 DEF Crash, AccountTypeOK, Asking, market, relay
<1>10. CASE UNCHANGED avars
  BY <1>10 DEF avars, AccountTypeOK, Asking
<1>. QED
  BY <1>1, <1>2, <1>3, <1>4, <1>5, <1>6, <1>7, <1>8, <1>9, <1>10 DEF ANext

----------------------------------------------------------------------------
(* What was given up does not come back.                                   *)

\* Sign-ins only ever go forward.
LEMMA SignInsEnd ==
    ASSUME AccountTypeOK, [ANext]_avars
    PROVE  \A s \in SignIns : waiter[s] = "ended" => waiter'[s] = "ended"
<1>1. ASSUME NEW s \in SignIns,
             \/ StartSignIn(s) \/ Started(s) \/ Link(s) \/ FinishSession(s) \/ FailSession(s)
             \/ TakeResult(s) \/ StoreResult(s) \/ SignInFails(s) \/ SessionExpires(s)
             \/ \E a \in Accounts : Exchange(s, a)
      PROVE  \A t \in SignIns : waiter[t] = "ended" => waiter'[t] = "ended"
  <2>1. CASE StartSignIn(s)
    BY <2>1, CancelEnds DEF StartSignIn
  <2>2. CASE Started(s) \/ TakeResult(s) \/ StoreResult(s) \/ SignInFails(s)
    BY <2>2 DEF Started, TakeResult, StoreResult, SignInFails, AccountTypeOK
  <2>. QED
    BY <1>1, <2>1, <2>2
       DEF Link, FinishSession, FailSession, SessionExpires, Exchange, signing
<1>2. CASE CancelSignIn \/ Disconnect
  BY <1>2, CancelEnds DEF CancelSignIn, Disconnect
<1>3. CASE Crash
  BY <1>3 DEF Crash
<1>4. ASSUME UNCHANGED waiter
      PROVE  \A s \in SignIns : waiter[s] = "ended" => waiter'[s] = "ended"
  BY <1>4
<1>. QED
  BY <1>1, <1>2, <1>3, <1>4
     DEF ANext, Proceeds, Unlink, Forget, Moved, Closed, ForgetClosed, GoesStale, Ask, NothingToDo,
         Send, Etsy, StoreTokens, RefreshFails, AnswerLost, signing, avars

\* Where a step leaves the record: as it was, gone, a sign-in's, or refreshed.
LEMMA RecordMoves ==
    ASSUME AccountTypeOK, Asking, [ANext]_avars
    PROVE  \/ UNCHANGED <<rec, gone>>
           \/ rec' = NoRecord /\ rec # NoRecord /\ gone' = gone \cup {rec.grant}
           \/ \E s \in SignIns : StoreResult(s)
           \/ /\ rec # NoRecord /\ UNCHANGED gone
              /\ rec'.grant = rec.grant /\ rec'.account = rec.account
<1>1. CASE Forget
  <2>1. CASE rec = NoRecord
    BY <1>1, <2>1, NoRecordFields DEF Forget
  <2>2. CASE rec # NoRecord
    BY <1>1, <2>2, RecordFields DEF Forget, AccountTypeOK
  <2>. QED
    BY <2>1, <2>2
<1>2. ASSUME NEW a \in Accounts, ForgetClosed(a)
      PROVE  rec' = NoRecord /\ rec # NoRecord /\ gone' = gone \cup {rec.grant}
  BY <1>2, NoRecordFields, TokenConstants DEF ForgetClosed
<1>3. ASSUME NEW c \in Calls, StoreTokens(c)
      PROVE  \/ UNCHANGED <<rec, gone>>
             \/ /\ rec # NoRecord /\ UNCHANGED gone
                /\ rec'.grant = rec.grant /\ rec'.account = rec.account
  <2>1. was[c] \in Records
    BY <1>3 DEF StoreTokens, Asking
  <2>. QED
    BY <1>3, <2>1, RecordFields DEF StoreTokens, past
<1>4. CASE UNCHANGED <<rec, gone>>
  BY <1>4
<1>. QED
  BY <1>1, <1>2, <1>3, <1>4
     DEF ANext, Proceeds, StartSignIn, Started, Link, FinishSession, FailSession, TakeResult,
         SignInFails, SessionExpires, Exchange, CancelSignIn, Disconnect, Unlink, Moved, Closed,
         GoesStale, Ask, NothingToDo, Send, Etsy, RefreshFails, AnswerLost, Crash, past, avars

\* What is stored or given up came of a sign-in that is over.
LEMMA OverStep ==
    ASSUME AccountTypeOK, Asking, Over, NeverRevived, [ANext]_avars
    PROVE  Over' /\ NeverRevived'
<1>. USE DEF Over, NeverRevived
<1>1. CASE UNCHANGED <<rec, gone>>
  <2>1. rec # NoRecord => rec.grant \in SignIns
    BY RecordFields DEF AccountTypeOK
  <2>. QED
    BY <1>1, <2>1, SignInsEnd
<1>2. CASE rec' = NoRecord /\ rec # NoRecord /\ gone' = gone \cup {rec.grant}
  <2>1. rec.grant \in SignIns /\ NoSignIn \notin gone
    BY <1>2, RecordFields, TokenConstants DEF AccountTypeOK
  <2>2. rec'.grant = NoSignIn /\ NoSignIn # rec.grant
    BY <1>2, <2>1, NoRecordFields, TokenConstants
  <2>. QED
    BY <1>2, <2>1, <2>2, SignInsEnd
<1>3. ASSUME NEW s \in SignIns, StoreResult(s)
      PROVE  Over' /\ NeverRevived'
  <2>1. waiter[s] = "taken" /\ waiter'[s] = "ended" /\ rec'.grant = s
    BY <1>3 DEF StoreResult, AccountTypeOK
  <2>2. s \notin gone /\ rec.grant # s
    BY <2>1, NoRecordFields, TokenConstants
  <2>3. \A t \in gone' : t \in SignIns /\ (t \in gone \/ (t = rec.grant /\ rec # NoRecord))
    BY <1>3, RecGrant, NoRecordFields DEF StoreResult
  <2>. QED
    BY <2>1, <2>2, <2>3, SignInsEnd
<1>4. CASE /\ rec # NoRecord /\ UNCHANGED gone
           /\ rec'.grant = rec.grant /\ rec'.account = rec.account
  <2>1. rec.grant \in SignIns
    BY <1>4, RecordFields DEF AccountTypeOK
  <2>. QED
    BY <1>4, <2>1, SignInsEnd
<1>. QED
  BY <1>1, <1>2, <1>3, <1>4, RecordMoves

----------------------------------------------------------------------------
(* A connected account is linked.                                          *)

\* What the relay is told of a sign-in, in order.
LEMMA ToldStep ==
    ASSUME AccountTypeOK, Told, [ANext]_avars
    PROVE  Told'
<1>. USE DEF Told
<1>1. ASSUME NEW s \in SignIns,
             \/ StartSignIn(s) \/ Started(s) \/ Link(s) \/ FinishSession(s) \/ FailSession(s)
             \/ TakeResult(s) \/ StoreResult(s) \/ SignInFails(s) \/ SessionExpires(s)
             \/ \E a \in Accounts : Exchange(s, a)
      PROVE  Told'
  <2>1. CASE StartSignIn(s)
    BY <2>1, CancelEnds DEF StartSignIn, relay
  <2>2. CASE Started(s)
    BY <2>2 DEF Started, AccountTypeOK
  <2>3. CASE Link(s)
    BY <2>3 DEF Link, AccountTypeOK, signing
  <2>4. CASE FinishSession(s)
    BY <2>4 DEF FinishSession, AccountTypeOK, signing
  <2>5. CASE FailSession(s) \/ SessionExpires(s)
    BY <2>5 DEF FailSession, SessionExpires, AccountTypeOK, signing
  <2>6. CASE TakeResult(s)
    BY <2>6 DEF TakeResult, AccountTypeOK
  <2>7. CASE StoreResult(s)
    BY <2>7 DEF StoreResult, AccountTypeOK, relay
  <2>8. CASE SignInFails(s)
    BY <2>8 DEF SignInFails, AccountTypeOK
  <2>9. ASSUME NEW a \in Accounts, Exchange(s, a)
        PROVE  Told'
    BY <2>9 DEF Exchange, AccountTypeOK, signing
  <2>. QED
    BY <1>1, <2>1, <2>2, <2>3, <2>4, <2>5, <2>6, <2>7, <2>8, <2>9
<1>2. CASE CancelSignIn \/ Disconnect
  BY <1>2, CancelEnds DEF CancelSignIn, Disconnect, relay
<1>3. CASE Crash
  BY <1>3 DEF Crash, relay, AccountTypeOK
<1>4. CASE UNCHANGED <<session, code, whose, waiter>>
  BY <1>4
<1>. QED
  BY <1>1, <1>2, <1>3, <1>4
     DEF ANext, Proceeds, Unlink, Forget, Moved, Closed, ForgetClosed, GoesStale, Ask, NothingToDo,
         Send, Etsy, StoreTokens, RefreshFails, AnswerLost, signing, relay, avars

\* The account of a sign-in under way stays linked, or known to be cut.
LEMMA LinkedStep ==
    ASSUME AccountTypeOK, Told, SignInLinked, [ANext]_avars
    PROVE  SignInLinked'
<1>. USE DEF SignInLinked
<1>1. ASSUME NEW s \in SignIns,
             \/ StartSignIn(s) \/ Started(s) \/ Link(s) \/ FinishSession(s) \/ FailSession(s)
             \/ TakeResult(s) \/ StoreResult(s) \/ SignInFails(s) \/ SessionExpires(s)
             \/ \E a \in Accounts : Exchange(s, a)
      PROVE  SignInLinked'
  <2>1. CASE StartSignIn(s)
    BY <2>1, CancelEnds DEF StartSignIn, relay, past, AccountTypeOK
  <2>2. CASE Started(s)
    BY <2>2 DEF Started, AccountTypeOK, Told, past
  <2>3. CASE Link(s)
    <3>1. whose[s] \in Accounts
      BY <2>3 DEF Link, Told
    <3>2. link'[whose[s]] = "here" /\ \A a \in Accounts \ {whose[s]} : link'[a] = link[a]
      BY <2>3, <3>1 DEF Link, AccountTypeOK
    <3>3. \A t \in SignIns : code'[t] \in {"linked", "told"} => t = s \/ code[t] = code'[t]
      BY <2>3 DEF Link, AccountTypeOK
    <3>4. \A t \in SignIns : code[t] # "none" => whose[t] \in Accounts
      BY DEF Told
    <3>. QED
      BY <2>3, <3>1, <3>2, <3>3, <3>4 DEF Link, signing
  <2>4. CASE FinishSession(s)
    BY <2>4 DEF FinishSession, AccountTypeOK, signing, past
  <2>5. CASE FailSession(s) \/ SessionExpires(s)
    BY <2>5 DEF FailSession, SessionExpires, signing, past
  <2>6. CASE TakeResult(s)
    BY <2>6 DEF TakeResult, AccountTypeOK, past
  <2>7. CASE StoreResult(s)
    BY <2>7 DEF StoreResult, AccountTypeOK, relay
  <2>8. CASE SignInFails(s)
    BY <2>8 DEF SignInFails, AccountTypeOK, past
  <2>9. ASSUME NEW a \in Accounts, Exchange(s, a)
        PROVE  SignInLinked'
    BY <2>9 DEF Exchange, AccountTypeOK, signing, past
  <2>. QED
    BY <1>1, <2>1, <2>2, <2>3, <2>4, <2>5, <2>6, <2>7, <2>8, <2>9
<1>2. CASE CancelSignIn \/ Disconnect
  BY <1>2, CancelEnds DEF CancelSignIn, Disconnect, relay, past
<1>3. CASE Unlink
  <2>1. \A a \in Accounts \ {leaving} : link'[a] = link[a]
    BY <1>3 DEF Unlink, AccountTypeOK
  <2>2. \A t \in SignIns : whose[t] = leaving /\ waiter[t] \in {"polling", "taken"} => whose[t] \in cut'
    BY <1>3 DEF Unlink
  <2>3. \A t \in SignIns : code[t] # "none" => whose[t] \in Accounts
    BY DEF Told
  <2>. QED
    BY <1>3, <2>1, <2>2, <2>3 DEF Unlink, signing
<1>4. ASSUME NEW a \in Accounts, Moved(a) \/ Closed(a)
      PROVE  SignInLinked'
  <2>1. \A b \in Accounts \ {a} : link'[b] = link[b]
    BY <1>4 DEF Moved, Closed, AccountTypeOK
  <2>2. cut' = cut \cup {a} /\ UNCHANGED <<code, whose, waiter>>
    BY <1>4 DEF Moved, Closed, signing
  <2>3. \A t \in SignIns : code[t] # "none" => whose[t] \in Accounts
    BY DEF Told
  <2>. QED
    BY <2>1, <2>2, <2>3
<1>5. CASE Crash
  BY <1>5 DEF Crash, relay, AccountTypeOK
<1>6. CASE UNCHANGED <<code, whose, waiter, link, cut>>
  BY <1>6
<1>. QED
  BY <1>1, <1>2, <1>3, <1>4, <1>5, <1>6
     DEF ANext, Proceeds, Forget, ForgetClosed, GoesStale, Ask, NothingToDo,
         Send, Etsy, StoreTokens, RefreshFails, AnswerLost, signing, relay, past, avars

\* The record's account stays linked, or known to be cut, until it goes.
LEMMA ConnectedStep ==
    ASSUME AInd, [ANext]_avars
    PROVE  ConnectedIsLinked'
<1>. USE DEF AInd, ConnectedIsLinked
<1>. AccountTypeOK /\ AccountTypeOK' /\ Asking
  BY Types
<1>0. rec # NoRecord => rec.account \in Accounts
  BY RecordFields DEF AccountTypeOK
<1>1. ASSUME NEW s \in SignIns, StoreResult(s)
      PROVE  ConnectedIsLinked'
  <2>1. link[whose[s]] = "here" \/ whose[s] \in cut
    BY <1>1 DEF StoreResult, Told, SignInLinked
  <2>2. rec'.account = whose[s]
    BY <1>1 DEF StoreResult
  <2>. QED
    BY <1>1, <2>1, <2>2 DEF StoreResult, relay
<1>2. ASSUME NEW s \in SignIns, Link(s)
      PROVE  ConnectedIsLinked'
  <2>1. whose[s] \in Accounts
    BY <1>2 DEF Link, Told
  <2>2. link'[whose[s]] = "here" /\ \A a \in Accounts \ {whose[s]} : link'[a] = link[a]
    BY <1>2, <2>1 DEF Link, AccountTypeOK
  <2>. QED
    BY <1>0, <1>2, <2>1, <2>2 DEF Link
<1>3. CASE Disconnect
  BY <1>3 DEF Disconnect, relay, past, AccountTypeOK
<1>4. CASE Unlink
  <2>1. \A a \in Accounts \ {leaving} : link'[a] = link[a]
    BY <1>4 DEF Unlink, AccountTypeOK
  <2>. QED
    BY <1>0, <1>4, <2>1 DEF Unlink
<1>5. CASE rec' = NoRecord
  BY <1>5
<1>6. ASSUME NEW a \in Accounts, Moved(a) \/ Closed(a)
      PROVE  ConnectedIsLinked'
  <2>1. \A b \in Accounts \ {a} : link'[b] = link[b]
    BY <1>6 DEF Moved, Closed, AccountTypeOK
  <2>. QED
    BY <1>0, <1>6, <2>1 DEF Moved, Closed
<1>7. CASE Crash
  <2>1. rec # NoRecord => rec.account # NoAccount
    BY <1>0, TokenConstants
  <2>. QED
    BY <1>7, <2>1 DEF Crash, relay
<1>8. ASSUME NEW c \in Calls, StoreTokens(c)
      PROVE  ConnectedIsLinked'
  <2>1. was[c] \in Records
    BY <1>8 DEF StoreTokens, Asking
  <2>2. rec'.account = rec.account /\ (rec # NoRecord \/ rec' = rec)
    BY <1>8, <2>1, RecordFields DEF StoreTokens
  <2>. QED
    BY <1>8, <2>2 DEF StoreTokens, relay, past
<1>9. CASE UNCHANGED <<rec, link, leaving, cut>>
  BY <1>9
<1>. QED
  BY <1>1, <1>2, <1>3, <1>4, <1>5, <1>6, <1>7, <1>8, <1>9
     DEF ANext, Proceeds, StartSignIn, Started, FinishSession, FailSession, TakeResult,
         SignInFails, SessionExpires, Exchange, CancelSignIn, Forget, ForgetClosed,
         GoesStale, Ask, NothingToDo, Send, Etsy, RefreshFails, AnswerLost, relay, past, avars

\* The invariant holds throughout.
LEMMA AInvariant == ASpec => []AInd
<1>1. AInit => AInd
  <2>1. AInit => AccountTypeOK
    <3>1. SUFFICES ASSUME AInit PROVE AccountTypeOK
      OBVIOUS
    <3>2. /\ current \in [SignIns -> Nat]
          /\ session \in [SignIns -> {"none", "open", "done", "error"}]
          /\ code \in [SignIns -> {"none", "exchanged", "linked", "told"}]
          /\ whose \in [SignIns -> Accounts \cup {NoAccount}]
          /\ link \in [Accounts -> {"none", "here", "elsewhere"}]
          /\ waiter \in [SignIns -> {"none", "asking", "polling", "taken", "ended"}]
      BY <3>1 DEF AInit
    <3>3. /\ call \in [Calls -> {"idle", "waiting", "sent", "answered", "refused"}]
          /\ was \in [Calls -> Records \cup {NoRecord}]
          /\ lock \in [Loops -> Calls \cup {NoCall}]
      BY <3>1 DEF AInit
    <3>4. /\ dead = {} /\ lost = {} /\ gone = {} /\ cut = {}
          /\ rec = NoRecord /\ stale = FALSE /\ pending = NoSignIn /\ leaving = NoAccount
      BY <3>1 DEF AInit
    <3>. QED
      BY <3>2, <3>3, <3>4 DEF AccountTypeOK
  <2>2. AInit => Asking /\ Over /\ Told /\ SignInLinked /\ ConnectedIsLinked /\ NeverRevived
    BY NoRecordFields
       DEF AInit, Asking, Over, Told, SignInLinked, ConnectedIsLinked, NeverRevived
  <2>. QED
    BY <2>1, <2>2 DEF AInd
<1>2. AInd /\ [ANext]_avars => AInd'
  BY Types, OverStep, ToldStep, LinkedStep, ConnectedStep DEF AInd
<1>. QED
  BY <1>1, <1>2, PTL DEF ASpec

\* Signing in, refreshing and letting go keep the types.
THEOREM AccountsTyped == ASpec => []AccountTypeOK
BY AInvariant, PTL DEF AInd

\* A grant that was disconnected or replaced does not come back into the
\* keychain, whatever refresh or sign-in was under way.
THEOREM GivenUpForGood == ASpec => []NeverRevived
BY AInvariant, PTL DEF AInd

\* A connected account is linked at the relay, but for what others did and what
\* a disconnect was cut short of.
THEOREM ConnectedAccountsLinked == ASpec => []ConnectedIsLinked
BY AInvariant, PTL DEF AInd

----------------------------------------------------------------------------
(* Nobody is signed out by a refresh: all calls run on one loop.           *)

OneLoop == \A c, d \in Calls : LoopOf[c] = LoopOf[d]

\* Who is at the relay, or has its answer, holds the lock.
Locked ==
    \A c \in Calls :
        call[c] \in {"sent", "answered", "refused"} => lock[LoopOf[c]] = c

\* A grant was refreshed only if its sign-in is over; so is one a call is about.
Refreshed ==
    /\ \A s \in SignIns : waiter[s] # "ended" => current[s] = 0
    /\ \A c \in Calls : call[c] # "idle" => waiter[was[c].grant] = "ended"

\* A call has the token that works, or its answer the one after it: unless an
\* answer about that grant was lost.
HasToken ==
    \A c \in Calls : was[c].grant \notin lost =>
        /\ call[c] = "sent" => was[c].token = current[was[c].grant]
        /\ call[c] = "answered" => current[was[c].grant] = was[c].token + 1

\* So has the record, or a call's answer is about to replace it.
RecordCurrent ==
    rec # NoRecord /\ rec.grant \notin lost =>
        \/ rec.token = current[rec.grant]
        \/ \E c \in Calls : call[c] = "answered" /\ was[c] = rec

\* A record's account is the one its sign-in was for.
Named(r) == code[r.grant] = "told" /\ r.account = whose[r.grant]

AllNamed ==
    /\ rec # NoRecord => Named(rec)
    /\ \A c \in Calls : call[c] # "idle" => Named(was[c])

TokenInd ==
    AInd /\ AllNamed /\ Locked /\ Refreshed /\ HasToken /\ RecordCurrent /\ StaysSignedIn

\* One loop has one lock: one call at a time is out.
LEMMA OneIsOut ==
    ASSUME OneLoop, AccountTypeOK, Locked, NEW c \in Calls, NEW d \in Calls
    PROVE  /\ call[c] \in {"sent", "answered", "refused"} =>
                  (call[d] \in {"sent", "answered", "refused"} => c = d)
           /\ lock[LoopOf[c]] = NoCall => call[d] \notin {"sent", "answered", "refused"}
<1>1. LoopOf[c] = LoopOf[d]
  BY DEF OneLoop
<1>. QED
  BY <1>1, TokenConstants DEF Locked

\* Refreshing and storing keep a record's account.
LEMMA NamedStep ==
    ASSUME AInd, AllNamed, [ANext]_avars
    PROVE  AllNamed'
<1>. USE DEF AllNamed, Named
<1>0. AccountTypeOK /\ Asking /\ Told
  BY DEF AInd
<1>1. \A s \in SignIns : code[s] = "told" => code'[s] = "told" /\ whose'[s] = whose[s]
  BY <1>0
     DEF ANext, Proceeds, StartSignIn, Started, Link, FinishSession, FailSession, TakeResult,
         StoreResult, SignInFails, SessionExpires, Exchange, CancelSignIn, Disconnect, Unlink,
         Forget, Moved, Closed, ForgetClosed, GoesStale, Ask, NothingToDo, Send, Etsy, StoreTokens,
         RefreshFails, AnswerLost, Crash, relay, avars, AccountTypeOK
<1>2. /\ rec # NoRecord => rec.grant \in SignIns
      /\ \A c \in Calls : call[c] # "idle" => was[c].grant \in SignIns
  BY <1>0, RecordFields DEF AccountTypeOK, Asking
<1>3. rec' # NoRecord => Named(rec)'
  <2>1. ASSUME NEW s \in SignIns, StoreResult(s)
        PROVE  Named(rec)'
    BY <1>0, <2>1 DEF StoreResult, Told, relay
  <2>. QED
    BY <1>0, <1>1, <1>2, <2>1, RecordMoves
<1>4. \A c \in Calls : call'[c] # "idle" => Named(was[c])'
  <2>1. \A c \in Calls : call'[c] # "idle" =>
            \/ call[c] # "idle" /\ was'[c] = was[c]
            \/ rec # NoRecord /\ was'[c] = rec
    BY <1>0
       DEF ANext, Proceeds, StartSignIn, Started, Link, FinishSession, FailSession, TakeResult,
           StoreResult, SignInFails, SessionExpires, Exchange, CancelSignIn, Disconnect, Unlink,
           Forget, Moved, Closed, ForgetClosed, GoesStale, Ask, NothingToDo, Send, Etsy, StoreTokens,
           RefreshFails, AnswerLost, Released, Crash, asking, avars, AccountTypeOK
  <2>. QED
    BY <1>1, <1>2, <2>1
<1>. QED
  BY <1>3, <1>4

\* Only grants whose sign-in is over are refreshed.
LEMMA RefreshedStep ==
    ASSUME AInd, Refreshed, [ANext]_avars
    PROVE  Refreshed'
<1>. USE DEF Refreshed
<1>0. AccountTypeOK /\ Asking /\ Over /\ Asking'
  BY Types DEF AInd
<1>. USE <1>0
<1>1. \A c \in Calls : call[c] # "idle" => was[c].grant \in SignIns /\ waiter'[was[c].grant] = "ended"
  BY SignInsEnd, RecordFields DEF Asking
<1>2. rec # NoRecord => rec.grant \in SignIns /\ waiter'[rec.grant] = "ended"
  BY SignInsEnd, RecordFields DEF Over, AccountTypeOK
<1>3. \A c \in Calls : call'[c] # "idle" => waiter'[was'[c].grant] = "ended"
  <2>1. ASSUME NEW c \in Calls, Ask(c) \/ Proceeds(c), NEW d \in Calls
        PROVE  call'[d] # "idle" => waiter'[was'[d].grant] = "ended"
    BY <1>1, <1>2, <2>1
       DEF Proceeds, Ask, NothingToDo, Send, Etsy, StoreTokens, RefreshFails, AnswerLost, Released,
           AccountTypeOK, past
  <2>2. CASE Crash
    BY <2>2 DEF Crash
  <2>3. CASE UNCHANGED <<call, was>>
    BY <1>1, <2>3
  <2>. QED
    BY <2>1, <2>2, <2>3
       DEF ANext, StartSignIn, Started, Link, FinishSession, FailSession, TakeResult, StoreResult,
           SignInFails, SessionExpires, Exchange, CancelSignIn, Disconnect, Unlink, Forget, Moved,
           Closed, ForgetClosed, GoesStale, asking, avars
<1>4. \A s \in SignIns : waiter'[s] # "ended" => current'[s] = 0
  <2>1. ASSUME NEW c \in Calls, Etsy(c), NEW s \in SignIns
        PROVE  waiter'[s] # "ended" => current'[s] = 0
    <3>1. s # was[c].grant => current'[s] = current[s]
      BY <2>1 DEF Etsy, AccountTypeOK
    <3>2. call[c] # "idle" /\ UNCHANGED waiter
      BY <2>1 DEF Etsy, signing
    <3>. QED
      BY <3>1, <3>2
  <2>2. CASE UNCHANGED current
    BY <2>2, SignInsEnd
  <2>. QED
    BY <2>1, <2>2
       DEF ANext, Proceeds, StartSignIn, Started, Link, FinishSession, FailSession, TakeResult,
           StoreResult, SignInFails, SessionExpires, Exchange, CancelSignIn, Disconnect, Unlink,
           Forget, Moved, Closed, ForgetClosed, GoesStale, Ask, NothingToDo, Send, StoreTokens,
           RefreshFails, AnswerLost, Crash, market, avars
<1>. QED
  BY <1>3, <1>4

\* Whoever is out holds the lock.
LEMMA LockedStep ==
    ASSUME OneLoop, AInd, Locked, [ANext]_avars
    PROVE  Locked'
<1>. USE DEF Locked
<1>0. AccountTypeOK
  BY DEF AInd
<1>. USE <1>0
<1>1. ASSUME NEW c \in Calls, NothingToDo(c) \/ Ask(c) \/ Etsy(c)
      PROVE  Locked'
  BY <1>1 DEF NothingToDo, Ask, Etsy, AccountTypeOK
<1>2. ASSUME NEW c \in Calls, Send(c), NEW d \in Calls
      PROVE  call'[d] \in {"sent", "answered", "refused"} => lock'[LoopOf[d]] = d
  <2>1. call[d] \notin {"sent", "answered", "refused"}
    BY <1>2, OneIsOut DEF Send
  <2>2. d # c => call'[d] = call[d]
    BY <1>2 DEF Send, AccountTypeOK
  <2>3. lock'[LoopOf[c]] = c
    BY <1>2 DEF Send, AccountTypeOK, Loops
  <2>. QED
    BY <2>1, <2>2, <2>3
<1>3. ASSUME NEW c \in Calls, call[c] \in {"sent", "answered", "refused"}, Released(c), NEW d \in Calls
      PROVE  call'[d] \notin {"sent", "answered", "refused"}
  BY <1>3, OneIsOut DEF Released, AccountTypeOK
<1>4. CASE Crash
  BY <1>4 DEF Crash
<1>5. CASE UNCHANGED asking
  BY <1>5 DEF asking
<1>. QED
  BY <1>1, <1>2, <1>3, <1>4, <1>5
     DEF ANext, Proceeds, StartSignIn, Started, Link, FinishSession, FailSession, TakeResult,
         StoreResult, SignInFails, SessionExpires, Exchange, CancelSignIn, Disconnect, Unlink,
         Forget, Moved, Closed, ForgetClosed, GoesStale, StoreTokens, RefreshFails, AnswerLost, avars

\* A refresh at Etsy is made with the token that works.
LEMMA EtsyStep ==
    ASSUME OneLoop, TokenInd, NEW c \in Calls, Etsy(c)
    PROVE  HasToken' /\ RecordCurrent' /\ StaysSignedIn'
<1> DEFINE g == was[c].grant
<1>0. AccountTypeOK /\ Asking /\ Locked
  BY DEF TokenInd, AInd
<1>1. call[c] = "sent" /\ g \in SignIns /\ current[g] \in Nat /\ UNCHANGED <<was, rec, lost>>
  BY <1>0, RecordFields DEF Etsy, Asking, AccountTypeOK, past
<1>2. CASE g \notin dead /\ was[c].token = current[g]
  <2>1. /\ UNCHANGED dead /\ call'[c] = "answered" /\ current'[g] = was[c].token + 1
        /\ \A s \in SignIns \ {g} : current'[s] = current[s]
        /\ \A d \in Calls \ {c} : call'[d] = call[d]
    BY <1>0, <1>1, <1>2 DEF Etsy, AccountTypeOK
  <2>2. \A d \in Calls \ {c} : call[d] \notin {"sent", "answered", "refused"}
    BY <1>0, <1>1, OneIsOut
  <2>3. HasToken'
    BY <1>1, <2>1, <2>2 DEF HasToken
  <2>4. RecordCurrent'
    <3>1. SUFFICES ASSUME rec # NoRecord, rec.grant \notin lost
                   PROVE  \/ rec.token = current'[rec.grant]
                          \/ call'[c] = "answered" /\ was[c] = rec
      BY <1>1 DEF RecordCurrent
    <3>2. rec \in Records /\ rec.grant \in SignIns
      BY <1>0, <3>1, RecordFields DEF AccountTypeOK
    <3>3. rec.token = current[rec.grant]
      BY <1>1, <2>2, <3>1 DEF TokenInd, RecordCurrent
    <3>4. CASE rec.grant # g
      BY <2>1, <3>2, <3>3, <3>4
    <3>5. CASE rec.grant = g
      <4>1. was[c] \in Records /\ rec.account = was[c].account
        BY <1>0, <1>1, <3>1, <3>5 DEF TokenInd, AllNamed, Named, Asking
      <4>2. rec = was[c]
        BY <1>2, <3>2, <3>3, <3>5, <4>1 DEF Records
      <4>. QED
        BY <2>1, <4>2
    <3>. QED
      BY <3>4, <3>5
  <2>. QED
    BY <1>1, <2>1, <2>3, <2>4 DEF TokenInd, StaysSignedIn
<1>3. CASE ~(g \notin dead /\ was[c].token = current[g])
  <2>1. /\ UNCHANGED current /\ dead' = dead \cup {g} /\ call'[c] = "refused"
        /\ \A d \in Calls \ {c} : call'[d] = call[d]
    BY <1>0, <1>3 DEF Etsy, AccountTypeOK
  <2>2. g \in lost
    BY <1>1, <1>3 DEF TokenInd, HasToken, StaysSignedIn
  <2>3. HasToken' /\ RecordCurrent'
    BY <1>1, <2>1 DEF TokenInd, HasToken, RecordCurrent
  <2>. QED
    BY <1>1, <2>1, <2>2, <2>3 DEF TokenInd, StaysSignedIn
<1>. QED
  BY <1>2, <1>3

\* A call sends the record's token when no answer is under way, and its answer
\* takes that token's place.
LEMMA CallStep ==
    ASSUME OneLoop, TokenInd, NEW c \in Calls, Ask(c) \/ Proceeds(c)
    PROVE  HasToken' /\ RecordCurrent' /\ StaysSignedIn'
<1>0. AccountTypeOK /\ Asking /\ Locked /\ HasToken /\ RecordCurrent /\ StaysSignedIn
  BY DEF TokenInd, AInd
<1>1. CASE Ask(c) \/ NothingToDo(c)
  <2>1. /\ UNCHANGED <<current, dead, rec, lost>>
        /\ \A d \in Calls : d # c => call'[d] = call[d] /\ was'[d] = was[d]
        /\ call[c] # "answered" /\ call'[c] \notin {"sent", "answered"}
    BY <1>0, <1>1 DEF Ask, NothingToDo, AccountTypeOK, market, past
  <2>. QED
    BY <1>0, <2>1 DEF HasToken, RecordCurrent, StaysSignedIn
<1>2. CASE Send(c)
  <2>1. /\ UNCHANGED <<current, dead, rec, lost>>
        /\ \A d \in Calls : d # c => call'[d] = call[d] /\ was'[d] = was[d]
        /\ call'[c] = "sent" /\ was'[c] = rec /\ rec # NoRecord
    BY <1>0, <1>2 DEF Send, AccountTypeOK, market, past
  <2>2. \A d \in Calls : call[d] \notin {"sent", "answered", "refused"}
    BY <1>0, <1>2, OneIsOut DEF Send
  <2>. QED
    BY <1>0, <2>1, <2>2 DEF HasToken, RecordCurrent, StaysSignedIn
<1>3. CASE Etsy(c)
  BY <1>3, EtsyStep
<1>4. CASE StoreTokens(c) \/ RefreshFails(c) \/ AnswerLost(c)
  <2>1. /\ \A d \in Calls : d # c => call'[d] = call[d] /\ was'[d] = was[d]
        /\ call[c] \in {"sent", "answered", "refused"} /\ call'[c] = "idle"
        /\ UNCHANGED <<current, dead>>
    BY <1>0, <1>4 DEF StoreTokens, RefreshFails, AnswerLost, Released, AccountTypeOK, market
  <2>2. \A d \in Calls : d # c => call[d] \notin {"sent", "answered", "refused"}
    BY <1>0, <2>1, OneIsOut
  <2>3. HasToken'
    BY <2>1, <2>2 DEF HasToken
  <2>4. CASE RefreshFails(c)
    <3>1. UNCHANGED <<rec, lost>> /\ call[c] # "answered"
      BY <2>4 DEF RefreshFails, past
    <3>. QED
      BY <1>0, <2>1, <2>3, <3>1 DEF RecordCurrent, StaysSignedIn
  <2>5. CASE AnswerLost(c)
    <3>1. UNCHANGED rec /\ lost' = lost \cup {was[c].grant}
      BY <2>5 DEF AnswerLost
    <3>. QED
      BY <1>0, <2>1, <2>2, <2>3, <3>1 DEF RecordCurrent, StaysSignedIn
  <2>6. CASE StoreTokens(c)
    <3>1. UNCHANGED lost /\ call[c] = "answered" /\ was[c] \in Records
      BY <1>0, <2>6 DEF StoreTokens, Asking, past
    <3>2. CASE rec = was[c]
      <4>1. rec' = [was[c] EXCEPT !.token = @ + 1]
        BY <2>6, <3>2 DEF StoreTokens
      <4>2. rec'.grant = was[c].grant /\ rec'.token = was[c].token + 1
        BY <3>1, <4>1, RecordFields
      <4>. QED
        BY <1>0, <2>1, <2>3, <3>1, <4>2 DEF HasToken, RecordCurrent, StaysSignedIn
    <3>3. CASE rec # was[c]
      <4>1. UNCHANGED rec
        BY <2>6, <3>3 DEF StoreTokens
      <4>. QED
        BY <1>0, <2>1, <2>2, <2>3, <3>1, <3>3, <4>1 DEF RecordCurrent, StaysSignedIn
    <3>. QED
      BY <3>2, <3>3
  <2>. QED
    BY <1>4, <2>4, <2>5, <2>6
<1>. QED
  BY <1>1, <1>2, <1>3, <1>4 DEF Proceeds

\* Every step keeps the record's token current.
LEMMA TokenStep ==
    ASSUME OneLoop, TokenInd, [ANext]_avars
    PROVE  HasToken' /\ RecordCurrent' /\ StaysSignedIn'
<1>0. /\ AccountTypeOK /\ Asking /\ Told /\ Refreshed
      /\ HasToken /\ RecordCurrent /\ StaysSignedIn
  BY DEF TokenInd, AInd
<1>1. ASSUME NEW c \in Calls, Ask(c) \/ Proceeds(c)
      PROVE  HasToken' /\ RecordCurrent' /\ StaysSignedIn'
  BY <1>1, CallStep
<1>2. ASSUME NEW s \in SignIns, StoreResult(s)
      PROVE  HasToken' /\ RecordCurrent' /\ StaysSignedIn'
  <2>1. rec'.grant = s /\ rec'.token = 0 /\ UNCHANGED <<current, dead, call, was, lost>>
    BY <1>2 DEF StoreResult, market, asking
  <2>2. current[s] = 0
    BY <1>0, <1>2 DEF StoreResult, Refreshed
  <2>. QED
    BY <1>0, <2>1, <2>2 DEF HasToken, RecordCurrent, StaysSignedIn
<1>3. CASE rec' = NoRecord /\ UNCHANGED <<current, dead, call, was, lost>>
  BY <1>0, <1>3 DEF HasToken, RecordCurrent, StaysSignedIn
<1>4. CASE Crash
  <2>1. UNCHANGED <<current, dead, rec>> /\ lost \subseteq lost'
    BY <1>4 DEF Crash, market
  <2>2. \A c \in Calls : call'[c] = "idle" /\ (call[c] = "answered" => was[c].grant \in lost')
    BY <1>4 DEF Crash
  <2>. QED
    BY <1>0, <2>1, <2>2 DEF HasToken, RecordCurrent, StaysSignedIn
<1>5. CASE UNCHANGED <<current, dead, rec, call, was, lost>>
  BY <1>0, <1>5 DEF HasToken, RecordCurrent, StaysSignedIn
<1>. QED
  BY <1>1, <1>2, <1>3, <1>4, <1>5
     DEF ANext, StartSignIn, Started, Link, FinishSession, FailSession, TakeResult,
         SignInFails, SessionExpires, Exchange, CancelSignIn, Disconnect, Unlink, Forget, Moved,
         Closed, ForgetClosed, GoesStale, market, asking, past, avars

\* Studio never spends a refresh token twice, so the marketplace never signs the
\* seller out, unless an answer was lost: while all callers run on one loop.
THEOREM NeverSignedOut == ASSUME OneLoop PROVE ASpec => []StaysSignedIn
<1>1. AInit /\ AInd => TokenInd
  <2>1. AInit => AllNamed /\ Locked /\ Refreshed
    BY DEF AInit, AllNamed, Locked, Refreshed
  <2>2. AInit => HasToken /\ RecordCurrent /\ StaysSignedIn
    BY DEF AInit, HasToken, RecordCurrent, StaysSignedIn
  <2>. QED
    BY <2>1, <2>2 DEF TokenInd
<1>2. TokenInd /\ AInd' /\ [ANext]_avars => TokenInd'
  BY NamedStep, LockedStep, RefreshedStep, TokenStep DEF TokenInd
<1>3. TokenInd => StaysSignedIn
  BY DEF TokenInd
<1>. QED
  BY <1>1, <1>2, <1>3, AInvariant, PTL DEF ASpec

=============================================================================
