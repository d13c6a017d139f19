---------------------------- MODULE AccountTokens ----------------------------
(***************************************************************************)
(* Signing in to a marketplace, keeping its tokens fresh, and letting go.  *)
(* The seller signs in on the marketplace's page, which calls the relay;   *)
(* the relay exchanges the code, links the account to this Mac, and keeps  *)
(* the tokens until Studio fetches them.  Studio refreshes them through    *)
(* the relay whenever a call needs it, and forgets them on disconnect.     *)
(*                                                                         *)
(* Studio's code runs on asyncio loops: what has no await is one step      *)
(* among the steps of its loop.  The relay's Directory is a Durable        *)
(* Object: each of its methods is one step.  The marketplace is Etsy,      *)
(* whose refresh token works once; every sign-in gives a grant of its own. *)
(***************************************************************************)
EXTENDS Naturals

CONSTANTS
    SignIns,     \* sign-ins the seller starts, each with its state and grant
    NoSignIn,
    Accounts,    \* the seller's accounts
    NoAccount,
    Calls,       \* callers of access_token
    LoopOf,      \* the event loop each of them runs on
    NoCall,
    MaxRefresh,  \* bound: times a grant's token is replaced
    Faults       \* bound: which faults occur, of FaultKinds

FaultKinds == {"lost", "crash", "moved", "closed"}

ASSUME TokenConstants ==
    /\ NoSignIn \notin SignIns /\ NoAccount \notin Accounts /\ NoCall \notin Calls
    /\ MaxRefresh \in Nat
    /\ Faults \subseteq FaultKinds

Loops == {LoopOf[c] : c \in Calls}

VARIABLES
    \* The marketplace.
    current,     \* the token of a grant that works
    dead,        \* grants signed out, for an old token was used
    \* The relay's Directory.
    session,     \* of a sign-in: "none", "open", "done" with tokens, "error"
    code,        \* the callback: "none", "exchanged", "linked", "told"
    whose,       \* the account it is for
    link,        \* where an account is linked: "none", "here", "elsewhere"
    \* Studio.
    rec,         \* the keychain's record: a grant, its account and token
    stale,       \* the record's access token is over, or was rejected
    pending,     \* the sign-in under _pending
    waiter,      \* _wait_for_sign_in: "none", "asking", "polling", "taken", "ended"
    leaving,     \* the account disconnect is unlinking
    call,        \* access_token: "idle", "waiting", "sent", "answered", "refused"
    was,         \* the record it read, before the lock and again under it
    lock,        \* who holds a loop's refresh lock
    \* History.
    lost,        \* grants with a refresh whose answer never came in
    gone,        \* grants disconnected or replaced
    cut          \* accounts unlinked by others, or by a disconnect cut short or
                 \* overlapping a sign-in to them

market  == <<current, dead>>
relay   == <<session, code, whose, link>>
signing == <<pending, waiter>>
asking  == <<call, was, lock>>
past    == <<lost, gone, cut>>
avars == <<current, dead, session, code, whose, link, rec, stale, pending, waiter,
           leaving, call, was, lock, lost, gone, cut>>

NoRecord == [grant |-> NoSignIn, account |-> NoAccount, token |-> 0]
Records == [grant : SignIns, account : Accounts, token : Nat]

AccountTypeOK ==
    /\ current \in [SignIns -> Nat]
    /\ dead \in SUBSET SignIns
    /\ session \in [SignIns -> {"none", "open", "done", "error"}]
    /\ code \in [SignIns -> {"none", "exchanged", "linked", "told"}]
    /\ whose \in [SignIns -> Accounts \cup {NoAccount}]
    /\ link \in [Accounts -> {"none", "here", "elsewhere"}]
    /\ rec \in Records \cup {NoRecord}
    /\ stale \in BOOLEAN
    /\ pending \in SignIns \cup {NoSignIn}
    /\ waiter \in [SignIns -> {"none", "asking", "polling", "taken", "ended"}]
    /\ leaving \in Accounts \cup {NoAccount}
    /\ call \in [Calls -> {"idle", "waiting", "sent", "answered", "refused"}]
    /\ was \in [Calls -> Records \cup {NoRecord}]
    /\ lock \in [Loops -> Calls \cup {NoCall}]
    /\ lost \in SUBSET SignIns /\ gone \in SUBSET SignIns /\ cut \in SUBSET Accounts

AInit ==
    /\ current = [s \in SignIns |-> 0]
    /\ session = [s \in SignIns |-> "none"]
    /\ code = [s \in SignIns |-> "none"]
    /\ whose = [s \in SignIns |-> NoAccount]
    /\ link = [a \in Accounts |-> "none"]
    /\ rec = NoRecord /\ stale = FALSE
    /\ pending = NoSignIn /\ leaving = NoAccount
    /\ waiter = [s \in SignIns |-> "none"]
    /\ call = [c \in Calls |-> "idle"]
    /\ was = [c \in Calls |-> NoRecord]
    /\ lock = [l \in Loops |-> NoCall]
    /\ dead = {} /\ lost = {} /\ gone = {} /\ cut = {}

----------------------------------------------------------------------------
(* Signing in.                                                             *)

\* Cancelling a sign-in's task; what it had taken from the relay is gone.
Cancelled(s) ==
    [waiter EXCEPT ![s] = IF @ \in {"polling", "taken"} THEN "ended" ELSE @]
CancelledPending == IF pending = NoSignIn THEN waiter ELSE Cancelled(pending)

\* start_sign_in pops and cancels the one before, and asks the relay.
StartSignIn(s) ==
    /\ waiter[s] = "none"
    /\ waiter' = [CancelledPending EXCEPT ![s] = "asking"]
    /\ pending' = NoSignIn
    /\ UNCHANGED <<market, relay, rec, stale, leaving, asking, past>>

\* handleOAuthStart, and the rest of start_sign_in: two of them that overlap
\* both poll, and _pending knows the one that came later.
Started(s) ==
    /\ waiter[s] = "asking"
    /\ session' = [session EXCEPT ![s] = "open"]
    /\ waiter' = [waiter EXCEPT ![s] = "polling"]
    /\ pending' = s
    /\ UNCHANGED <<market, code, whose, link, rec, stale, leaving, asking, past>>

\* handleOAuthCallback: the seller signed in to an account, and its code is
\* exchanged for a grant.
Exchange(s, a) ==
    /\ session[s] = "open" /\ code[s] = "none"
    /\ code' = [code EXCEPT ![s] = "exchanged"]
    /\ whose' = [whose EXCEPT ![s] = a]
    /\ UNCHANGED <<market, session, link, rec, stale, signing, leaving, asking, past>>

\* directory.link moves the account to this Mac.
Link(s) ==
    /\ code[s] = "exchanged"
    /\ code' = [code EXCEPT ![s] = "linked"]
    /\ link' = [link EXCEPT ![whose[s]] = "here"]
    /\ cut' = cut \ {whose[s]}
    /\ UNCHANGED <<market, session, whose, rec, stale, signing, leaving, asking, lost, gone>>

\* Mutant: the session is finished before the account is linked.
FinishUnlinked(s) ==
    /\ code[s] = "exchanged"
    /\ session' = [session EXCEPT ![s] = IF @ = "open" THEN "done" ELSE @]
    /\ UNCHANGED <<market, code, whose, link, rec, stale, signing, leaving, asking, past>>

\* finishSession writes the result, if the session is there and has none.
FinishSession(s) ==
    /\ code[s] = "linked"
    /\ code' = [code EXCEPT ![s] = "told"]
    /\ session' = [session EXCEPT ![s] = IF @ = "open" THEN "done" ELSE @]
    /\ UNCHANGED <<market, whose, link, rec, stale, signing, leaving, asking, past>>

\* The seller refused, or another visit to the callback failed first.
FailSession(s) ==
    /\ session[s] = "open"
    /\ session' = [session EXCEPT ![s] = "error"]
    /\ UNCHANGED <<market, code, whose, link, rec, stale, signing, leaving, asking, past>>

\* takeResult hands the result over once, and deletes the session.
TakeResult(s) ==
    /\ waiter[s] = "polling" /\ session[s] = "done"
    /\ session' = [session EXCEPT ![s] = "none"]
    /\ waiter' = [waiter EXCEPT ![s] = "taken"]
    /\ UNCHANGED <<market, code, whose, link, rec, stale, pending, leaving, asking, past>>

\* _wait_for_sign_in stores the new record over whatever there is.
StoreResult(s) ==
    /\ waiter[s] = "taken"
    /\ rec' = [grant |-> s, account |-> whose[s], token |-> 0]
    /\ stale' = FALSE
    /\ waiter' = [waiter EXCEPT ![s] = "ended"]
    /\ gone' = gone \cup ({rec.grant} \ {NoSignIn})
    /\ UNCHANGED <<market, relay, pending, leaving, asking, lost, cut>>

\* The relay answers with the error or 404, or ten minutes are over.
SignInFails(s) ==
    /\ waiter[s] = "polling"
    /\ waiter' = [waiter EXCEPT ![s] = "ended"]
    /\ session' = [session EXCEPT ![s] = IF @ = "error" THEN "none" ELSE @]
    /\ UNCHANGED <<market, code, whose, link, rec, stale, pending, leaving, asking, past>>

\* Fifteen minutes are over at the relay.
SessionExpires(s) ==
    /\ session[s] # "none"
    /\ session' = [session EXCEPT ![s] = "none"]
    /\ UNCHANGED <<market, code, whose, link, rec, stale, signing, leaving, asking, past>>

CancelSignIn ==
    /\ pending # NoSignIn
    /\ waiter' = CancelledPending
    /\ pending' = NoSignIn
    /\ UNCHANGED <<market, relay, rec, stale, leaving, asking, past>>

----------------------------------------------------------------------------
(* Letting go.                                                             *)

\* disconnect cancels a sign-in under way, and asks the relay to unlink.
Disconnect ==
    /\ leaving = NoAccount /\ rec # NoRecord
    /\ waiter' = CancelledPending
    /\ pending' = NoSignIn
    /\ leaving' = rec.account
    /\ UNCHANGED <<market, relay, rec, stale, asking, past>>

\* directory.unlink, when the request gets there.
Unlink ==
    /\ leaving # NoAccount /\ link[leaving] = "here"
    /\ link' = [link EXCEPT ![leaving] = "none"]
    /\ cut' = cut \cup {whose[s] : s \in {t \in SignIns : whose[t] = leaving
                                         /\ waiter[t] \in {"polling", "taken"}}}
    /\ UNCHANGED <<market, session, code, whose, rec, stale, signing, leaving, asking, lost, gone>>

\* The answer or the error came: the record goes, whichever it is by now.
Forget ==
    /\ leaving # NoAccount
    /\ leaving' = NoAccount
    /\ rec' = NoRecord
    /\ gone' = gone \cup ({rec.grant} \ {NoSignIn})
    /\ UNCHANGED <<market, relay, stale, signing, asking, lost, cut>>

\* The account signs in on another Mac, or the marketplace closes it; Studio
\* hears of the second and forgets it.
Moved(a) ==
    /\ "moved" \in Faults /\ link[a] = "here"
    /\ link' = [link EXCEPT ![a] = "elsewhere"]
    /\ cut' = cut \cup {a}
    /\ UNCHANGED <<market, session, code, whose, rec, stale, signing, leaving, asking, lost, gone>>

Closed(a) ==
    /\ "closed" \in Faults /\ link[a] = "here"
    /\ link' = [link EXCEPT ![a] = "none"]
    /\ cut' = cut \cup {a}
    /\ UNCHANGED <<market, session, code, whose, rec, stale, signing, leaving, asking, lost, gone>>

ForgetClosed(a) ==
    /\ "closed" \in Faults /\ a \in cut /\ rec.account = a
    /\ rec' = NoRecord
    /\ gone' = gone \cup {rec.grant}
    /\ UNCHANGED <<market, relay, stale, signing, leaving, asking, lost, cut>>

----------------------------------------------------------------------------
(* Refreshing: access_token.                                               *)

\* Time passes, or the marketplace rejects the access token.
GoesStale ==
    /\ rec # NoRecord /\ ~stale
    /\ current[rec.grant] < MaxRefresh
    /\ stale' = TRUE
    /\ UNCHANGED <<market, relay, rec, signing, leaving, asking, past>>

Ask(c) ==
    /\ call[c] = "idle"
    /\ rec # NoRecord /\ stale
    /\ call' = [call EXCEPT ![c] = "waiting"]
    /\ was' = [was EXCEPT ![c] = rec]
    /\ UNCHANGED <<market, relay, rec, stale, signing, leaving, lock, past>>

\* Under the lock: somebody refreshed, or disconnected, meanwhile.
NothingToDo(c) ==
    /\ call[c] = "waiting" /\ lock[LoopOf[c]] = NoCall
    /\ rec = NoRecord \/ ~stale
    /\ call' = [call EXCEPT ![c] = "idle"]
    /\ was' = [was EXCEPT ![c] = NoRecord]
    /\ UNCHANGED <<market, relay, rec, stale, signing, leaving, lock, past>>

\* Mutant: the record is not read again under the lock.
SendUnread(c) ==
    /\ call[c] = "waiting" /\ lock[LoopOf[c]] = NoCall
    /\ lock' = [lock EXCEPT ![LoopOf[c]] = c]
    /\ call' = [call EXCEPT ![c] = "sent"]
    /\ UNCHANGED <<market, relay, rec, stale, signing, leaving, was, past>>

Send(c) ==
    /\ call[c] = "waiting" /\ lock[LoopOf[c]] = NoCall
    /\ rec # NoRecord /\ stale
    /\ lock' = [lock EXCEPT ![LoopOf[c]] = c]
    /\ was' = [was EXCEPT ![c] = rec]
    /\ call' = [call EXCEPT ![c] = "sent"]
    /\ UNCHANGED <<market, relay, rec, stale, signing, leaving, past>>

\* Etsy replaces the token of the grant; an old one signs the seller out.
Etsy(c) ==
    LET g == was[c].grant IN
    /\ call[c] = "sent"
    /\ IF g \notin dead /\ was[c].token = current[g]
       THEN /\ current' = [current EXCEPT ![g] = @ + 1]
            /\ call' = [call EXCEPT ![c] = "answered"]
            /\ UNCHANGED dead
       ELSE /\ dead' = dead \cup {g}
            /\ call' = [call EXCEPT ![c] = "refused"]
            /\ UNCHANGED current
    /\ UNCHANGED <<relay, rec, stale, signing, leaving, was, lock, past>>

\* Mutant: the lock is not let go.
StillLocked(c) ==
    /\ call' = [call EXCEPT ![c] = "idle"]
    /\ was' = [was EXCEPT ![c] = NoRecord]
    /\ UNCHANGED lock

\* The block under the lock is left.
Released(c) ==
    /\ lock' = [lock EXCEPT ![LoopOf[c]] = NoCall]
    /\ call' = [call EXCEPT ![c] = "idle"]
    /\ was' = [was EXCEPT ![c] = NoRecord]

\* Mutant: the answer is stored whatever happened meanwhile.
StoreAnyway(c) ==
    /\ call[c] = "answered"
    /\ rec' = [was[c] EXCEPT !.token = @ + 1]
    /\ stale' = FALSE
    /\ Released(c)
    /\ UNCHANGED <<market, relay, signing, leaving, past>>

\* Mutant: the tokens go into whatever record there is by now.
MergeTokens(c) ==
    /\ call[c] = "answered"
    /\ rec' = [rec EXCEPT !.token = was[c].token + 1]
    /\ stale' = FALSE
    /\ Released(c)
    /\ UNCHANGED <<market, relay, signing, leaving, past>>

\* The answer: stored, unless a disconnect or a new sign-in revoked it.
StoreTokens(c) ==
    /\ call[c] = "answered"
    /\ IF rec = was[c]
       THEN rec' = [was[c] EXCEPT !.token = @ + 1] /\ stale' = FALSE
       ELSE UNCHANGED <<rec, stale>>
    /\ Released(c)
    /\ UNCHANGED <<market, relay, signing, leaving, past>>

\* Etsy refused, or the request failed on its way there.
RefreshFails(c) ==
    /\ call[c] = "refused" \/ (call[c] = "sent" /\ "lost" \in Faults)
    /\ Released(c)
    /\ UNCHANGED <<market, relay, rec, stale, signing, leaving, past>>

\* Etsy's answer does not arrive: a time limit, a caller that gave up.
AnswerLost(c) ==
    /\ "lost" \in Faults
    /\ call[c] = "answered"
    /\ lost' = lost \cup {was[c].grant}
    /\ Released(c)
    /\ UNCHANGED <<market, relay, rec, stale, signing, leaving, gone, cut>>

\* Studio quits and starts again: the keychain stays.
Crash ==
    /\ "crash" \in Faults
    /\ waiter' = [s \in SignIns |-> IF waiter[s] = "none" THEN "none" ELSE "ended"]
    /\ pending' = NoSignIn
    /\ leaving' = NoAccount
    /\ cut' = cut \cup ({leaving} \ {NoAccount})
    /\ lost' = lost \cup {was[c].grant : c \in {d \in Calls : call[d] \in {"sent", "answered"}}}
    /\ call' = [c \in Calls |-> "idle"]
    /\ was' = [c \in Calls |-> NoRecord]
    /\ lock' = [l \in Loops |-> NoCall]
    /\ UNCHANGED <<market, relay, rec, stale, gone>>

----------------------------------------------------------------------------

Proceeds(c) ==
    \/ NothingToDo(c) \/ Send(c) \/ Etsy(c)
    \/ StoreTokens(c) \/ RefreshFails(c) \/ AnswerLost(c)

ANext ==
    \/ \E s \in SignIns :
        \/ StartSignIn(s) \/ Started(s) \/ Link(s) \/ FinishSession(s) \/ FailSession(s)
        \/ TakeResult(s) \/ StoreResult(s) \/ SignInFails(s) \/ SessionExpires(s)
        \/ \E a \in Accounts : Exchange(s, a)
    \/ CancelSignIn \/ Disconnect \/ Unlink \/ Forget
    \/ \E a \in Accounts : Moved(a) \/ Closed(a) \/ ForgetClosed(a)
    \/ GoesStale
    \/ \E c \in Calls : Ask(c) \/ Proceeds(c)
    \/ Crash

ASpec == AInit /\ [][ANext]_avars

\* A loop goes on with what is ready, and its lock is first come, first served;
\* a request ends by its time limit.
AFairSpec == ASpec /\ \A c \in Calls : SF_avars(Proceeds(c))

----------------------------------------------------------------------------
(* Properties.                                                             *)

\* Anteroom itself never signs the seller out: a refresh token is used a second
\* time only when the answer to its first use was lost.
StaysSignedIn == dead \subseteq lost

\* A connection that was given up, or replaced by a new sign-in, does not come
\* back: no refresh that was under way restores its record.
NeverRevived == rec.grant \notin gone

\* A connected account is linked to this Mac at the relay, so its sales arrive,
\* unless it is being disconnected, others unlinked it, a disconnect was cut
\* short, or one reached the relay during another sign-in to the same account.
ConnectedIsLinked ==
    rec # NoRecord =>
        \/ link[rec.account] = "here"
        \/ rec.account \in cut \cup {leaving}

\* A call for an access token comes to its end.
CallEnds == \A c \in Calls : []<>(call[c] = "idle")
=============================================================================
