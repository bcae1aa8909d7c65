---------------------------- MODULE DesktopPairing ----------------------------
(***************************************************************************)
(* Signing a desktop application in (user_data/desktop_pairing.py, its     *)
(* views, and the two passes of account_tokens.revoke_all_tokens that a    *)
(* password reset or a passkey recovery makes).  An application shows a    *)
(* code, a signed-in person approves or denies it in a browser tab, and    *)
(* the application polls until it is told.  Polls, tabs and revocations    *)
(* are concurrent requests; a step is one database statement whose order   *)
(* against the others matters, and the commit that ends its transaction.   *)
(***************************************************************************)
EXTENDS Naturals, FiniteSets, Sequences

CONSTANTS Users,
          Devices,    \* device codes: each is drawn once
          Tabs, Polls, Revokers,   \* concurrent requests of the three kinds
          None,       \* no user, no token, no request
          MaxEra      \* bound: revocations of one account

ASSUME NoneAssumption == None \notin Users /\ None \notin Polls /\ None \notin Revokers

VARIABLES
    pairing,   \* DesktopPairing rows by device code
    drawn,     \* device codes issued so far
    token,     \* the one DRF Token of each account; via and era are history
    rowLock,   \* the poll that holds a pairing row FOR UPDATE
    advisory,  \* the revocation that holds lock_user_tokens of an account
    tab, poll, revoker,  \* the requests
    decisions, \* history: decisions a tab was told it made, by device
    answers,   \* history: resolutions a poll committed, by device
    era,       \* history: revocations begun, by account
    swept      \* history: era of the latest revocation with both passes done

rows == <<pairing, drawn>>
history == <<decisions, answers, era, swept>>
vars == <<pairing, drawn, token, rowLock, advisory, tab, poll, revoker, history>>

Statuses == {"pending", "approved", "denied"}
Pairing == [status : Statuses, user : Users \union {None}, live : BOOLEAN, era : Nat]
Token == [via : {"login", "pairing"}, era : Nat]
Decision == [tab : Tabs, user : Users, verdict : {"approved", "denied"}]

\* No row is told from a row, and no token from a token.
ASSUME RowAssumption == None \notin Pairing /\ None \notin Token

IdleTab == [pc |-> "idle", user |-> None, device |-> None, verdict |-> "denied"]
IdlePoll == [pc |-> "idle", device |-> None, row |-> None]
IdleRevoker == [pc |-> "idle", kind |-> "reset", user |-> None, pass |-> 1,
                doomed |-> FALSE, era |-> 0, commits |-> 0]

Exists(d) == pairing[d] # None
Live(d) == Exists(d) /\ pairing[d].live
Decided_OrPending(d) == Live(d)
Decided(d) == Live(d) /\ pairing[d].status # "pending"

Init ==
    /\ pairing = [d \in Devices |-> None]
    /\ drawn = {}
    /\ token = [u \in Users |-> None]
    /\ rowLock = [d \in Devices |-> None]
    /\ advisory = [u \in Users |-> None]
    /\ tab = [t \in Tabs |-> IdleTab]
    /\ poll = [p \in Polls |-> IdlePoll]
    /\ revoker = [v \in Revokers |-> IdleRevoker]
    /\ decisions = [d \in Devices |-> {}]
    /\ answers = [d \in Devices |-> <<>>]
    /\ era = [u \in Users |-> 0]
    /\ swept = [u \in Users |-> 0]
-----------------------------------------------------------------------------
(* The application. *)

\* begin: purge what has expired (a row somebody is redeeming is waited for),
\* then insert the new pairing under a user code no other row has.
Begin(d) ==
    LET expired == {e \in Devices : Exists(e) /\ ~pairing[e].live} IN
    /\ d \notin drawn
    /\ \A e \in expired : rowLock[e] = None
    /\ drawn' = drawn \union {d}
    /\ pairing' = [e \in Devices |->
                      IF e = d
                      THEN [status |-> "pending", user |-> None, live |-> TRUE, era |-> 0]
                      ELSE IF e \in expired THEN None ELSE pairing[e]]
    /\ UNCHANGED <<token, rowLock, advisory, tab, poll, revoker, history>>

\* PASSKEY_DESKTOP_TTL passes.
Expire(d) ==
    /\ Live(d)
    /\ pairing' = [pairing EXCEPT ![d].live = FALSE]
    /\ UNCHANGED <<drawn, token, rowLock, advisory, tab, poll, revoker, history>>

PollStart(p, d) ==
    /\ poll[p] = IdlePoll
    /\ d \in drawn
    /\ poll' = [poll EXCEPT ![p] = [IdlePoll EXCEPT !.pc = "select", !.device = d]]
    /\ UNCHANGED <<rows, token, rowLock, advisory, tab, revoker, history>>

\* Unknown, expired or already redeemed, or not decided yet.
PollNothing(p) ==
    LET d == poll[p].device IN
    /\ poll[p].pc = "select"
    /\ rowLock[d] = None
    /\ ~Decided(d)
    /\ poll' = [poll EXCEPT ![p] = IdlePoll]
    /\ UNCHANGED <<rows, token, rowLock, advisory, tab, revoker, history>>

PollSelect_WithoutForUpdate(p) ==
    LET d == poll[p].device IN
    /\ poll[p].pc = "select"
    /\ Decided(d)
    /\ poll' = [poll EXCEPT ![p].pc = "resolve", ![p].row = pairing[d]]
    /\ UNCHANGED <<rows, token, rowLock, advisory, tab, revoker, history>>
\* The decided row, locked until the transaction that deletes it commits.
PollSelect(p) ==
    LET d == poll[p].device IN
    /\ poll[p].pc = "select"
    /\ rowLock[d] = None
    /\ Decided(d)
    /\ rowLock' = [rowLock EXCEPT ![d] = p]
    /\ poll' = [poll EXCEPT ![p].pc = "resolve", ![p].row = pairing[d]]
    /\ UNCHANGED <<rows, token, advisory, tab, revoker, history>>

Release_Never(p) == UNCHANGED rowLock
Release(p) == rowLock' = [d \in Devices |-> IF rowLock[d] = p THEN None ELSE rowLock[d]]

\* redeem deletes the row and, when it was approved, fetches or makes the
\* account's token; a token somebody is deleting is still there to be fetched.
PollResolve(p) ==
    LET d == poll[p].device
        row == poll[p].row
    IN
    /\ poll[p].pc = "resolve"
    /\ pairing' = [pairing EXCEPT ![d] = None]
    /\ token' = IF row.status = "approved" /\ token[row.user] = None
                THEN [token EXCEPT ![row.user] = [via |-> "pairing", era |-> row.era]]
                ELSE token
    /\ answers' = [answers EXCEPT ![d] = Append(@, [verdict |-> row.status,
                                                    user |-> row.user])]
    /\ poll' = [poll EXCEPT ![p] = IdlePoll]
    /\ Release(p)
    /\ UNCHANGED <<drawn, advisory, tab, revoker, decisions, era, swept>>

\* The worker dies inside the transaction: the row is there to poll again.
PollCrash(p) ==
    /\ poll[p] # IdlePoll
    /\ poll' = [poll EXCEPT ![p] = IdlePoll]
    /\ Release(p)
    /\ UNCHANGED <<rows, token, advisory, tab, revoker, history>>
-----------------------------------------------------------------------------
(* The person. *)

\* desktop_approve: find_pending reads the row without a lock.
TabFind(t, u, d, verdict) ==
    /\ tab[t] = IdleTab
    /\ Live(d) /\ pairing[d].status = "pending"
    /\ tab' = [tab EXCEPT ![t] = [pc |-> "decide", user |-> u, device |-> d,
                                  verdict |-> verdict]]
    /\ UNCHANGED <<rows, token, rowLock, advisory, poll, revoker, history>>

Undecided_NotChecked(d) == Exists(d)
Undecided(d) == Exists(d) /\ pairing[d].status = "pending"

\* approve and deny: an UPDATE of the row if it is still pending, expired or
\* not; only approve binds the account.
TabDecide(t) ==
    LET d == tab[t].device
        u == tab[t].user
        verdict == tab[t].verdict
    IN
    /\ tab[t].pc = "decide"
    /\ rowLock[d] = None
    /\ Undecided(d)
    /\ pairing' = [pairing EXCEPT ![d] =
                      IF verdict = "approved"
                      THEN [@ EXCEPT !.status = verdict, !.user = u, !.era = era[u]]
                      ELSE [@ EXCEPT !.status = verdict]]
    /\ decisions' = [decisions EXCEPT ![d] = @ \union {[tab |-> t, user |-> u,
                                                       verdict |-> verdict]}]
    /\ tab' = [tab EXCEPT ![t] = IdleTab]
    /\ UNCHANGED <<drawn, token, rowLock, advisory, poll, revoker, answers, era, swept>>

\* Decided in another tab, redeemed or purged since find_pending: "stale".
TabStale(t) ==
    LET d == tab[t].device IN
    /\ tab[t].pc = "decide"
    /\ rowLock[d] = None
    /\ ~Undecided(d)
    /\ tab' = [tab EXCEPT ![t] = IdleTab]
    /\ UNCHANGED <<rows, token, rowLock, advisory, poll, revoker, history>>

\* rest_login and rest_logout, one statement each on the token table; a logout
\* waits for whoever is deleting the token already.
Login(u) ==
    /\ token[u] = None
    /\ token' = [token EXCEPT ![u] = [via |-> "login", era |-> era[u]]]
    /\ UNCHANGED <<rows, rowLock, advisory, tab, poll, revoker, history>>

Logout(u) ==
    /\ token[u] # None
    /\ \A v \in Revokers : ~(revoker[v].user = u /\ revoker[v].doomed)
    /\ token' = [token EXCEPT ![u] = None]
    /\ UNCHANGED <<rows, rowLock, advisory, tab, poll, revoker, history>>
-----------------------------------------------------------------------------
(* A password reset or a recovery: revoke_all_tokens, then the same again. *)

Revoke(v, u, kind) ==
    /\ revoker[v] = IdleRevoker
    /\ era[u] < MaxEra
    /\ era' = [era EXCEPT ![u] = @ + 1]
    /\ revoker' = [revoker EXCEPT ![v] = [IdleRevoker EXCEPT !.pc = "tokens", !.user = u,
                                                           !.kind = kind, !.era = era[u] + 1]]
    /\ UNCHANGED <<rows, token, rowLock, advisory, tab, poll, decisions, answers, swept>>

\* The advisory lock, then DELETE of the token that is there.
RevokeToken(v) ==
    LET u == revoker[v].user IN
    /\ revoker[v].pc = "tokens"
    /\ advisory[u] = None
    /\ advisory' = [advisory EXCEPT ![u] = v]
    /\ revoker' = [revoker EXCEPT ![v].pc = "pairings", ![v].doomed = token[u] # None]
    /\ UNCHANGED <<rows, token, rowLock, tab, poll, history>>

Bound_None(u) == {}
\* The pairings bound to an account.
Bound(u) == {d \in Devices : Exists(d) /\ pairing[d].user = u}

\* What follows a pass: the post-commit sweep after the first, unless a
\* recovery's first one failed.
AfterPass(q, done) ==
    IF q.pass = 2 \/ (~done /\ q.kind = "recover") THEN IdleRevoker
    ELSE [q EXCEPT !.pc = "tokens", !.pass = 2, !.doomed = FALSE,
                   !.commits = IF done THEN 1 ELSE 0]

\* DELETE of the account's pairings, which waits for one being redeemed, and
\* the commit.
RevokePairings(v) ==
    LET q == revoker[v]
        u == q.user
    IN
    /\ q.pc = "pairings"
    /\ \A d \in Bound(u) : rowLock[d] = None
    /\ pairing' = [d \in Devices |-> IF d \in Bound(u) THEN None ELSE pairing[d]]
    /\ token' = IF q.doomed THEN [token EXCEPT ![u] = None] ELSE token
    /\ advisory' = [advisory EXCEPT ![u] = None]
    /\ revoker' = [revoker EXCEPT ![v] = AfterPass(q, TRUE)]
    /\ swept' = IF q.commits = 1 /\ swept[u] < q.era
                THEN [swept EXCEPT ![u] = q.era] ELSE swept
    /\ UNCHANGED <<drawn, rowLock, tab, poll, decisions, answers, era>>

\* A pass that fails is rolled back; a reset goes on to its second one.
RevokeFails(v) ==
    /\ revoker[v].pc \in {"tokens", "pairings"}
    /\ revoker' = [revoker EXCEPT ![v] = AfterPass(@, FALSE)]
    /\ advisory' = [u \in Users |-> IF advisory[u] = v THEN None ELSE advisory[u]]
    /\ UNCHANGED <<rows, token, rowLock, tab, poll, history>>

RequestStep ==
    \/ \E p \in Polls : PollNothing(p) \/ PollSelect(p) \/ PollResolve(p)
    \/ \E t \in Tabs : TabDecide(t) \/ TabStale(t)
    \/ \E v \in Revokers : RevokeToken(v) \/ RevokePairings(v)

Next ==
    \/ RequestStep
    \/ \E d \in Devices : Begin(d) \/ Expire(d)
    \/ \E u \in Users : Login(u) \/ Logout(u)
    \/ \E p \in Polls : PollCrash(p) \/ \E d \in Devices : PollStart(p, d)
    \/ \E t \in Tabs, u \in Users, d \in Devices, verdict \in {"approved", "denied"} :
          TabFind(t, u, d, verdict)
    \/ \E v \in Revokers : \/ RevokeFails(v)
                          \/ \E u \in Users, kind \in {"reset", "recover"} : Revoke(v, u, kind)

Spec == Init /\ [][Next]_vars

\* Statements are executed, and a row or advisory lock, queued for in order,
\* reaches each waiter.
Fairness ==
    /\ \A p \in Polls : SF_vars(PollNothing(p) \/ PollSelect(p)) /\ WF_vars(PollResolve(p))
    /\ \A t \in Tabs : SF_vars(TabDecide(t) \/ TabStale(t))
    /\ \A v \in Revokers : SF_vars(RevokeToken(v)) /\ SF_vars(RevokePairings(v))
FairSpec == Spec /\ Fairness
-----------------------------------------------------------------------------
(* Properties. *)

\* Every variable holds a value of its kind.
TypeOK ==
    /\ pairing \in [Devices -> Pairing \union {None}]
    /\ drawn \subseteq Devices
    /\ token \in [Users -> Token \union {None}]
    /\ rowLock \in [Devices -> Polls \union {None}]
    /\ advisory \in [Users -> Revokers \union {None}]
    /\ tab \in [Tabs -> [pc : {"idle", "decide"}, user : Users \union {None},
                         device : Devices \union {None}, verdict : {"approved", "denied"}]]
    /\ poll \in [Polls -> [pc : {"idle", "select", "resolve"},
                           device : Devices \union {None}, row : Pairing \union {None}]]
    /\ revoker \in [Revokers -> [pc : {"idle", "tokens", "pairings"},
                                 kind : {"reset", "recover"}, user : Users \union {None},
                                 pass : {1, 2}, doomed : BOOLEAN, era : Nat,
                                 commits : {0, 1}]]
    /\ decisions \in [Devices -> SUBSET Decision]
    /\ answers \in [Devices -> Seq([verdict : {"approved", "denied"},
                                   user : Users \union {None}])]
    /\ era \in [Users -> Nat]
    /\ swept \in [Users -> Nat]

\* What a device code is worth: a row that has expired is worth nothing, unless a poll
\* that found it in time is redeeming it.
Redeemable(d) == Exists(d) /\ (pairing[d].live \/ rowLock[d] # None)
Code(d) ==
    IF d \notin drawn THEN [phase |-> "unissued", user |-> None]
    ELSE IF Redeemable(d) THEN [phase |-> pairing[d].status, user |-> pairing[d].user]
    ELSE [phase |-> "gone", user |-> None]

SignIn == INSTANCE DeviceSignIn
              WITH code <- [d \in Devices |-> Code(d)],
                   told <- answers,
                   withToken <- {u \in Users : token[u] # None}

\* The rows and their locks do what DeviceSignIn promises: however polls, tabs, expiry,
\* crashes and revocations interleave, a code is decided once and told at most once, to
\* the account that approved it, and only a login or such an answer makes a token.
ImplementsDeviceSignIn == SignIn!Spec

\* Of the promise, that an application is told once.
ResolvedOnce == \A d \in Devices : Len(answers[d]) <= 1

\* Whatever a poll was told was decided by exactly one tab, the only one that
\* was told so: two tabs never both decide, and an application signs in as the
\* account that approved it.
DecidedByOneTab ==
    \A d \in Devices :
        /\ Cardinality(decisions[d]) <= 1
        /\ \A i \in DOMAIN answers[d] :
              \E c \in decisions[d] :
                  /\ c.verdict = answers[d][i].verdict
                  /\ c.verdict = "approved" => c.user = answers[d][i].user

\* Once both passes of a reset or recovery have committed, no token remains
\* that a pairing approved before it could have minted, and no such pairing is
\* left to mint one.
SweptMeansGone ==
    \A u \in Users :
        /\ token[u] # None /\ token[u].via = "pairing" => token[u].era >= swept[u]
        /\ \A d \in Bound(u) : pairing[d].era >= swept[u]

\* Polls, tabs and revocations wait for each other's locks, and all come to an end.
EveryoneFinishes ==
    /\ \A p \in Polls : poll[p] # IdlePoll ~> poll[p] = IdlePoll
    /\ \A t \in Tabs : tab[t] # IdleTab ~> tab[t] = IdleTab
    /\ \A v \in Revokers : revoker[v] # IdleRevoker ~> revoker[v] = IdleRevoker
-----------------------------------------------------------------------------
(* The inductive invariant behind the properties. *)

\* What a device code's row says and what its history says agree.
RowsOK ==
    \A d \in Devices :
        /\ \A b, c \in decisions[d] : b = c
        /\ d \notin drawn => ~Exists(d) /\ decisions[d] = {} /\ answers[d] = <<>>
        /\ Exists(d) => answers[d] = <<>>
        /\ Undecided(d) => decisions[d] = {} /\ pairing[d].user = None
        /\ Exists(d) /\ pairing[d].status = "approved" =>
              \E c \in decisions[d] : c.verdict = "approved" /\ c.user = pairing[d].user
        /\ Exists(d) /\ pairing[d].status = "denied" =>
              /\ pairing[d].user = None
              /\ \E c \in decisions[d] : c.verdict = "denied"

\* A poll that resolves a row holds it, and has read what it says.
LocksOK ==
    /\ \A d \in Devices, p \in Polls :
          rowLock[d] = p => poll[p].pc = "resolve" /\ poll[p].device = d
    /\ \A p \in Polls :
          LET q == poll[p] IN
          /\ q.pc # "idle" => q.device \in Devices
          /\ q.pc = "resolve" =>
                /\ rowLock[q.device] = p
                /\ Exists(q.device)
                /\ q.row # None
                /\ q.row.status = pairing[q.device].status
                /\ q.row.user = pairing[q.device].user
                /\ q.row.era = pairing[q.device].era
                /\ q.row.status # "pending"
    /\ \A t \in Tabs : tab[t].pc = "decide" => tab[t].user \in Users /\ tab[t].device \in Devices

\* What the first pass of a revocation achieved lasts: every pairing approved before it
\* is gone, and so, once the second pass has looked, is a token one of them minted.
RevokersOK ==
    /\ \A u \in Users : swept[u] <= era[u]
    /\ \A u \in Users, v \in Revokers :
          advisory[u] = v <=> revoker[v].pc = "pairings" /\ revoker[v].user = u
    /\ \A v \in Revokers :
          LET q == revoker[v] IN
          /\ q.pc # "idle" => q.user \in Users /\ q.era <= era[q.user]
          /\ q.commits = 1 =>
                /\ q.pc # "idle"
                /\ \A d \in Bound(q.user) : pairing[d].era >= q.era
          /\ /\ q.commits = 1 /\ q.pc = "pairings" /\ ~q.doomed
             /\ token[q.user] # None /\ token[q.user].via = "pairing"
             => token[q.user].era >= q.era

IInv == TypeOK /\ RowsOK /\ LocksOK /\ RevokersOK
        /\ ResolvedOnce /\ DecidedByOneTab /\ SweptMeansGone
=============================================================================
