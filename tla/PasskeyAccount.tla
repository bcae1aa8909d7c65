---------------------------- MODULE PasskeyAccount ----------------------------
(***************************************************************************)
(* The sign-in methods of accounts (user_data/passkey_service.py,          *)
(* passkey_manage.py, recovery.py) as concurrent requests against one      *)
(* database.  A request is a worker thread between two waits: it takes one *)
(* step per database statement whose order against other requests matters. *)
(* A transaction that locks the user row is three steps (lock, check,      *)
(* commit); its writes become visible at the commit.  A statement that     *)
(* updates the user row outside such a transaction waits for the lock too. *)
(***************************************************************************)
EXTENDS Naturals, FiniteSets

CONSTANTS Users, Creds, MaxPerUser,
          Requests,       \* worker threads
          None,           \* no user, no request, no link
          MaxPk,          \* bound: passkeys ever stored
          MaxChallenges,  \* bound: live challenges of one purpose and user
          MaxLinks,       \* bound: reset links ever mailed
          MaxVersion,     \* bound: password changes of one account
          MaxClock,       \* bound: recorded logins
          MaxAttempts     \* _MAX_RECOVERY_ATTEMPTS

ASSUME MaxPerUserAssumption == MaxPerUser \in Nat \ {0}
ASSUME NoneAssumption == None \notin Users /\ None \notin Requests

VARIABLES
    passkeys,    \* Passkey rows [pk, user, cred, via]; via is a history field
    nextPk,      \* the sequence behind Passkey.pk
    active,      \* User.is_active
    password,    \* [usable, ver]: each new hash, unusable ones included, is a new ver
    lastLogin,   \* User.last_login, as a reading of clock; 0 is NULL
    clock,       \* the largest reading so far
    epoch,       \* PasskeyEpoch.value; 0 also stands for no row
    challenges,  \* live WebAuthnChallenge rows of each user and purpose
    links,       \* reset links mailed so far
    rowLock,     \* which request holds the user row FOR UPDATE
    req          \* the requests

account == <<active, password, lastLogin, clock>>
vars == <<passkeys, nextPk, active, password, lastLogin, clock, epoch,
          challenges, links, rowLock, req>>

Purposes == {"register", "recover"}
Row == [pk : Nat \ {0}, user : Users, cred : Creds, via : Purposes]
Password == [usable : BOOLEAN, ver : Nat]

\* What a mailed link proves knowledge of.  "had" is a history field: the
\* account's passkeys when the link was made.
Link == [user : Users, ver : Nat, login : Nat, epoch : Nat, had : SUBSET Row]

Of(u) == {p \in passkeys : p.user = u}

Newest(rows) ==
    IF rows = {} THEN 0 ELSE CHOOSE k \in {p.pk : p \in rows} : \A p \in rows : p.pk <= k

LinkValid_NewestPk(l) ==
    /\ l.ver = password[l.user].ver
    /\ l.login = lastLogin[l.user]
    /\ Newest(l.had) = Newest(Of(l.user))
\* check_token: the token is recomputed from the account's present state.
LinkValid(l) ==
    /\ l.ver = password[l.user].ver
    /\ l.login = lastLogin[l.user]
    /\ l.epoch = epoch[l.user]

\* _recovering_user, and AccountRecoveryConfirmView's dispatch and get_user.
LinkOpens(l) == active[l.user] /\ LinkValid(l)

\* A person can prove the account theirs: verify_step_up, or a sign-in.
CanProve(u) == active[u] /\ (password[u].usable \/ Of(u) # {})

Idle == [op |-> "none", pc |-> "idle", user |-> None,
         pk |-> 0, cred |-> None, link |-> None, login |-> 0, tries |-> 1]

\* The bounds count what running requests may still use up, so that no bound
\* stops a request half way.
Running(ops) == Cardinality({r \in Requests : req[r].op \in ops})
RoomForPasskey == nextPk + Running(Purposes) <= MaxPk
RoomForHash(u) == password[u].ver + Running({"reset", "change", "removePassword"}) < MaxVersion
RoomForLogin == clock + Running({"recover"}) < MaxClock

Init ==
    /\ passkeys = {}
    /\ nextPk = 1
    /\ active = [u \in Users |-> TRUE]
    /\ password = [u \in Users |-> [usable |-> TRUE, ver |-> 0]]
    /\ lastLogin = [u \in Users |-> 0]
    /\ clock = 0
    /\ epoch = [u \in Users |-> 0]
    /\ challenges = [u \in Users |-> [p \in Purposes |-> 0]]
    /\ links = {}
    /\ rowLock = [u \in Users |-> None]
    /\ req = [r \in Requests |-> Idle]
-----------------------------------------------------------------------------
(* Requests that are one step. *)

Issue(u, purpose) ==
    /\ challenges[u][purpose] < MaxChallenges
    /\ challenges' = [challenges EXCEPT ![u][purpose] = @ + 1]
    /\ UNCHANGED <<passkeys, nextPk, account, epoch, links, rowLock, req>>

\* register_begin: step-up with the password or an own passkey, then the
\* unlocked look at the cap.
RegisterBegin(u) ==
    /\ CanProve(u)
    /\ Cardinality(Of(u)) < MaxPerUser
    /\ Issue(u, "register")

\* recover_passkey_begin, from a browser whose session holds the link.
RecoverBegin(l) ==
    /\ LinkOpens(l)
    /\ Issue(l.user, "recover")

TakeChallenge_Unchecked(u, purpose) ==
    challenges' = [challenges EXCEPT ![u][purpose] = @ - 1]
TakeChallenge(u, purpose) ==
    /\ challenges[u][purpose] > 0
    /\ challenges' = [challenges EXCEPT ![u][purpose] = @ - 1]

\* The TTL passes; create() purges what is left of the row.
Expire(u, purpose) ==
    /\ TakeChallenge(u, purpose)
    /\ UNCHANGED <<passkeys, nextPk, account, epoch, links, rowLock, req>>

\* AccountRecoveryForm mails a link to an active account.
MailLink(u) ==
    /\ active[u]
    /\ Cardinality(links) < MaxLinks
    /\ links' = links \union {[user |-> u, ver |-> password[u].ver,
                               login |-> lastLogin[u], epoch |-> epoch[u],
                               had |-> Of(u)]}
    /\ UNCHANGED <<passkeys, nextPk, account, epoch, challenges, rowLock, req>>

\* A sign-in moves last_login: one UPDATE of the user row.
RecordLogin(u) ==
    /\ rowLock[u] = None
    /\ clock' = clock + 1
    /\ lastLogin' = [lastLogin EXCEPT ![u] = clock + 1]

SignIn(u) ==
    /\ CanProve(u)
    /\ RoomForLogin
    /\ RecordLogin(u)
    /\ UNCHANGED <<passkeys, nextPk, active, password, epoch, challenges, links,
                   rowLock, req>>

\* An administrator disables the account (Django's admin, not this code).
Deactivate(u) ==
    /\ active[u]
    /\ rowLock[u] = None
    /\ active' = [active EXCEPT ![u] = FALSE]
    /\ UNCHANGED <<passkeys, nextPk, password, lastLogin, clock, epoch,
                   challenges, links, rowLock, req>>
-----------------------------------------------------------------------------
(* Requests that are several steps. *)

Step(r, from, to) ==
    /\ req[r].pc = from
    /\ req' = [req EXCEPT ![r].pc = to]

Start(r, request) ==
    /\ req[r] = Idle
    /\ req' = [req EXCEPT ![r] = request]
    /\ UNCHANGED <<passkeys, nextPk, account, epoch, challenges, links, rowLock>>

RegisterFinish(r, u, c) ==
    /\ active[u]
    /\ RoomForPasskey
    /\ Start(r, [Idle EXCEPT !.op = "register", !.pc = "consume",
                             !.user = u, !.cred = c])

\* recover_passkey_finish: the link is checked here and not again.
RecoverFinish(r, l, c) ==
    /\ LinkOpens(l)
    /\ RoomForPasskey /\ RoomForLogin
    /\ Start(r, [Idle EXCEPT !.op = "recover", !.pc = "consume",
                             !.user = l.user, !.cred = c, !.link = l])

DeletePasskey(r, u, k) ==
    /\ active[u]
    /\ Start(r, [Idle EXCEPT !.op = "delete", !.pc = "lock", !.user = u, !.pk = k])

RemovePassword(r, u) ==
    /\ active[u]
    /\ RoomForHash(u)
    /\ Start(r, [Idle EXCEPT !.op = "removePassword", !.pc = "lock", !.user = u])

\* AccountRecoveryConfirmView.dispatch loads the user, checks that it is
\* active and checks the token; form_valid saves the instance loaded here.
ResetPassword(r, l) ==
    /\ LinkOpens(l)
    /\ RoomForHash(l.user)
    /\ Start(r, [Idle EXCEPT !.op = "reset", !.pc = "save", !.user = l.user,
                             !.link = l, !.login = lastLogin[l.user]])

\* password_change/, which Django's own urls mount beside the reset views.
ChangePassword(r, u) ==
    /\ active[u]
    /\ password[u].usable
    /\ RoomForHash(u)
    /\ Start(r, [Idle EXCEPT !.op = "change", !.pc = "save", !.user = u,
                             !.login = lastLogin[u]])

\* user.save() writes every column of the loaded instance, so is_active and
\* last_login go back to what they were when it was loaded.
SavePassword(r) ==
    LET u == req[r].user IN
    /\ req[r].pc = "save"
    /\ rowLock[u] = None
    /\ password' = [password EXCEPT ![u] = [usable |-> TRUE, ver |-> @.ver + 1]]
    /\ lastLogin' = [lastLogin EXCEPT ![u] = req[r].login]
    /\ active' = [active EXCEPT ![u] = TRUE]
    /\ req' = [req EXCEPT ![r] = Idle]
    /\ UNCHANGED <<passkeys, nextPk, clock, epoch, challenges, links, rowLock>>

\* The challenge row is deleted and committed before the response is verified:
\* a response that fails verification has spent it.
Consume(r) ==
    /\ req[r].pc = "consume"
    /\ TakeChallenge(req[r].user, req[r].op)
    /\ \E verified \in BOOLEAN :
          req' = [req EXCEPT ![r] = IF verified THEN [@ EXCEPT !.pc = "lock"] ELSE Idle]
    /\ UNCHANGED <<passkeys, nextPk, account, epoch, links, rowLock>>

\* Unknown, spent or expired: ChallengeError.
ChallengeGone(r) ==
    /\ req[r].pc = "consume"
    /\ challenges[req[r].user][req[r].op] = 0
    /\ req' = [req EXCEPT ![r] = Idle]
    /\ UNCHANGED <<passkeys, nextPk, account, epoch, challenges, links, rowLock>>

Lock_WithoutForUpdate(r) ==
    /\ Step(r, "lock", "check")
    /\ UNCHANGED <<passkeys, nextPk, account, epoch, challenges, links, rowLock>>
\* select_for_update on the user row.
Lock(r) ==
    /\ Step(r, "lock", "check")
    /\ rowLock[req[r].user] = None
    /\ rowLock' = [rowLock EXCEPT ![req[r].user] = r]
    /\ UNCHANGED <<passkeys, nextPk, account, epoch, challenges, links>>

Unlock_Never(r) == UNCHANGED rowLock
Unlock(r) == rowLock' = [u \in Users |-> IF rowLock[u] = r THEN None ELSE rowLock[u]]

\* What each transaction checks once it holds the lock.
CapOpen_OffByOne(u) == Cardinality(Of(u)) <= MaxPerUser
CapOpen(u) == Cardinality(Of(u)) < MaxPerUser

MayDelete(u, k) ==
    /\ \E p \in Of(u) : p.pk = k
    /\ password[u].usable \/ Cardinality(Of(u)) # 1

MayRemovePassword_NoPasskeyNeeded(u) == password[u].usable
MayRemovePassword(u) == password[u].usable /\ Of(u) # {}

Allowed(r) ==
    /\ req[r].op = "register" => CapOpen(req[r].user)
    /\ req[r].op = "delete" => MayDelete(req[r].user, req[r].pk)
    /\ req[r].op = "removePassword" => MayRemovePassword(req[r].user)

Check(r) ==
    /\ Allowed(r)
    /\ Step(r, "check", "commit")
    /\ UNCHANGED <<passkeys, nextPk, account, epoch, challenges, links, rowLock>>

\* TooManyPasskeys, NotFound, LockoutGuard or WrongPassword: rolled back.
Refuse(r) ==
    /\ req[r].pc = "check"
    /\ ~Allowed(r) \/ req[r].op = "removePassword"
    /\ req' = [req EXCEPT ![r] = Idle]
    /\ Unlock(r)
    /\ UNCHANGED <<passkeys, nextPk, account, epoch, challenges, links>>

BumpEpoch_Forgotten(u) == UNCHANGED epoch
BumpEpoch(u) == epoch' = [epoch EXCEPT ![u] = @ + 1]

\* _store_passkey inserts the row and moves the epoch, or the unique index on
\* credential_id rolls it back.  recover_passkey_finish then signs in.
StorePasskey(r) ==
    LET q == req[r]
        row == [pk |-> nextPk, user |-> q.user, cred |-> q.cred, via |-> q.op]
    IN
    /\ q.op \in Purposes /\ q.pc = "commit"
    /\ \A p \in passkeys : p.cred # q.cred
    /\ passkeys' = passkeys \union {row}
    /\ nextPk' = nextPk + 1
    /\ BumpEpoch(q.user)
    /\ req' = [req EXCEPT ![r] = IF q.op = "recover"
                                 THEN [Idle EXCEPT !.op = "recover", !.pc = "login",
                                                   !.user = q.user]
                                 ELSE Idle]
    /\ Unlock(r)
    /\ UNCHANGED <<account, challenges, links>>

DuplicateCredential(r) ==
    /\ req[r].op \in Purposes /\ req[r].pc = "commit"
    /\ \E p \in passkeys : p.cred = req[r].cred
    /\ req' = [req EXCEPT ![r] = Idle]
    /\ Unlock(r)
    /\ UNCHANGED <<passkeys, nextPk, account, epoch, challenges, links>>

CommitDelete(r) ==
    LET u == req[r].user IN
    /\ req[r].op = "delete" /\ req[r].pc = "commit"
    /\ passkeys' = {p \in passkeys : ~(p.pk = req[r].pk /\ p.user = u)}
    /\ BumpEpoch(u)
    /\ req' = [req EXCEPT ![r] = Idle]
    /\ Unlock(r)
    /\ UNCHANGED <<nextPk, account, challenges, links>>

CommitRemovePassword(r) ==
    LET u == req[r].user IN
    /\ req[r].op = "removePassword" /\ req[r].pc = "commit"
    /\ password' = [password EXCEPT ![u] = [usable |-> FALSE, ver |-> @.ver + 1]]
    /\ req' = [req EXCEPT ![r] = Idle]
    /\ Unlock(r)
    /\ UNCHANGED <<passkeys, nextPk, active, lastLogin, clock, epoch, challenges, links>>

\* login() at the end of recover_passkey_finish.
LoginAfterRecover(r) ==
    /\ req[r].pc = "login"
    /\ RecordLogin(req[r].user)
    /\ req' = [req EXCEPT ![r] = Idle]
    /\ UNCHANGED <<passkeys, nextPk, active, password, epoch, challenges, links, rowLock>>

\* The worker dies or the database refuses the statement: what is not
\* committed never happened.
Abort(r) ==
    /\ req[r] # Idle
    /\ req' = [req EXCEPT ![r] = Idle]
    /\ Unlock(r)
    /\ UNCHANGED <<passkeys, nextPk, account, epoch, challenges, links>>

\* _run_with_retry: a recovery's transaction met a deadlock; it is rolled back
\* and starts over, a bounded number of times.
Retry(r) ==
    /\ req[r].op = "recover" /\ req[r].pc \in {"check", "commit"}
    /\ req[r].tries < MaxAttempts
    /\ req' = [req EXCEPT ![r].pc = "lock", ![r].tries = @ + 1]
    /\ Unlock(r)
    /\ UNCHANGED <<passkeys, nextPk, account, epoch, challenges, links>>

RequestStep(r) ==
    \/ SavePassword(r) \/ Consume(r) \/ ChallengeGone(r) \/ Lock(r) \/ Check(r) \/ Refuse(r)
    \/ StorePasskey(r) \/ DuplicateCredential(r)
    \/ CommitDelete(r) \/ CommitRemovePassword(r) \/ LoginAfterRecover(r)

Next ==
    \/ \E u \in Users : \/ RegisterBegin(u) \/ MailLink(u) \/ SignIn(u) \/ Deactivate(u)
                        \/ \E p \in Purposes : Expire(u, p)
    \/ \E l \in links : RecoverBegin(l)
    \/ \E r \in Requests :
          \/ \E u \in Users, c \in Creds : RegisterFinish(r, u, c)
          \/ \E l \in links, c \in Creds : RecoverFinish(r, l, c)
          \/ \E u \in Users, p \in passkeys : DeletePasskey(r, u, p.pk)
          \/ \E u \in Users : RemovePassword(r, u) \/ ChangePassword(r, u)
          \/ \E l \in links : ResetPassword(r, l)
          \/ RequestStep(r) \/ Abort(r) \/ Retry(r)

Spec == Init /\ [][Next]_vars

\* The server keeps running: a request's next step is taken, and the user row,
\* which PostgreSQL hands over in the order of its queue, reaches each waiter.
UserRowStep(r) == Lock(r) \/ SavePassword(r) \/ LoginAfterRecover(r)

Fairness ==
    \A r \in Requests : WF_vars(RequestStep(r)) /\ SF_vars(UserRowStep(r))

FairSpec == Spec /\ Fairness
-----------------------------------------------------------------------------
(* Properties. *)

RequestState ==
    [op : Purposes \union {"none", "delete", "removePassword", "reset", "change"},
     pc : {"idle", "consume", "lock", "check", "commit", "save", "login"},
     user : Users \union {None}, pk : Nat, cred : Creds \union {None},
     link : Link \union {None}, login : Nat, tries : Nat]

\* Every variable holds a value of its kind.
TypeOK ==
    /\ passkeys \subseteq Row
    /\ nextPk \in Nat \ {0}
    /\ active \in [Users -> BOOLEAN]
    /\ password \in [Users -> Password]
    /\ lastLogin \in [Users -> Nat]
    /\ clock \in Nat
    /\ epoch \in [Users -> Nat]
    /\ challenges \in [Users -> [Purposes -> Nat]]
    /\ links \subseteq Link
    /\ rowLock \in [Users -> Requests \union {None}]
    /\ req \in [Requests -> RequestState]

\* No interleaving of delete, remove-password, reset and recovery leaves an
\* account with neither a password nor a passkey (LockoutGuard).
NeverLockedOut ==
    \A u \in Users : password[u].usable \/ Of(u) # {}

\* finish_register never pushes an account over PASSKEY_MAX_PER_USER, however
\* many finishes passed the unlocked check of begin_register: a registered
\* passkey always has fewer than that many older ones beside it.  Recovery may
\* exceed the cap.
RegisteredWithinCap ==
    \A p \in passkeys :
        p.via = "register" =>
            Cardinality({q \in Of(p.user) : q.pk < p.pk}) < MaxPerUser

\* While a mailed link still works, the account has exactly the passkeys it had
\* when the link was made: any add or delete since then has spent it.
LinkMeansUnchanged ==
    \A l \in links : LinkValid(l) => l.had = Of(l.user)

\* A link that has stopped working never works again, although a password
\* reset may put last_login back and a passkey may be added and deleted.
DeadLinkStaysDead ==
    [][\A l \in links : ~LinkValid(l) => ~LinkValid(l)']_vars

\* recovery.py: a link issued before a deactivation can never be used to create
\* a passkey on a now-disabled account.
DisabledGainsNothing ==
    [][\A p \in passkeys' \ passkeys : p.via = "recover" => active[p.user]]_vars

\* Each change of the sign-in methods is one step of the atomic description.
Atomic == INSTANCE SignInMethods
              WITH held <- {<<p.user, p.cred>> : p \in passkeys},
                   hasPassword <- [u \in Users |-> password[u].usable]
ImplementsSignInMethods == Atomic!Spec

\* Every request is answered: nobody waits for the row lock for ever.
RequestAnswered ==
    \A r \in Requests : req[r] # Idle ~> req[r] = Idle
-----------------------------------------------------------------------------
(* The inductive invariant behind the safety properties. *)

\* A running request acts for an account, and its program counter fits its
\* operation.
RequestOK ==
    \A r \in Requests :
        LET q == req[r] IN
        /\ q.pc # "idle" => q.user \in Users
        /\ q.pc = "consume" => q.op \in Purposes
        /\ q.pc \in {"lock", "check", "commit"} =>
              q.op \in Purposes \union {"delete", "removePassword"}
        /\ q.pc \in {"consume", "lock", "check", "commit"} /\ q.op \in Purposes =>
              q.cred \in Creds

\* Nothing was recorded after now.
ClockOK ==
    /\ \A u \in Users : lastLogin[u] <= clock
    /\ \A r \in Requests : req[r].login <= clock

\* Between its lock and its commit a request holds the row; only then.
LockOK ==
    \A r \in Requests :
        req[r].pc \in {"check", "commit"} => rowLock[req[r].user] = r

\* What a transaction found when it checked still holds when it commits.
CheckOK ==
    \A r \in Requests : req[r].pc = "commit" => Allowed(r)

\* Ids grow, and neither an id nor a credential belongs to two passkeys.
RowsOK ==
    /\ IsFiniteSet(passkeys)
    /\ \A p \in passkeys : p.pk < nextPk
    /\ \A p, q \in passkeys : p.pk = q.pk \/ p.cred = q.cred => p = q

\* A link is never ahead of its account; one of the present epoch saw the
\* present passkeys.
LinksOK ==
    \A l \in links :
        /\ l.ver <= password[l.user].ver
        /\ l.login <= clock
        /\ l.epoch <= epoch[l.user]
        /\ l.epoch = epoch[l.user] => l.had = Of(l.user)

IInv ==
    /\ TypeOK
    /\ RequestOK
    /\ ClockOK
    /\ LockOK
    /\ CheckOK
    /\ RowsOK
    /\ LinksOK
    /\ NeverLockedOut
    /\ RegisteredWithinCap
=============================================================================
