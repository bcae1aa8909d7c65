------------------------------ MODULE PasskeySignIn ------------------------------
(***************************************************************************)
(* Using passkeys: the assertion that signs a browser in or proves a       *)
(* step-up (passkey_service._verify_assertion, finish_login,               *)
(* verify_step_up), its single-use challenge (passkey_challenges.py), and  *)
(* the browser sessions an assertion makes and a recovery ends             *)
(* (account_tokens.delete_user_sessions).  A request is a worker thread, a *)
(* step one statement whose order against the others matters.  Which       *)
(* passkeys an account may have is PasskeyAccount's subject.               *)
(***************************************************************************)
EXTENDS Naturals, FiniteSets, Sequences, SequencesExt

CONSTANTS Users,
          Passkeys,
          OwnerOf,       \* the account of each passkey
          Requests,
          None,
          Chunk,         \* _SESSION_DELETE_CHUNK
          MaxTries,      \* _MAX_RECOVERY_ATTEMPTS
          MaxChallenges, \* bound: login challenges ever issued
          MaxCount,      \* bound: signature counters
          MaxSessions    \* bound: session rows ever made

ASSUME SignInAssumption ==
    /\ OwnerOf \in [Passkeys -> Users]
    /\ None \notin Requests \union Users \union Passkeys
    /\ Chunk \in Nat \ {0}
    /\ MaxTries \in Nat \ {0}
    /\ {MaxChallenges, MaxCount, MaxSessions} \subseteq Nat

VARIABLES
    live,          \* challenges that exist and have not expired
    nextChallenge,
    challengeLock, \* which request holds a challenge's row
    spent,         \* history: how many requests took each challenge
    stored,        \* Passkey rows: whether it is there, and sign_count
    userLock,      \* which recovery holds the user's row FOR UPDATE
    sessions,      \* django_session rows that sign a user in, with their key
    nextSession,
    swept,         \* history: what the newest session at an account's last sweep was
    req

challengeVars == <<live, nextChallenge, challengeLock, spent>>
sessionVars == <<sessions, nextSession, swept>>
vars == <<challengeVars, stored, userLock, sessionVars, req>>

Kinds == {"login", "stepup", "recover"}
Challenges == 1 .. MaxChallenges
Session == [id : 1 .. MaxSessions, user : Users]

\* user: who asks for a step-up or recovers; mine: the key of the recovering browser's
\* session; keep, stale, before, tries: arguments and locals of the sweep.  A request forgets what it no longer uses.
Idle == [pc |-> "idle", kind |-> "login", user |-> None, challenge |-> 0, key |-> None,
         count |-> 0, mine |-> 0, keep |-> 0, stale |-> {}, before |-> 1, tries |-> 0]

Init ==
    /\ live = {}
    /\ nextChallenge = 1
    /\ challengeLock = [c \in Challenges |-> None]
    /\ spent = [c \in Challenges |-> 0]
    /\ stored = [p \in Passkeys |-> [there |-> TRUE, count |-> 0]]
    /\ userLock = [u \in Users |-> None]
    /\ sessions = {}
    /\ nextSession = 1
    /\ swept = [u \in Users |-> [before |-> 1, keep |-> 0]]
    /\ req = [r \in Requests |-> Idle]

Goto(r, pc) == req' = [req EXCEPT ![r].pc = pc]
Done(r) == req' = [req EXCEPT ![r] = Idle]
-----------------------------------------------------------------------------
(* The challenge. *)

BeginLogin ==
    /\ nextChallenge \in Challenges
    /\ live' = live \union {nextChallenge}
    /\ nextChallenge' = nextChallenge + 1
    /\ UNCHANGED <<challengeLock, spent, stored, userLock, sessionVars, req>>

\* PASSKEY_CHALLENGE_TTL; the purge of expired rows waits for a row that is locked.
Expire(c) ==
    /\ c \in live
    /\ challengeLock[c] = None
    /\ live' = live \ {c}
    /\ UNCHANGED <<nextChallenge, challengeLock, spent, stored, userLock, sessionVars, req>>

\* An assertion is posted, for a sign-in or as u's step-up; its challenge may be one
\* that was answered before.
Submit(r, kind, u, c) ==
    /\ req[r] = Idle
    /\ c \in Challenges /\ c < nextChallenge
    /\ kind \in {"login", "stepup"}
    /\ u = None <=> kind = "login"
    /\ req' = [req EXCEPT ![r] = [Idle EXCEPT !.pc = "select", !.kind = kind,
                                              !.user = u, !.challenge = c]]
    /\ UNCHANGED <<challengeVars, stored, userLock, sessionVars>>

ConsumeSelect_WithoutForUpdate(r) ==
    LET c == req[r].challenge IN
    /\ req[r].pc = "select"
    /\ IF c \in live THEN Goto(r, "delete") ELSE Done(r)
    /\ UNCHANGED <<challengeVars, stored, userLock, sessionVars>>
\* consume: SELECT FOR UPDATE; a request that waited looks at the row again.
ConsumeSelect(r) ==
    LET c == req[r].challenge IN
    /\ req[r].pc = "select"
    /\ challengeLock[c] = None
    /\ IF c \in live
       THEN /\ challengeLock' = [challengeLock EXCEPT ![c] = r]
            /\ Goto(r, "delete")
       ELSE /\ Done(r)
            /\ UNCHANGED challengeLock
    /\ UNCHANGED <<live, nextChallenge, spent, stored, userLock, sessionVars>>

Released_Never(lock, r) == lock
Released(lock, r) == [x \in DOMAIN lock |-> IF lock[x] = r THEN None ELSE lock[x]]

\* consume: the row is deleted and the durable transaction commits.
ConsumeDelete(r) ==
    LET c == req[r].challenge IN
    /\ req[r].pc = "delete"
    /\ live' = live \ {c}
    /\ spent' = [spent EXCEPT ![c] = @ + 1]
    /\ challengeLock' = Released(challengeLock, r)
    /\ req' = [req EXCEPT ![r].pc = "verify", ![r].challenge = 0]
    /\ UNCHANGED <<nextChallenge, stored, userLock, sessionVars>>
-----------------------------------------------------------------------------
(* The assertion. *)

\* py_webauthn: a counter that is kept must have moved.
CountOk(old, new) == (old = 0 /\ new = 0) \/ new > old

OwnerOk(q, p) == q.kind = "stepup" => OwnerOf[p] = q.user

\* The passkey is read with its user, then the response verified against the two.
Verify(r, p, n) ==
    /\ req[r].pc = "verify"
    /\ stored[p].there
    /\ OwnerOk(req[r], p)
    /\ CountOk(stored[p].count, n)
    /\ req' = [req EXCEPT ![r].pc = "record", ![r].key = p, ![r].count = n]
    /\ UNCHANGED <<challengeVars, stored, userLock, sessionVars>>

\* InvalidCredentials.
Reject(r) ==
    /\ req[r].pc = "verify"
    /\ Done(r)
    /\ UNCHANGED <<challengeVars, stored, userLock, sessionVars>>

NewCount_AsVerified(old, new) == new
\* Greatest.
NewCount(old, new) == IF new > old THEN new ELSE old

\* After the update: a step-up is proved, a sign-in goes on unless the user read with
\* the passkey was inactive.
Proved(r) ==
    \/ Done(r)
    \/ /\ req[r].kind = "login"
       /\ req' = [req EXCEPT ![r].pc = "stamp", ![r].count = 0]

Record_RowsNotCounted(r) ==
    LET p == req[r].key IN
    /\ req[r].pc = "record"
    /\ stored' = [stored EXCEPT ![p].count =
                     IF stored[p].there THEN NewCount(@, req[r].count) ELSE @]
    /\ Proved(r)
    /\ UNCHANGED <<challengeVars, userLock, sessionVars>>
\* The conditional update; no row, no sign-in.
Record(r) ==
    LET p == req[r].key IN
    /\ req[r].pc = "record"
    /\ IF stored[p].there
       THEN /\ stored' = [stored EXCEPT ![p].count = NewCount(@, req[r].count)]
            /\ Proved(r)
       ELSE /\ Done(r)
            /\ UNCHANGED stored
    /\ UNCHANGED <<challengeVars, userLock, sessionVars>>

\* finish_login records last_login, which waits for a lock on the user's row.
Stamp(r) ==
    /\ req[r].pc = "stamp"
    /\ userLock[OwnerOf[req[r].key]] = None
    /\ Goto(r, "login")
    /\ UNCHANGED <<challengeVars, stored, userLock, sessionVars>>

\* login(), counted from the response's save, which puts the user into the row.
Login(r) ==
    /\ req[r].pc = "login"
    /\ req[r].kind = "login"
    /\ nextSession <= MaxSessions
    /\ sessions' = sessions \union {[id |-> nextSession, user |-> OwnerOf[req[r].key]]}
    /\ nextSession' = nextSession + 1
    /\ Done(r)
    /\ UNCHANGED <<challengeVars, stored, userLock, swept>>
-----------------------------------------------------------------------------
(* A recovery signs every other browser out. *)

KeepKey_BeforeCycle(old, new) == old
KeepKey(old, new) == new

\* recover_passkey_finish: the browser, perhaps signed in already, as anyone (own), gets
\* a new key for its session, which the sweep is told to keep.
Recover(r, u) ==
    /\ req[r] = Idle
    /\ nextSession <= MaxSessions
    /\ \E own \in {0} \union {s.id : s \in sessions} :
          /\ sessions' = {IF s.id = own THEN [s EXCEPT !.id = nextSession] ELSE s :
                             s \in sessions}
          /\ req' = [req EXCEPT ![r] =
                        [Idle EXCEPT !.pc = "scan", !.kind = "recover", !.user = u,
                                     !.mine = nextSession, !.keep = KeepKey(own, nextSession)]]
    /\ nextSession' = nextSession + 1
    /\ UNCHANGED <<challengeVars, stored, userLock, swept>>

\* Transaction B: the user's row is locked, then delete_user_sessions reads the rows.
Scan(r) ==
    LET u == req[r].user IN
    /\ req[r].pc = "scan"
    /\ userLock[u] = None
    /\ userLock' = [userLock EXCEPT ![u] = r]
    /\ req' = [req EXCEPT ![r].pc = "sweep",
                          ![r].stale = {s.id : s \in {t \in sessions : t.user = u}}
                                       \ {req[r].keep},
                          ![r].before = nextSession,
                          ![r].tries = @ + 1]
    /\ UNCHANGED <<challengeVars, stored, sessionVars>>

InChunks_FirstOnly(keys) ==
    LET list == SetToSeq(keys) IN {list[n] : n \in {m \in DOMAIN list : m <= Chunk}}
\* What the chunked deletes remove.
InChunks(keys) ==
    LET list == SetToSeq(keys) IN
    UNION {{list[n] : n \in {m \in DOMAIN list : k * Chunk < m /\ m <= (k + 1) * Chunk}} :
              k \in {j \in 0 .. Len(list) : j * Chunk < Len(list)}}

\* The chunks, one after the other in the transaction, and its commit.
Sweep(r) ==
    LET q == req[r] IN
    /\ q.pc = "sweep"
    /\ LET gone == InChunks(q.stale) IN sessions' = {s \in sessions : s.id \notin gone}
    /\ swept' = [swept EXCEPT ![q.user] = [before |-> q.before, keep |-> q.keep]]
    /\ userLock' = Released(userLock, r)
    /\ req' = [req EXCEPT ![r] = [Idle EXCEPT !.pc = "login", !.kind = "recover",
                                              !.user = q.user, !.mine = q.mine]]
    /\ UNCHANGED <<challengeVars, stored, nextSession>>

\* The transaction fails: _run_with_retry tries a deadlock again, from the lock on.
SweepFails(r) ==
    /\ req[r].pc = "sweep"
    /\ userLock' = Released(userLock, r)
    /\ Done(r) \/ (req[r].tries < MaxTries /\ Goto(r, "scan"))
    /\ UNCHANGED <<challengeVars, stored, sessionVars>>

\* login() by the recovery: its session's key changes once more, and its user if it was
\* another's.
RecoverLogin(r) ==
    LET u == req[r].user IN
    /\ req[r].pc = "login"
    /\ req[r].kind = "recover"
    /\ userLock[u] = None
    /\ nextSession <= MaxSessions
    /\ sessions' = {s \in sessions : s.id # req[r].mine} \union {[id |-> nextSession, user |-> u]}
    /\ nextSession' = nextSession + 1
    /\ Done(r)
    /\ UNCHANGED <<challengeVars, stored, userLock, swept>>
-----------------------------------------------------------------------------
(* Everything else. *)

\* The worker dies: an open transaction rolls back.
Abort(r) ==
    /\ req[r] # Idle
    /\ challengeLock' = Released(challengeLock, r)
    /\ userLock' = Released(userLock, r)
    /\ Done(r)
    /\ UNCHANGED <<live, nextChallenge, spent, stored, sessionVars>>

\* delete_passkey, under the user's lock.
DeletePasskey(p) ==
    /\ stored[p].there
    /\ userLock[OwnerOf[p]] = None
    /\ stored' = [stored EXCEPT ![p] = [there |-> FALSE, count |-> 0]]
    /\ UNCHANGED <<challengeVars, userLock, sessionVars, req>>

Logout(s) ==
    /\ sessions' = sessions \ {s}
    /\ UNCHANGED <<challengeVars, stored, userLock, nextSession, swept, req>>

Next ==
    \/ BeginLogin
    \/ \E c \in Challenges : Expire(c)
    \/ \E p \in Passkeys : DeletePasskey(p)
    \/ \E s \in sessions : Logout(s)
    \/ \E r \in Requests :
          \/ \E kind \in Kinds, u \in Users \union {None}, c \in Challenges :
                Submit(r, kind, u, c)
          \/ ConsumeSelect(r) \/ ConsumeDelete(r)
          \/ \E p \in Passkeys, n \in 0 .. MaxCount : Verify(r, p, n)
          \/ Reject(r) \/ Record(r) \/ Stamp(r) \/ Login(r)
          \/ \E u \in Users : Recover(r, u)
          \/ Scan(r) \/ Sweep(r) \/ SweepFails(r) \/ RecoverLogin(r)
          \/ Abort(r)

Spec == Init /\ [][Next]_vars
-----------------------------------------------------------------------------
(* Properties. *)

Request == [pc : {"idle", "select", "delete", "verify", "record", "stamp", "login",
                  "scan", "sweep"},
            kind : Kinds, user : Users \union {None},
            challenge : 0 .. MaxChallenges, key : Passkeys \union {None},
            count : 0 .. MaxCount, mine : 0 .. MaxSessions, keep : 0 .. MaxSessions, stale : SUBSET (1 .. MaxSessions),
            before : 1 .. MaxSessions + 1, tries : 0 .. MaxTries]

\* Every variable holds a value of its kind, and a row is locked only by a request
\* inside its transaction.
TypeOK ==
    /\ live \subseteq Challenges
    /\ nextChallenge \in 1 .. MaxChallenges + 1
    /\ challengeLock \in [Challenges -> Requests \union {None}]
    /\ spent \in [Challenges -> Nat]
    /\ stored \in [Passkeys -> [there : BOOLEAN, count : 0 .. MaxCount]]
    /\ userLock \in [Users -> Requests \union {None}]
    /\ sessions \subseteq Session
    /\ nextSession \in 1 .. MaxSessions + 1
    /\ swept \in [Users -> [before : 1 .. MaxSessions + 1, keep : 0 .. MaxSessions]]
    /\ req \in [Requests -> Request]
    /\ \A c \in Challenges, r \in Requests :
          challengeLock[c] = r => req[r].pc = "delete" /\ req[r].challenge = c
    /\ \A u \in Users, r \in Requests :
          userLock[u] = r => req[r].pc = "sweep" /\ req[r].user = u

\* However often an assertion is posted again, at once or later, its challenge is
\* accepted once.
ChallengeSpentOnce == \A c \in Challenges : spent[c] <= 1

\* No order of two assertions takes a passkey's signature counter back.
CounterNeverFalls ==
    [][\A p \in Passkeys : stored[p].there /\ stored[p].there'
                              => stored[p].count <= stored[p].count']_vars

\* A step-up never touches the counter of another account's passkey.
StepUpTouchesOwn ==
    [][\A p \in Passkeys, r \in Requests :
          /\ req[r].pc = "record" /\ req[r].kind = "stepup" /\ req[r].key = p
          /\ req[r].pc' # "record"
          /\ stored[p].count' > stored[p].count
          => req[r].user = OwnerOf[p]]_vars

\* A passkey that was deleted while its assertion was verified signs nobody in.
DeletedSignsNobodyIn ==
    [][\A r \in Requests :
          req[r].pc # "stamp" /\ req[r].pc' = "stamp" => stored[req[r].key].there]_vars

\* A recovery's sweep leaves no session that signed its user in before the sweep,
\* but the recovering browser's own.
SweptSessionsGone ==
    \A s \in sessions :
        s.id < swept[s.user].before => s.id = swept[s.user].keep

\* The sweep never ends the session of the browser that recovers.
RecovererStaysIn ==
    [][\A r \in Requests :
          req[r].kind = "recover" /\ req[r].pc = "sweep" /\ req[r].pc' = "login"
             => \A s \in sessions : s.id = req[r].mine => s \in sessions']_vars
-----------------------------------------------------------------------------
(* What all of this amounts to: PasskeyUse. *)

\* Whose account a request may sign its browser in to.
EntitledTo(q) ==
    IF q.pc \notin {"stamp", "login"} THEN None
    ELSE IF q.kind = "recover" THEN q.user ELSE OwnerOf[q.key]

Phase == [c \in Challenges |-> IF c >= nextChallenge THEN "unissued"
                               ELSE IF c \in live THEN "live" ELSE "gone"]
Proving == {r \in Requests : req[r].pc \in {"verify", "record"}}
Entitled == [r \in Requests |-> EntitledTo(req[r])]

Use == INSTANCE PasskeyUse WITH challenge <- Phase, passkey <- stored, spent <- Proving,
                                entitled <- Entitled, nextKey <- nextSession

\* Whatever its requests do at once, retry or leave undone, each step is one PasskeyUse
\* allows: a challenge is spent once, a proof needs one, a sign-in needs a proof or a
\* recovery that has swept, and no recovery ends another account's session.
ImplementsPasskeyUse == Use!Spec
-----------------------------------------------------------------------------
(* The inductive invariant behind the properties. *)

\* What a request carries fits what it does next: the key it verified, the account it
\* asks for, the session it keeps.
RequestOK ==
    \A r \in Requests :
        LET q == req[r] IN
        /\ q.pc \in {"select", "delete"} => q.challenge \in Challenges
        /\ q.kind = "recover" => q.pc \in {"scan", "sweep", "login"} /\ q.user \in Users
        /\ q.pc \in {"scan", "sweep"} => q.kind = "recover" /\ q.keep = q.mine
        /\ q.pc = "scan" => q.tries < MaxTries
        /\ q.pc \in {"record", "stamp", "login"} /\ q.kind # "recover" => q.key \in Passkeys
        /\ q.pc = "record" => OwnerOk(q, q.key)

\* A challenge that is live was never taken; whoever deletes one holds its row.
ChallengeOK ==
    /\ \A c \in Challenges :
          /\ c \in live => spent[c] = 0
          /\ c >= nextChallenge => c \notin live /\ spent[c] = 0
    /\ \A r \in Requests :
          req[r].pc = "delete" =>
              req[r].challenge \in live /\ challengeLock[req[r].challenge] = r

\* Every session its user had when a sweep read the rows is on the sweep's list, but
\* the one to keep.
SweepOK ==
    \A r \in Requests :
        LET q == req[r] IN
        q.pc = "sweep" =>
            /\ q.before <= nextSession
            /\ q.keep \notin q.stale
            /\ \A s \in sessions :
                  s.user = q.user /\ s.id < q.before => s.id \in q.stale \union {q.keep}

SweptOK ==
    /\ \A u \in Users : swept[u].before <= nextSession
    /\ \A s \in sessions : s.id < nextSession

\* A key is one session's, and what a sweep has listed is its own user's.
KeysOK ==
    /\ \A s, t \in sessions : s.id = t.id => s = t
    /\ \A r \in Requests, s \in sessions :
          req[r].pc = "sweep" /\ s.id \in req[r].stale => s.user = req[r].user
    /\ \A r \in Requests : \A id \in req[r].stale : id < nextSession

IInv == TypeOK /\ RequestOK /\ ChallengeOK /\ SweepOK /\ SweptOK
        /\ ChallengeSpentOnce /\ SweptSessionsGone
=============================================================================
