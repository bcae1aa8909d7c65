--------------------------------- MODULE Signup ---------------------------------
(***************************************************************************)
(* The life of an account: two ways to sign up (serializers.py,            *)
(* passkey_service.begin_signup and finish_signup), the verification link  *)
(* (auth_views.py), and purge_unactivated, which deletes passkey sign-ups  *)
(* that were never verified.  A request is a worker thread; a step is one  *)
(* statement whose order against the others matters.  What a verified      *)
(* account does with its sign-in methods is PasskeyAccount's subject; here *)
(* it shows when an administrator disables the account.                    *)
(***************************************************************************)
EXTENDS Naturals, FiniteSets

CONSTANTS Names,      \* usernames as stored, after NFKC
          Fold,       \* the spelling of a name that iexact compares
          Emails,     \* addresses up to iexact and _unicode_ci_compare, as one relation
          Requests,
          None,       \* no request, no user
          MaxUsers,   \* bound: accounts ever made
          MaxChallenges \* bound: live sign-up challenges

ASSUME NoneAssumption == None \notin Requests

VARIABLES
    users,       \* User rows, with the columns the purge looks at
    nextId,
    challenges,  \* live sign-up challenges by their payload, one of each at most
    links,       \* ids whose verification link still verifies
    emailLock,   \* which request holds lock_signup_email of an address
    req,         \* the requests
    purge        \* the purge_unactivated process

vars == <<users, nextId, challenges, links, emailLock, req, purge>>

Kinds == {"password", "passkey"}

\* old: date_joined is EMAIL_VERIFICATION_MAX_AGE ago; login: last_login is set;
\* verified is a history field.
User == [id : Nat \ {0}, name : Names, email : Emails,
         active : BOOLEAN, usable : BOOLEAN, passkey : BOOLEAN,
         login : BOOLEAN, old : BOOLEAN, verified : BOOLEAN]

Idle == [pc |-> "idle", kind |-> "password", name |-> None, email |-> None, id |-> 0]
Asleep == [pc |-> "idle", ids |-> {}, active |-> {}]

Ids == {u.id : u \in users}

\* _username_taken and _email_taken.
UsernameTaken(n) == \E u \in users : Fold[u.name] = Fold[n]
EmailTaken(e) == \E u \in users : u.email = e

Init ==
    /\ users = {}
    /\ nextId = 1
    /\ challenges = {}
    /\ links = {}
    /\ emailLock = [e \in Emails |-> None]
    /\ req = [r \in Requests |-> Idle]
    /\ purge = Asleep
-----------------------------------------------------------------------------
(* Signing up. *)

\* begin_signup: AccountIdentitySerializer without a lock, then a challenge.
BeginSignup(n, e) ==
    /\ ~UsernameTaken(n) /\ ~EmailTaken(e)
    /\ Cardinality(challenges) < MaxChallenges
    /\ challenges' = challenges \union {<<n, e>>}
    /\ UNCHANGED <<users, nextId, links, emailLock, req, purge>>

\* A sign-up challenge reaches its TTL.
ExpireChallenge(c) ==
    /\ challenges' = challenges \ {c}
    /\ UNCHANGED <<users, nextId, links, emailLock, req, purge>>

FinishSignup_NameLost(r, c) ==
    /\ req[r] = Idle
    /\ challenges' = challenges \ {c}
    /\ req' = [req EXCEPT ![r] = [Idle EXCEPT !.pc = "lock", !.kind = "passkey",
                                              !.email = c[2]]]
    /\ UNCHANGED <<users, nextId, links, emailLock, purge>>
\* finish_signup spends the challenge before it verifies the response.
FinishSignup(r, c) ==
    /\ req[r] = Idle
    /\ challenges' = challenges \ {c}
    /\ \E verified \in BOOLEAN :
          req' = IF verified
                 THEN [req EXCEPT ![r] = [Idle EXCEPT !.pc = "lock", !.kind = "passkey",
                                                      !.name = c[1], !.email = c[2]]]
                 ELSE req
    /\ UNCHANGED <<users, nextId, links, emailLock, purge>>

\* rest_register: is_valid without a lock, then save.
Register(r, n, e) ==
    /\ req[r] = Idle
    /\ ~UsernameTaken(n) /\ ~EmailTaken(e)
    /\ req' = [req EXCEPT ![r] = [Idle EXCEPT !.pc = "lock", !.kind = "password",
                                              !.name = n, !.email = e]]
    /\ UNCHANGED <<users, nextId, challenges, links, emailLock, purge>>

LockEmail_NotTaken(r) ==
    /\ req[r].pc = "lock"
    /\ req' = [req EXCEPT ![r].pc = "check"]
    /\ UNCHANGED <<users, nextId, challenges, links, emailLock, purge>>
\* lock_signup_email.
LockEmail(r) ==
    /\ req[r].pc = "lock"
    /\ emailLock[req[r].email] = None
    /\ emailLock' = [emailLock EXCEPT ![req[r].email] = r]
    /\ req' = [req EXCEPT ![r].pc = "check"]
    /\ UNCHANGED <<users, nextId, challenges, links, purge>>

Unlock(r) == emailLock' = [e \in Emails |-> IF emailLock[e] = r THEN None ELSE emailLock[e]]

\* Under the lock a passkey sign-up checks the whole identity again, a password
\* sign-up the address.
StillFree(q) == ~EmailTaken(q.email) /\ (q.kind = "passkey" => ~UsernameTaken(q.name))

Recheck(r) ==
    /\ req[r].pc = "check"
    /\ StillFree(req[r])
    /\ req' = [req EXCEPT ![r].pc = "insert"]
    /\ UNCHANGED <<users, nextId, challenges, links, emailLock, purge>>

\* SignupInvalid, or the serializer's ValidationError.
Taken(r) ==
    /\ req[r].pc = "check"
    /\ ~StillFree(req[r])
    /\ req' = [req EXCEPT ![r] = Idle]
    /\ Unlock(r)
    /\ UNCHANGED <<users, nextId, challenges, links, purge>>

\* The inactive account, with its first passkey or its password, commits.
Insert(r) ==
    LET q == req[r] IN
    /\ q.pc = "insert"
    /\ nextId <= MaxUsers
    /\ \A u \in users : u.name # q.name
    /\ users' = users \union
                {[id |-> nextId, name |-> q.name, email |-> q.email,
                  active |-> FALSE, usable |-> q.kind = "password",
                  passkey |-> q.kind = "passkey",
                  login |-> FALSE, old |-> FALSE, verified |-> FALSE]}
    /\ nextId' = nextId + 1
    /\ req' = [req EXCEPT ![r] = [Idle EXCEPT !.pc = "mail", !.id = nextId]]
    /\ Unlock(r)
    /\ UNCHANGED <<challenges, links, purge>>

\* The unique index on username, or on the credential, refuses the rows.
InsertRefused(r) ==
    LET q == req[r] IN
    /\ q.pc = "insert"
    /\ q.kind = "passkey" \/ \E u \in users : u.name = q.name
    /\ req' = [req EXCEPT ![r] = Idle]
    /\ Unlock(r)
    /\ UNCHANGED <<users, nextId, challenges, links, purge>>

\* _send_verification_email, after the commit; Abort stands for an outage.
Mail(r) ==
    /\ req[r].pc = "mail"
    /\ links' = links \union {req[r].id}
    /\ req' = [req EXCEPT ![r] = Idle]
    /\ UNCHANGED <<users, nextId, challenges, emailLock, purge>>

\* The worker dies or the mail server is out: what is committed stays.
Abort(r) ==
    /\ req[r] # Idle
    /\ req' = [req EXCEPT ![r] = Idle]
    /\ Unlock(r)
    /\ UNCHANGED <<users, nextId, challenges, links, purge>>
-----------------------------------------------------------------------------
(* The verification link. *)

\* EMAIL_VERIFICATION_MAX_AGE after the account's date_joined; and after the
\* whole second in which its link was signed, which began before date_joined or
\* later, so either age may be reached first.
GrowOld(u) ==
    /\ ~u.old
    /\ users' = (users \ {u}) \union {[u EXCEPT !.old = TRUE]}
    /\ UNCHANGED <<nextId, challenges, links, emailLock, req, purge>>
LinkExpires(id) ==
    /\ links' = links \ {id}
    /\ UNCHANGED <<users, nextId, challenges, emailLock, req, purge>>

\* _activate_from_token: the signature and its age, then the account as it is.
OpenLink(r, id) ==
    /\ req[r] = Idle
    /\ \E u \in users : u.id = id /\ ~u.active
    /\ req' = [req EXCEPT ![r] = [Idle EXCEPT !.pc = "activate", !.id = id]]
    /\ UNCHANGED <<users, nextId, challenges, links, emailLock, purge>>

Saved_OrInserted(q) ==
    LET old == {u \in users : u.id = q.id} IN
    users' = (users \ old) \union
             {[u EXCEPT !.active = TRUE, !.verified = TRUE] :
                 u \in IF old # {} THEN old
                       ELSE [id : {q.id}, name : Names, email : Emails,
                             active : {TRUE}, usable : {FALSE}, passkey : {FALSE},
                             login : {FALSE}, old : {TRUE}, verified : {TRUE}]}
\* save(update_fields=['is_active']): an UPDATE, which a deleted row makes fail.
Saved(q) ==
    users' = {IF u.id = q.id THEN [u EXCEPT !.active = TRUE, !.verified = TRUE] ELSE u :
                 u \in users}

Activate(r) ==
    /\ req[r].pc = "activate"
    /\ Saved(req[r])
    /\ req' = [req EXCEPT ![r] = Idle]
    /\ UNCHANGED <<nextId, challenges, links, emailLock, purge>>
-----------------------------------------------------------------------------
(* What becomes of verified accounts. *)

\* An administrator disables an account.  Meanwhile its owner has signed in with
\* a browser or a passkey, which sets last_login, or only with rest_login, which
\* does not, and has changed the ways to sign in, keeping one.
Disable(u, usable, passkey, login) ==
    /\ u.active
    /\ usable \/ passkey
    /\ u.login => login
    /\ users' = (users \ {u}) \union
                {[u EXCEPT !.active = FALSE, !.usable = usable,
                           !.passkey = passkey, !.login = login]}
    /\ UNCHANGED <<nextId, challenges, links, emailLock, req, purge>>
-----------------------------------------------------------------------------
(* purge_unactivated. *)

Stranded_Younger(u) == ~u.active /\ ~u.login /\ ~u.old /\ ~u.usable /\ u.passkey
\* _candidates; staff and superusers do not sign up.
Stranded(u) == ~u.active /\ ~u.login /\ u.old /\ ~u.usable /\ u.passkey

PurgeList ==
    LET ids == {u.id : u \in {v \in users : Stranded(v)}} IN
    /\ purge = Asleep
    /\ ids # {}
    /\ purge' = [Asleep EXCEPT !.pc = "collect", !.ids = ids]
    /\ UNCHANGED <<users, nextId, challenges, links, emailLock, req>>

Doomed_ByIdOnly(ids) == {u.id : u \in {v \in users : v.id \in ids}}
Doomed(ids) == {u.id : u \in {v \in users : v.id \in ids /\ Stranded(v)}}

\* delete() on the criteria applied again: an account has rows in other tables,
\* so Django's collector reads the matching accounts first.  active is history.
PurgeCollect ==
    /\ purge.pc = "collect"
    /\ purge' = [pc |-> "delete", ids |-> Doomed(purge.ids),
                 active |-> {u.id : u \in {v \in users : v.active}}]
    /\ UNCHANGED <<users, nextId, challenges, links, emailLock, req>>

\* Then it deletes what refers to them and the accounts themselves by id.
PurgeDelete ==
    /\ purge.pc = "delete"
    /\ users' = {u \in users : u.id \notin purge.ids}
    /\ purge' = Asleep
    /\ UNCHANGED <<nextId, challenges, links, emailLock, req>>

\* The command dies, or a row that refers to an account makes the delete fail.
PurgeFails ==
    /\ purge # Asleep
    /\ purge' = Asleep
    /\ UNCHANGED <<users, nextId, challenges, links, emailLock, req>>

Next ==
    \/ \E n \in Names, e \in Emails : BeginSignup(n, e)
    \/ \E c \in challenges : ExpireChallenge(c)
    \/ \E id \in links : LinkExpires(id)
    \/ \E u \in users :
          \/ GrowOld(u)
          \/ \E usable, passkey, login \in BOOLEAN : Disable(u, usable, passkey, login)
    \/ \E r \in Requests :
          \/ \E c \in challenges : FinishSignup(r, c)
          \/ \E n \in Names, e \in Emails : Register(r, n, e)
          \/ LockEmail(r) \/ Recheck(r) \/ Taken(r) \/ Insert(r) \/ InsertRefused(r)
          \/ Mail(r) \/ Abort(r)
          \/ \E id \in links : OpenLink(r, id)
          \/ Activate(r)
    \/ PurgeList \/ PurgeCollect \/ PurgeDelete \/ PurgeFails

Spec == Init /\ [][Next]_vars

\* Days pass, and cron runs the command again and again; it does not fail for ever.
Fairness ==
    /\ \A id \in 1 .. MaxUsers : WF_vars(\E u \in users : u.id = id /\ GrowOld(u))
    /\ WF_vars(PurgeList) /\ SF_vars(PurgeCollect) /\ SF_vars(PurgeDelete)
FairSpec == Spec /\ Fairness
-----------------------------------------------------------------------------
(* Properties. *)

Request == [pc : {"idle", "lock", "check", "insert", "mail", "activate"}, kind : Kinds,
            name : Names \union {None}, email : Emails \union {None}, id : Nat]

\* Every variable holds a value of its kind.
TypeOK ==
    /\ users \subseteq User
    /\ nextId \in Nat \ {0}
    /\ challenges \subseteq Names \X Emails
    /\ links \subseteq Nat
    /\ emailLock \in [Emails -> Requests \union {None}]
    /\ req \in [Requests -> Request]
    /\ purge \in [pc : {"idle", "collect", "delete"}, ids : SUBSET Nat, active : SUBSET Nat]

\* The database allows two accounts with one address; lock_signup_email and the
\* check under it never do, whichever two sign-ups race.
OneAccountPerEmail == \A u, v \in users : u.email = v.email => u = v

\* No account goes that is younger than EMAIL_VERIFICATION_MAX_AGE, counted from its
\* date_joined as the cutoff does, and none that was active when the purge's transaction
\* looked again, though it was listed before.  Of the link this says nothing: it is
\* signed later, and may still verify.
OnlyStrandedPurged ==
    [][\A u \in users : u.id \notin Ids' => u.old /\ u.id \notin purge.active]_vars

\* What of an account tells whether it may go.
Seen(u) == [id |-> u.id, active |-> u.active, old |-> u.old, password |-> u.usable]
AccountsOf(e) == {Seen(u) : u \in {v \in users : v.email = e}}

Registry == INSTANCE AccountRegistry
                WITH account <- [e \in Emails |-> AccountsOf(e)],
                     next <- nextId,
                     condemned <- IF purge.pc = "delete" THEN purge.ids ELSE {}

\* However sign-ups, links, administrators and the purge's three queries interleave, the
\* accounts change as in AccountRegistry: one to an address, no number twice, and only
\* what was abandoned when the purge looked again goes.
ImplementsRegistry == Registry!Spec

\* Of that promise: an id that is gone never returns, so a verification link opened
\* while the purge deleted the account does not bring it back.
PurgedStaysGone == [][\A id \in Ids' : id \in Ids \/ id = nextId]_vars

\* A passkey sign-up that nobody verifies does not hold its name and address
\* for ever.
StrandedGoes ==
    \A id \in 1 .. MaxUsers :
        (\E u \in users : u.id = id /\ ~u.usable /\ ~u.verified)
        ~> ~(\E u \in users : u.id = id /\ ~u.verified)

\* purge_unactivated.py, "Race-safe": an account that was activated in the gap
\* must not be deleted, because the DELETE itself applies the criteria again.
PurgeSparesVerified == [][\A u \in users : u.id \notin Ids' => ~u.verified]_vars
-----------------------------------------------------------------------------
(* The inductive invariant behind the safety properties. *)

\* A request that is inserting an account has a name and an address; from the
\* second check on it holds the address's lock.
LockOK ==
    \A r \in Requests :
        LET q == req[r] IN
        /\ q.pc \in {"lock", "check", "insert"} => q.name \in Names /\ q.email \in Emails
        /\ q.pc \in {"check", "insert"} => emailLock[q.email] = r

\* What the check under the lock found still holds at the insert.
CheckOK == \A r \in Requests : req[r].pc = "insert" => ~EmailTaken(req[r].email)

IdsOK ==
    /\ \A u \in users : u.id < nextId
    /\ \A u, v \in users : u.id = v.id => u = v

\* The purge deletes by ids that were seen, of accounts that are old and that
\* were not active when it looked again.
PurgeOK ==
    /\ \A id \in purge.ids : id < nextId
    /\ \A u \in users : purge.pc = "delete" /\ u.id \in purge.ids => u.old
    /\ purge.pc = "delete" => purge.ids \intersect purge.active = {}
    /\ purge.pc # "delete" => purge.active = {}

IInv == TypeOK /\ LockOK /\ CheckOK /\ IdsOK /\ PurgeOK /\ OneAccountPerEmail
=============================================================================
