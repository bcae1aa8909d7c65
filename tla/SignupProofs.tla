------------------------------ MODULE SignupProofs ------------------------------
(***************************************************************************)
(* What Signup's runs check on a few requests, for any number of them.     *)
(* Every conjunct of IInv is about three things: the requests and their    *)
(* locks, the accounts, and the purge; the lemmas follow that division.    *)
(***************************************************************************)
EXTENDS Signup, TLAPS

\* A step that inserts no account: each one that is left was there before, with
\* the same id and address, and age is not undone.
Rewritten ==
    /\ users' \subseteq User
    /\ \A v \in users' : \E u \in users :
          u.id = v.id /\ u.email = v.email /\ (u.old => v.old)
    /\ \A v, w \in users' : v.id = w.id => v = w
    /\ nextId' = nextId

LEMMA IdleType == Idle \in Request /\ Idle.pc = "idle"
  BY DEF Idle, Request, Kinds

LEMMA UnlockType ==
  ASSUME TypeOK, NEW r \in Requests, Unlock(r)
  PROVE  /\ emailLock' \in [Emails -> Requests \union {None}]
         /\ \A e \in Emails, s \in Requests :
               s # r => (emailLock'[e] = s <=> emailLock[e] = s)
  BY NoneAssumption DEF TypeOK, Unlock

LEMMA InvariantInit == Init => IInv
  <1> SUFFICES ASSUME Init PROVE IInv
    OBVIOUS
  <1>2. TypeOK
    BY IdleType DEF Init, TypeOK, Asleep
  <1>3. LockOK /\ CheckOK
    BY DEF Init, LockOK, CheckOK, Idle
  <1>4. IdsOK /\ PurgeOK /\ OneAccountPerEmail
    BY DEF Init, IdsOK, PurgeOK, OneAccountPerEmail, Asleep
  <1> QED
    BY <1>2, <1>3, <1>4 DEF IInv
-----------------------------------------------------------------------------
(* The accounts. *)

\* Rewriting accounts disturbs nothing that is said about them.
LEMMA RewrittenKeeps ==
  ASSUME IInv, Rewritten
  PROVE  /\ IdsOK'
         /\ OneAccountPerEmail'
         /\ \A e \in Emails : EmailTaken(e)' => EmailTaken(e)
         /\ UNCHANGED purge => PurgeOK'
  <1>1. IdsOK'
    BY DEF IInv, IdsOK, Rewritten
  <1>2. OneAccountPerEmail'
    BY DEF IInv, OneAccountPerEmail, Rewritten
  <1>3. \A e \in Emails : EmailTaken(e)' => EmailTaken(e)
    BY DEF Rewritten, EmailTaken
  <1>4. UNCHANGED purge => PurgeOK'
    BY DEF IInv, PurgeOK, Rewritten
  <1> QED
    BY <1>1, <1>2, <1>3, <1>4

LEMMA UnchangedRewritten ==
  ASSUME IInv, UNCHANGED <<users, nextId>>
  PROVE  Rewritten
  BY DEF IInv, TypeOK, IdsOK, Rewritten

\* One account is replaced by a version of itself.
LEMMA ReplacedRewritten ==
  ASSUME IInv, NEW u \in users, NEW w \in User,
         w.id = u.id, w.email = u.email, u.old => w.old,
         users' = (users \ {u}) \union {w}, nextId' = nextId
  PROVE  Rewritten
  <1>1. users' \subseteq User
    BY DEF IInv, TypeOK
  <1>2. \A v \in users' : \E p \in users :
           p.id = v.id /\ p.email = v.email /\ (p.old => v.old)
    OBVIOUS
  <1>3. \A v, x \in users' : v.id = x.id => v = x
    BY DEF IInv, IdsOK
  <1> QED
    BY <1>1, <1>2, <1>3 DEF Rewritten

LEMMA GrowOldRewritten ==
  ASSUME IInv, NEW u \in users, GrowOld(u)
  PROVE  Rewritten
  <1> DEFINE w == [u EXCEPT !.old = TRUE]
  <1>1. u \in User
    BY DEF IInv, TypeOK
  <1>2. w \in User /\ w.id = u.id /\ w.email = u.email /\ w.old
    BY <1>1 DEF User
  <1>3. users' = (users \ {u}) \union {w} /\ nextId' = nextId
    BY DEF GrowOld
  <1> QED
    BY <1>2, <1>3, ReplacedRewritten

LEMMA DisableRewritten ==
  ASSUME IInv, NEW u \in users, NEW usable \in BOOLEAN, NEW passkey \in BOOLEAN,
         NEW login \in BOOLEAN, Disable(u, usable, passkey, login)
  PROVE  Rewritten
  <1> DEFINE w == [u EXCEPT !.active = FALSE, !.usable = usable,
                            !.passkey = passkey, !.login = login]
  <1>1. u \in User
    BY DEF IInv, TypeOK
  <1>2. w \in User /\ w.id = u.id /\ w.email = u.email /\ w.old = u.old
    BY <1>1 DEF User
  <1>3. users' = (users \ {u}) \union {w} /\ nextId' = nextId
    BY DEF Disable
  <1> QED
    BY <1>2, <1>3, ReplacedRewritten

LEMMA SavedRewritten ==
  ASSUME IInv, NEW q, Saved(q), nextId' = nextId
  PROVE  Rewritten
  <1> DEFINE f(u) == IF u.id = q.id THEN [u EXCEPT !.active = TRUE, !.verified = TRUE] ELSE u
  <1>1. users' = {f(u) : u \in users}
    BY DEF Saved
  <1>2. ASSUME NEW u \in users
        PROVE  f(u) \in User /\ f(u).id = u.id /\ f(u).email = u.email /\ f(u).old = u.old
    <2>1. u \in User
      BY DEF IInv, TypeOK
    <2> QED
      BY <2>1 DEF User
  <1>3. ASSUME NEW v \in users', NEW w \in users', v.id = w.id
        PROVE  v = w
    <2>1. PICK u \in users : v = f(u)
      BY <1>1
    <2>2. PICK x \in users : w = f(x)
      BY <1>1
    <2>3. u.id = x.id
      BY <1>2, <1>3, <2>1, <2>2
    <2>4. u = x
      BY <2>3 DEF IInv, IdsOK
    <2> QED
      BY <2>1, <2>2, <2>4
  <1>4. \A v \in users' : \E u \in users :
           u.id = v.id /\ u.email = v.email /\ (u.old => v.old)
    <2>1. SUFFICES ASSUME NEW v \in users'
                   PROVE  \E u \in users : u.id = v.id /\ u.email = v.email /\ (u.old => v.old)
      OBVIOUS
    <2>2. PICK u \in users : v = f(u)
      BY <1>1
    <2>3. f(u).id = u.id /\ f(u).email = u.email /\ f(u).old = u.old
      BY <1>2
    <2> HIDE DEF f
    <2> QED
      BY <2>2, <2>3
  <1>5. users' \subseteq User
    <2> HIDE DEF f
    <2> QED
      BY <1>1, <1>2
  <1> QED
    BY <1>3, <1>4, <1>5 DEF Rewritten

LEMMA PurgedRewritten ==
  ASSUME IInv, PurgeDelete
  PROVE  Rewritten
  BY DEF IInv, TypeOK, IdsOK, PurgeDelete, Rewritten
-----------------------------------------------------------------------------
(* The requests and their locks. *)

\* Whoever is about to insert found its address free.
Entering ==
    \A s \in Requests : req'[s].pc = "insert" => ~EmailTaken(req'[s].email)

Shape == TypeOK' /\ LockOK' /\ Entering

LEMMA RequestMoves ==
  ASSUME IInv, NEW r \in Requests, NEW q \in Request,
         req' = [req EXCEPT ![r] = q],
         q.pc \in {"lock", "check", "insert"} => q.name \in Names /\ q.email \in Emails,
         q.pc = "insert" => ~EmailTaken(q.email),
         \/ UNCHANGED emailLock /\ (q.pc \in {"check", "insert"} => emailLock[q.email] = r)
         \/ Unlock(r) /\ q.pc \notin {"check", "insert"}
  PROVE  /\ req' \in [Requests -> Request]
         /\ emailLock' \in [Emails -> Requests \union {None}]
         /\ LockOK'
         /\ Entering
  <1>1. req' \in [Requests -> Request]
    BY DEF IInv, TypeOK
  <1>2. \A s \in Requests : req'[s] = IF s = r THEN q ELSE req[s]
    BY DEF IInv, TypeOK
  <1>3. Entering
    BY <1>2 DEF IInv, CheckOK, Entering
  <1>4. CASE UNCHANGED emailLock /\ (q.pc \in {"check", "insert"} => emailLock[q.email] = r)
    <2>1. LockOK'
      BY <1>2, <1>4 DEF IInv, LockOK
    <2> QED
      BY <1>1, <1>3, <1>4, <2>1 DEF IInv, TypeOK
  <1>5. CASE Unlock(r) /\ q.pc \notin {"check", "insert"}
    <2>1. /\ emailLock' \in [Emails -> Requests \union {None}]
          /\ \A e \in Emails, s \in Requests :
                s # r => (emailLock'[e] = s <=> emailLock[e] = s)
      BY <1>5, UnlockType DEF IInv
    <2>2. LockOK'
      BY <1>2, <1>5, <2>1 DEF IInv, LockOK
    <2> QED
      BY <1>1, <1>3, <2>1, <2>2
  <1> QED
    BY <1>4, <1>5

\* A step that no request takes.
LEMMA RequestsStay ==
  ASSUME IInv, UNCHANGED <<req, emailLock>>
  PROVE  /\ req' \in [Requests -> Request]
         /\ emailLock' \in [Emails -> Requests \union {None}]
         /\ LockOK'
         /\ Entering
  BY DEF IInv, TypeOK, LockOK, CheckOK, Entering

\* A request whose only change is that it is over.
LEMMA RequestEnds ==
  ASSUME IInv, NEW r \in Requests, req' = [req EXCEPT ![r] = Idle],
         UNCHANGED emailLock \/ Unlock(r)
  PROVE  /\ req' \in [Requests -> Request]
         /\ emailLock' \in [Emails -> Requests \union {None}]
         /\ LockOK'
         /\ Entering
  BY IdleType, RequestMoves

\* A sign-up's own steps, up to its insert.
LEMMA SignupShape ==
  ASSUME IInv, NEW r \in Requests
  PROVE  /\ \A c \in challenges : FinishSignup(r, c) => Shape
         /\ \A n \in Names, e \in Emails : Register(r, n, e) => Shape
         /\ LockEmail(r) \/ Recheck(r) \/ Taken(r) => Shape
  <1> USE DEF IInv
  <1>1. ASSUME NEW c \in challenges, FinishSignup(r, c)
        PROVE  Shape
    <2>1. c[1] \in Names /\ c[2] \in Emails
      BY DEF TypeOK
    <2> DEFINE q == [Idle EXCEPT !.pc = "lock", !.kind = "passkey",
                                 !.name = c[1], !.email = c[2]]
    <2>2. q \in Request /\ q.pc = "lock" /\ q.name = c[1] /\ q.email = c[2]
      BY <2>1 DEF Idle, Request, Kinds
    <2>3. UNCHANGED <<users, nextId, links, emailLock, purge>> /\ challenges' \subseteq challenges
      BY <1>1 DEF FinishSignup
    <2>4. CASE req' = req
      BY <2>3, <2>4, RequestsStay DEF TypeOK, Shape
    <2>5. CASE req' = [req EXCEPT ![r] = q]
      <3>1. /\ req' \in [Requests -> Request]
            /\ LockOK' /\ Entering
        <4> HIDE DEF q
        <4> QED
          BY <2>1, <2>2, <2>3, <2>5, RequestMoves
      <3> QED
        BY <2>3, <3>1 DEF TypeOK, Shape
    <2> QED
      BY <1>1, <2>4, <2>5 DEF FinishSignup
  <1>2. ASSUME NEW n \in Names, NEW e \in Emails, Register(r, n, e)
        PROVE  Shape
    <2> DEFINE q == [Idle EXCEPT !.pc = "lock", !.kind = "password", !.name = n, !.email = e]
    <2>1. q \in Request /\ q.pc = "lock" /\ q.name = n /\ q.email = e
      BY DEF Idle, Request, Kinds
    <2>2. req' = [req EXCEPT ![r] = q] /\ UNCHANGED <<users, nextId, challenges, links, emailLock, purge>>
      BY <1>2 DEF Register
    <2>3. req' \in [Requests -> Request] /\ LockOK' /\ Entering
      <3> HIDE DEF q
      <3> QED
        BY <2>1, <2>2, RequestMoves
    <2> QED
      BY <2>2, <2>3 DEF TypeOK, Shape
  <1>3. ASSUME LockEmail(r)
        PROVE  Shape
    <2>1. /\ req[r].pc = "lock" /\ emailLock[req[r].email] = None
          /\ req[r].name \in Names /\ req[r].email \in Emails
      BY <1>3 DEF LockEmail, LockOK
    <2>2. req' \in [Requests -> Request] /\ emailLock' \in [Emails -> Requests \union {None}]
      <3>1. [req[r] EXCEPT !.pc = "check"] \in Request
        BY DEF TypeOK, Request
      <3>2. req' = [req EXCEPT ![r] = [req[r] EXCEPT !.pc = "check"]]
        BY <1>3 DEF LockEmail
      <3> QED
        BY <1>3, <3>1, <3>2 DEF LockEmail, TypeOK
    <2>3. \A s \in Requests : s # r => req'[s] = req[s]
      BY <1>3 DEF LockEmail, TypeOK
    <2>4. req'[r].pc = "check" /\ req'[r].name = req[r].name /\ req'[r].email = req[r].email
      BY <1>3 DEF LockEmail, TypeOK, Request
    <2>5. \A e \in Emails : emailLock'[e] = IF e = req[r].email THEN r ELSE emailLock[e]
      BY <1>3, <2>1 DEF LockEmail, TypeOK
    <2>6. LockOK'
      BY <2>1, <2>3, <2>4, <2>5, NoneAssumption DEF LockOK
    <2>7. Entering
      BY <2>3, <2>4 DEF CheckOK, Entering
    <2> QED
      BY <1>3, <2>2, <2>6, <2>7 DEF LockEmail, TypeOK, Shape
  <1>4. ASSUME Recheck(r)
        PROVE  Shape
    <2> DEFINE q == [req[r] EXCEPT !.pc = "insert"]
    <2>1. /\ req[r].pc = "check" /\ ~EmailTaken(req[r].email)
          /\ req[r].name \in Names /\ req[r].email \in Emails
          /\ emailLock[req[r].email] = r
      BY <1>4 DEF Recheck, StillFree, LockOK
    <2>2. q \in Request /\ q.pc = "insert" /\ q.name = req[r].name /\ q.email = req[r].email
      BY DEF TypeOK, Request
    <2>3. req' = [req EXCEPT ![r] = q] /\ UNCHANGED <<users, nextId, challenges, links, emailLock, purge>>
      BY <1>4 DEF Recheck
    <2>4. req' \in [Requests -> Request] /\ LockOK' /\ Entering
      <3> HIDE DEF q
      <3> QED
        BY <2>1, <2>2, <2>3, RequestMoves
    <2> QED
      BY <2>3, <2>4 DEF TypeOK, Shape
  <1>5. ASSUME Taken(r)
        PROVE  Shape
    BY <1>5, RequestEnds DEF Taken, TypeOK, Shape
  <1> QED
    BY <1>1, <1>2, <1>3, <1>4, <1>5

LEMMA NewAccount ==
  ASSUME IInv, NEW r \in Requests, Insert(r)
  PROVE  \E w \in User : /\ w.id = nextId /\ w.email = req[r].email
                         /\ users' = users \union {w}
  <1> DEFINE w == [id |-> nextId, name |-> req[r].name, email |-> req[r].email,
                   active |-> FALSE, usable |-> req[r].kind = "password",
                   passkey |-> req[r].kind = "passkey",
                   login |-> FALSE, old |-> FALSE, verified |-> FALSE]
  <1>1. req[r].name \in Names /\ req[r].email \in Emails
    BY DEF IInv, LockOK, Insert
  <1>2. w \in User
    BY <1>1 DEF IInv, TypeOK, User
  <1>3. users' = users \union {w}
    BY DEF Insert
  <1> QED
    BY <1>2, <1>3

\* The rest of what a request does.
LEMMA RequestShape ==
  ASSUME IInv, NEW r \in Requests
  PROVE  /\ Insert(r) \/ InsertRefused(r) \/ Mail(r) \/ Abort(r) \/ Activate(r) => Shape
         /\ \A id \in links : OpenLink(r, id) => Shape
  <1> USE DEF IInv
  <1>1. ASSUME Insert(r)
        PROVE  Shape
    <2> DEFINE q == [Idle EXCEPT !.pc = "mail", !.id = nextId]
    <2>1. q \in Request /\ q.pc = "mail"
      BY DEF Idle, Request, Kinds, TypeOK
    <2>2. req' = [req EXCEPT ![r] = q] /\ Unlock(r) /\ nextId' = nextId + 1
          /\ UNCHANGED <<challenges, links, purge>>
      BY <1>1 DEF Insert
    <2>3. /\ req' \in [Requests -> Request]
          /\ emailLock' \in [Emails -> Requests \union {None}]
          /\ LockOK' /\ Entering
      <3> HIDE DEF q
      <3> QED
        BY <2>1, <2>2, RequestMoves
    <2>4. users' \subseteq User
      BY <1>1, NewAccount DEF TypeOK
    <2> QED
      BY <2>2, <2>3, <2>4 DEF TypeOK, Shape
  <1>2. ASSUME InsertRefused(r)
        PROVE  Shape
    BY <1>2, RequestEnds DEF InsertRefused, TypeOK, Shape
  <1>3. ASSUME Mail(r)
        PROVE  Shape
    <2>1. req[r].id \in Nat
      BY DEF TypeOK, Request
    <2> QED
      BY <1>3, <2>1, RequestEnds DEF Mail, TypeOK, Shape
  <1>4. ASSUME Abort(r)
        PROVE  Shape
    BY <1>4, RequestEnds DEF Abort, TypeOK, Shape
  <1>5. ASSUME Activate(r)
        PROVE  Shape
    <2>1. users' \subseteq User
      BY <1>5, SavedRewritten DEF Activate, Rewritten
    <2> QED
      BY <1>5, <2>1, RequestEnds DEF Activate, TypeOK, Shape
  <1>6. ASSUME NEW id \in links, OpenLink(r, id)
        PROVE  Shape
    <2> DEFINE q == [Idle EXCEPT !.pc = "activate", !.id = id]
    <2>1. q \in Request /\ q.pc = "activate"
      BY DEF Idle, Request, Kinds, TypeOK
    <2>2. req' = [req EXCEPT ![r] = q] /\ UNCHANGED <<users, nextId, challenges, links, emailLock, purge>>
      BY <1>6 DEF OpenLink
    <2>3. req' \in [Requests -> Request] /\ LockOK' /\ Entering
      <3> HIDE DEF q
      <3> QED
        BY <2>1, <2>2, RequestMoves
    <2> QED
      BY <2>2, <2>3 DEF TypeOK, Shape
  <1> QED
    BY <1>1, <1>2, <1>3, <1>4, <1>5, <1>6

LEMMA PurgeType ==
  ASSUME NEW pc \in {"idle", "collect", "delete"}, NEW ids \in SUBSET Nat,
         NEW awake \in SUBSET Nat
  PROVE  [pc |-> pc, ids |-> ids, active |-> awake] \in
            [pc : {"idle", "collect", "delete"}, ids : SUBSET Nat, active : SUBSET Nat]
  OBVIOUS

\* Steps that no request takes.
LEMMA OtherShape ==
  ASSUME IInv
  PROVE  /\ \A n \in Names, e \in Emails : BeginSignup(n, e) => Shape
         /\ \A c \in challenges : ExpireChallenge(c) => Shape
         /\ \A id \in links : LinkExpires(id) => Shape
         /\ \A u \in users : GrowOld(u) => Shape
         /\ \A u \in users, usable, passkey, login \in BOOLEAN :
               Disable(u, usable, passkey, login) => Shape
         /\ PurgeList \/ PurgeCollect \/ PurgeDelete \/ PurgeFails => Shape
         /\ UNCHANGED vars => Shape
  <1> USE DEF IInv
  <1>1. ASSUME NEW n \in Names, NEW e \in Emails, BeginSignup(n, e)
        PROVE  Shape
    BY <1>1, RequestsStay DEF BeginSignup, TypeOK, Shape
  <1>2. ASSUME NEW c \in challenges, ExpireChallenge(c)
        PROVE  Shape
    BY <1>2, RequestsStay DEF ExpireChallenge, TypeOK, Shape
  <1>3. ASSUME NEW id \in links, LinkExpires(id)
        PROVE  Shape
    BY <1>3, RequestsStay DEF LinkExpires, TypeOK, Shape
  <1>4. ASSUME NEW u \in users, GrowOld(u)
        PROVE  Shape
    <2>1. users' \subseteq User
      BY <1>4, GrowOldRewritten DEF Rewritten
    <2> QED
      BY <1>4, <2>1, RequestsStay DEF GrowOld, TypeOK, Shape
  <1>5. ASSUME NEW u \in users, NEW usable \in BOOLEAN, NEW passkey \in BOOLEAN,
               NEW login \in BOOLEAN, Disable(u, usable, passkey, login)
        PROVE  Shape
    <2>1. users' \subseteq User
      BY <1>5, DisableRewritten DEF Rewritten
    <2> QED
      BY <1>5, <2>1, RequestsStay DEF Disable, TypeOK, Shape
  <1>6. ASSUME PurgeList \/ PurgeCollect \/ PurgeFails
        PROVE  Shape
    <2>1. \A u \in users : u.id \in Nat
      BY DEF TypeOK, User
    <2>2. ASSUME PurgeList
         PROVE  purge' \in [pc : {"idle", "collect", "delete"},
                            ids : SUBSET Nat, active : SUBSET Nat]
      <3> DEFINE ids == {u.id : u \in {v \in users : Stranded(v)}}
      <3>1. ids \in SUBSET Nat
        BY <2>1
      <3>2. purge' = [pc |-> "collect", ids |-> ids, active |-> {}]
        BY <2>2 DEF PurgeList, Asleep
      <3> HIDE DEF ids
      <3> QED
        BY <3>1, <3>2, PurgeType
    <2>3. ASSUME PurgeCollect
         PROVE  purge' \in [pc : {"idle", "collect", "delete"},
                            ids : SUBSET Nat, active : SUBSET Nat]
      <3> DEFINE awake == {u.id : u \in {v \in users : v.active}}
      <3>1. Doomed(purge.ids) \in SUBSET Nat /\ awake \in SUBSET Nat
        BY <2>1 DEF Doomed
      <3>2. purge' = [pc |-> "delete", ids |-> Doomed(purge.ids), active |-> awake]
        BY <2>3 DEF PurgeCollect
      <3> HIDE DEF awake
      <3> QED
        BY <3>1, <3>2, PurgeType
    <2>4. ASSUME PurgeFails
         PROVE  purge' \in [pc : {"idle", "collect", "delete"},
                            ids : SUBSET Nat, active : SUBSET Nat]
      BY <2>4, PurgeType DEF PurgeFails, Asleep
    <2>5. purge' \in [pc : {"idle", "collect", "delete"},
                     ids : SUBSET Nat, active : SUBSET Nat]
      BY <1>6, <2>2, <2>3, <2>4
    <2> QED
      BY <1>6, <2>5, RequestsStay DEF PurgeList, PurgeCollect, PurgeFails, TypeOK, Shape
  <1>7. ASSUME PurgeDelete
        PROVE  Shape
    BY <1>7, RequestsStay DEF PurgeDelete, TypeOK, Shape, Asleep
  <1>8. ASSUME UNCHANGED vars
        PROVE  Shape
    BY <1>8, RequestsStay DEF vars, TypeOK, Shape
  <1> QED
    BY <1>1, <1>2, <1>3, <1>4, <1>5, <1>6, <1>7, <1>8

LEMMA ShapeStep == IInv /\ [Next]_vars => Shape
  BY SignupShape, RequestShape, OtherShape DEF Next
-----------------------------------------------------------------------------
(* The invariant. *)

\* Only an insert makes an account.
LEMMA InsertOrRewritten ==
  ASSUME IInv, [Next]_vars
  PROVE  Rewritten \/ \E r \in Requests : Insert(r)
  <1>1. CASE UNCHANGED <<users, nextId>>
    BY <1>1, UnchangedRewritten
  <1>2. CASE \E u \in users : GrowOld(u)
    BY <1>2, GrowOldRewritten
  <1>3. CASE \E u \in users, usable, passkey, login \in BOOLEAN : Disable(u, usable, passkey, login)
    BY <1>3, DisableRewritten
  <1>4. CASE \E r \in Requests : Activate(r)
    BY <1>4, SavedRewritten DEF Activate
  <1>5. CASE PurgeDelete
    BY <1>5, PurgedRewritten
  <1>6. ASSUME NEW r \in Requests,
               \/ \E c \in challenges : FinishSignup(r, c)
               \/ \E n \in Names, e \in Emails : Register(r, n, e)
               \/ LockEmail(r) \/ Recheck(r) \/ Taken(r) \/ InsertRefused(r)
               \/ Mail(r) \/ Abort(r)
               \/ \E id \in links : OpenLink(r, id)
        PROVE  UNCHANGED <<users, nextId>>
    BY <1>6 DEF FinishSignup, Register, LockEmail, Recheck, Taken, InsertRefused,
                Mail, Abort, OpenLink
  <1>7. ASSUME \/ \E n \in Names, e \in Emails : BeginSignup(n, e)
               \/ \E c \in challenges : ExpireChallenge(c)
               \/ \E id \in links : LinkExpires(id)
               \/ PurgeList \/ PurgeCollect \/ PurgeFails
               \/ UNCHANGED vars
        PROVE  UNCHANGED <<users, nextId>>
    BY <1>7 DEF BeginSignup, ExpireChallenge, LinkExpires, PurgeList, PurgeCollect,
                PurgeFails, vars
  <1> QED
    BY <1>1, <1>2, <1>3, <1>4, <1>5, <1>6, <1>7 DEF Next

\* While one request inserts an account, nobody else may insert its address.
LEMMA InsertKeeps ==
  ASSUME IInv, Shape, NEW r \in Requests, Insert(r)
  PROVE  CheckOK' /\ IdsOK' /\ PurgeOK' /\ OneAccountPerEmail'
  <1>1. PICK w \in User : w.id = nextId /\ w.email = req[r].email /\ users' = users \union {w}
    BY NewAccount
  <1>2. /\ req[r].pc = "insert" /\ nextId' = nextId + 1 /\ purge' = purge
        /\ nextId \in Nat /\ \A u \in users : u.id \in Nat
    BY DEF IInv, TypeOK, User, Insert
  <1>3. ~EmailTaken(req[r].email)
    BY <1>2 DEF IInv, CheckOK
  <1>4. IdsOK'
    BY <1>1, <1>2 DEF IInv, IdsOK
  <1>5. PurgeOK'
    <2>1. \A id \in purge.ids : id < nextId /\ id \in Nat
      BY DEF IInv, TypeOK, PurgeOK
    <2> QED
      BY <1>1, <1>2, <2>1 DEF IInv, PurgeOK
  <1>6. OneAccountPerEmail'
    BY <1>1, <1>3 DEF IInv, OneAccountPerEmail, EmailTaken
  <1>7. CheckOK'
    <2>1. SUFFICES ASSUME NEW s \in Requests, req'[s].pc = "insert"
                   PROVE  \A u \in users' : u.email # req'[s].email
      BY DEF CheckOK, EmailTaken
    <2>2. s # r /\ req'[s] = req[s]
      BY <2>1 DEF IInv, TypeOK, Insert, Idle, Request
    <2>3. emailLock[req[s].email] = s /\ emailLock[req[r].email] = r
      BY <1>2, <2>1, <2>2 DEF IInv, LockOK
    <2>4. ~EmailTaken(req'[s].email)
      BY <2>1 DEF Shape, Entering
    <2> QED
      BY <1>1, <2>2, <2>3, <2>4 DEF EmailTaken
  <1> QED
    BY <1>4, <1>5, <1>6, <1>7

\* The purge's second look takes only accounts that are old and not active, and
\* until it deletes them an account grows no younger.
LEMMA PurgeStep ==
  ASSUME IInv, [Next]_vars, Rewritten
  PROVE  PurgeOK'
  <1>1. CASE UNCHANGED purge
    BY <1>1, RewrittenKeeps
  <1>2. CASE PurgeDelete \/ PurgeFails
    BY <1>2 DEF PurgeDelete, PurgeFails, Asleep, PurgeOK
  <1>3. CASE PurgeList
    BY <1>3 DEF IInv, IdsOK, PurgeList, Asleep, PurgeOK
  <1>4. CASE PurgeCollect
    <2> DEFINE awake == {u.id : u \in {v \in users : v.active}}
    <2>1. /\ purge' = [pc |-> "delete", ids |-> Doomed(purge.ids), active |-> awake]
          /\ users' = users /\ nextId' = nextId
      BY <1>4 DEF PurgeCollect
    <2>2. \A id \in Doomed(purge.ids) : \E u \in users : u.id = id /\ ~u.active /\ u.old
      BY DEF Doomed, Stranded
    <2>3. \A id \in Doomed(purge.ids) : id < nextId
      BY <2>2 DEF IInv, IdsOK
    <2>4. \A u \in users : u.id \in Doomed(purge.ids) => u.old /\ u.id \notin awake
      BY <2>2 DEF IInv, IdsOK
    <2>5. Doomed(purge.ids) \intersect awake = {}
      BY <2>2, <2>4
    <2> HIDE DEF awake
    <2> QED
      BY <2>1, <2>3, <2>4, <2>5 DEF PurgeOK
  <1>5. PurgeList \/ PurgeCollect \/ PurgeDelete \/ PurgeFails \/ UNCHANGED purge
    BY DEF Next, vars, BeginSignup, ExpireChallenge, LinkExpires, GrowOld, Disable,
           FinishSignup, Register, LockEmail, Recheck, Taken, Insert, InsertRefused,
           Mail, Abort, OpenLink, Activate
  <1> QED
    BY <1>1, <1>2, <1>3, <1>4, <1>5

LEMMA InvariantStep == IInv /\ [Next]_vars => IInv'
  <1> SUFFICES ASSUME IInv, [Next]_vars
               PROVE  IInv'
    OBVIOUS
  <1>1. Shape
    BY ShapeStep
  <1>2. CASE \E r \in Requests : Insert(r)
    BY <1>1, <1>2, InsertKeeps DEF Shape, IInv
  <1>3. CASE Rewritten
    <2>1. IdsOK' /\ OneAccountPerEmail' /\ PurgeOK'
      BY <1>3, RewrittenKeeps, PurgeStep
    <2>2. CheckOK'
      <3>1. SUFFICES ASSUME NEW s \in Requests, req'[s].pc = "insert"
                     PROVE  \A u \in users' : u.email # req'[s].email
        BY DEF CheckOK, EmailTaken
      <3>2. ~EmailTaken(req'[s].email) /\ req'[s].email \in Emails
        BY <1>1, <3>1 DEF Shape, Entering, LockOK
      <3> QED
        BY <1>3, <3>2 DEF EmailTaken, Rewritten
    <2> QED
      BY <1>1, <2>1, <2>2 DEF Shape, IInv
  <1> QED
    BY <1>2, <1>3, InsertOrRewritten

\* What a request found under an address's lock holds until it inserts, and the
\* ids the purge deletes belong to accounts that are old.
THEOREM Invariant == Spec => []IInv
  <1>1. Init => IInv
    BY InvariantInit
  <1>2. IInv /\ [Next]_vars => IInv'
    BY InvariantStep
  <1> QED
    BY <1>1, <1>2, PTL DEF Spec

\* Every variable keeps its type.
THEOREM SignupTyped == Spec => []TypeOK
  <1>1. IInv => TypeOK
    BY DEF IInv
  <1> QED
    BY <1>1, Invariant, PTL

\* Whatever number of sign-ups of either kind race, one address never has two
\* accounts, although no index says so.
THEOREM AddressesUnique == Spec => []OneAccountPerEmail
  <1>1. IInv => OneAccountPerEmail
    BY DEF IInv
  <1> QED
    BY <1>1, Invariant, PTL
-----------------------------------------------------------------------------
(* What the purge may take. *)

GoneWasOld == \A u \in users : u.id \notin Ids' => u.old
GoneWasAsleep == \A u \in users : u.id \notin Ids' => u.id \notin purge.active
NothingReturns == \A id \in Ids' : id \in Ids \/ id = nextId

\* Every step but the purge's delete keeps each account.
LEMMA OnlyPurgeDeletes ==
  ASSUME IInv, [Next]_vars, ~PurgeDelete
  PROVE  Ids \subseteq Ids'
  <1>1. CASE users' = users
    BY <1>1 DEF Ids
  <1>2. ASSUME NEW u \in users, GrowOld(u)
        PROVE  Ids \subseteq Ids'
    <2>1. [u EXCEPT !.old = TRUE].id = u.id
      BY DEF IInv, TypeOK, User
    <2> QED
      BY <1>2, <2>1 DEF GrowOld, Ids
  <1>3. ASSUME NEW u \in users, NEW usable \in BOOLEAN, NEW passkey \in BOOLEAN,
               NEW login \in BOOLEAN, Disable(u, usable, passkey, login)
        PROVE  Ids \subseteq Ids'
    <2> DEFINE w == [u EXCEPT !.active = FALSE, !.usable = usable,
                              !.passkey = passkey, !.login = login]
    <2>1. w.id = u.id
      BY DEF IInv, TypeOK, User
    <2>2. users' = (users \ {u}) \union {w}
      BY <1>3 DEF Disable
    <2> HIDE DEF w
    <2> QED
      BY <2>1, <2>2 DEF Ids
  <1>4. ASSUME NEW r \in Requests, Activate(r)
        PROVE  Ids \subseteq Ids'
    <2> DEFINE f(u) == IF u.id = req[r].id THEN [u EXCEPT !.active = TRUE, !.verified = TRUE] ELSE u
    <2>1. users' = {f(u) : u \in users}
      BY <1>4 DEF Activate, Saved
    <2>2. \A u \in users : f(u).id = u.id
      BY DEF IInv, TypeOK, User
    <2> HIDE DEF f
    <2> QED
      BY <2>1, <2>2 DEF Ids
  <1>5. ASSUME NEW r \in Requests, Insert(r)
        PROVE  Ids \subseteq Ids'
    BY <1>5, NewAccount DEF Ids
  <1> QED
    BY <1>1, <1>2, <1>3, <1>4, <1>5
    DEF Next, vars, BeginSignup, ExpireChallenge, LinkExpires, FinishSignup, Register,
        LockEmail, Recheck, Taken, InsertRefused, Mail, Abort, OpenLink,
        PurgeList, PurgeCollect, PurgeFails

LEMMA PurgeTakes ==
  ASSUME IInv, [Next]_vars
  PROVE  GoneWasOld /\ GoneWasAsleep
  <1>1. CASE PurgeDelete
    <2>1. \A u \in users : u.id \notin Ids' => u.id \in purge.ids
      BY <1>1 DEF PurgeDelete, Ids
    <2>2. purge.pc = "delete"
      BY <1>1 DEF PurgeDelete
    <2> QED
      BY <2>1, <2>2 DEF IInv, PurgeOK, GoneWasOld, GoneWasAsleep
  <1>2. CASE ~PurgeDelete
    BY <1>2, OnlyPurgeDeletes DEF Ids, GoneWasOld, GoneWasAsleep
  <1> QED
    BY <1>1, <1>2

LEMMA IdsGrowByNext ==
  ASSUME IInv, [Next]_vars
  PROVE  NothingReturns
  <1>1. CASE Rewritten
    BY <1>1 DEF Rewritten, Ids, NothingReturns
  <1>2. CASE \E r \in Requests : Insert(r)
    BY <1>2, NewAccount DEF Ids, NothingReturns
  <1> QED
    BY <1>1, <1>2, InsertOrRewritten

\* The purge takes only accounts that are old, and none that was active when it looked
\* again.
THEOREM PurgeIsCareful == Spec => OnlyStrandedPurged
  <1> DEFINE Careful == \A u \in users : u.id \notin Ids' => u.old /\ u.id \notin purge.active
  <1>1. IInv /\ [Next]_vars => [Careful]_vars
    BY PurgeTakes DEF GoneWasOld, GoneWasAsleep
  <1>2. Spec => [][Careful]_vars
    BY <1>1, Invariant, PTL DEF Spec
  <1> QED
    BY <1>2 DEF OnlyStrandedPurged

\* No activation brings a deleted account back.
THEOREM NoReturn == Spec => PurgedStaysGone
  <1>1. IInv /\ [Next]_vars => [NothingReturns]_vars
    BY IdsGrowByNext
  <1>2. Spec => [][NothingReturns]_vars
    BY <1>1, Invariant, PTL DEF Spec
  <1> QED
    BY <1>2 DEF PurgedStaysGone, NothingReturns
-----------------------------------------------------------------------------
(* Signup implements AccountRegistry, step by step. *)

Condemned == IF purge.pc = "delete" THEN purge.ids ELSE {}

\* The accounts of one address become others.
LEMMA OneAddress ==
  ASSUME NEW e \in Emails, NEW accounts, AccountsOf(e)' = accounts,
         \A f \in Emails \ {e} : AccountsOf(f)' = AccountsOf(f), UNCHANGED purge
  PROVE  Registry!Becomes(e, accounts)
  BY DEF Registry!Becomes

LEMMA RegistryStays ==
  ASSUME UNCHANGED <<users, nextId, Condemned>>
  PROVE  UNCHANGED Registry!vars
<1>1. \A e \in Emails : AccountsOf(e)' = AccountsOf(e)
  BY DEF AccountsOf
<1> QED
  BY <1>1 DEF Registry!vars, Condemned

\* An account is the only one of its address.
LEMMA SoleAccount ==
  ASSUME IInv, NEW u \in users
  PROVE  /\ u.email \in Emails /\ AccountsOf(u.email) = {Seen(u)}
         /\ Seen(u).id = u.id /\ Seen(u).active = u.active /\ Seen(u).old = u.old
         /\ Seen(u).password = u.usable
<1>1. u.email \in Emails
  BY DEF IInv, TypeOK, User
<1>2. {v \in users : v.email = u.email} = {u}
  BY DEF IInv, OneAccountPerEmail
<1>3. /\ Seen(u).id = u.id /\ Seen(u).active = u.active /\ Seen(u).old = u.old
      /\ Seen(u).password = u.usable
  BY DEF Seen
<1> QED
  BY <1>1, <1>2, <1>3 DEF AccountsOf

\* And when it is replaced by a version of itself, its address has that version.
LEMMA ReplacedAccount ==
  ASSUME IInv, NEW u \in users, NEW w, w.email = u.email,
         users' = (users \ {u}) \union {w}, UNCHANGED purge
  PROVE  Registry!Becomes(u.email, {Seen(w)})
<1>1. u.email \in Emails
  BY SoleAccount
<1>2. {v \in users' : v.email = u.email} = {w}
  BY DEF IInv, OneAccountPerEmail
<1>3. AccountsOf(u.email)' = {Seen(w)}
  BY <1>2 DEF AccountsOf, Seen
<1>4. ASSUME NEW e \in Emails \ {u.email} PROVE AccountsOf(e)' = AccountsOf(e)
  <2>1. {v \in users' : v.email = e} = {v \in users : v.email = e}
    BY <1>4
  <2> QED
    BY <2>1 DEF AccountsOf, Seen
<1> QED
  BY <1>1, <1>3, <1>4, OneAddress

LEMMA GrowOldAges ==
  ASSUME IInv, NEW u \in users, GrowOld(u)
  PROVE  \E e \in Emails : Registry!Age(e)
<1> DEFINE w == [u EXCEPT !.old = TRUE]
<1>1. u \in User
  BY DEF IInv, TypeOK
<1>2. w.email = u.email /\ Seen(w) = Registry!Account(u.id, u.active, TRUE, u.usable)
  <2>1. /\ w.id = u.id /\ w.email = u.email /\ w.active = u.active
        /\ w.old = TRUE /\ w.usable = u.usable
    BY <1>1 DEF User
  <2> HIDE DEF w
  <2> QED
    BY <2>1 DEF Seen, Registry!Account
<1>3. users' = (users \ {u}) \union {w} /\ nextId' = nextId /\ purge' = purge
  BY DEF GrowOld
<1> HIDE DEF w
<1>4. Registry!Becomes(u.email, {Registry!Account(u.id, u.active, TRUE, u.usable)})
  BY <1>2, <1>3, ReplacedAccount
<1>5. Registry!Age(u.email)
  BY <1>3, <1>4, SoleAccount DEF Registry!Age
<1> QED
  BY <1>5, SoleAccount

LEMMA DisableDisables ==
  ASSUME IInv, NEW u \in users, NEW usable \in BOOLEAN, NEW passkey \in BOOLEAN,
         NEW login \in BOOLEAN, Disable(u, usable, passkey, login)
  PROVE  \E e \in Emails : Registry!Disable(e)
<1> DEFINE w == [u EXCEPT !.active = FALSE, !.usable = usable,
                          !.passkey = passkey, !.login = login]
<1>1. u \in User
  BY DEF IInv, TypeOK
<1>2. w.email = u.email /\ Seen(w) = Registry!Account(u.id, FALSE, u.old, usable)
  <2>1. /\ w.id = u.id /\ w.email = u.email /\ w.active = FALSE
        /\ w.old = u.old /\ w.usable = usable
    BY <1>1 DEF User
  <2> HIDE DEF w
  <2> QED
    BY <2>1 DEF Seen, Registry!Account
<1>3. /\ users' = (users \ {u}) \union {w} /\ nextId' = nextId /\ purge' = purge
      /\ Seen(u).active = u.active /\ u.active
  BY DEF Disable, Seen
<1> HIDE DEF w
<1>4. Registry!Becomes(u.email, {Registry!Account(u.id, FALSE, u.old, usable)})
  BY <1>2, <1>3, ReplacedAccount
<1>5. Registry!Disable(u.email)
  BY <1>3, <1>4, SoleAccount DEF Registry!Disable
<1> QED
  BY <1>5, SoleAccount

LEMMA ActivateVerifies ==
  ASSUME IInv, NEW r \in Requests, Activate(r)
  PROVE  (\E e \in Emails : Registry!Verify(e)) \/ UNCHANGED Registry!vars
<1> DEFINE f(u) == IF u.id = req[r].id THEN [u EXCEPT !.active = TRUE, !.verified = TRUE] ELSE u
<1>1. users' = {f(u) : u \in users} /\ nextId' = nextId /\ purge' = purge
  BY DEF Activate, Saved
<1>2. CASE \A u \in users : u.id # req[r].id
  <2>1. users' = users
    BY <1>1, <1>2
  <2> QED
    BY <1>1, <2>1, RegistryStays DEF Condemned
<1>3. ASSUME NEW u \in users, u.id = req[r].id
      PROVE  \E e \in Emails : Registry!Verify(e)
  <2> DEFINE w == [u EXCEPT !.active = TRUE, !.verified = TRUE]
  <2>1. u \in User
    BY DEF IInv, TypeOK
  <2>2. w.email = u.email /\ Seen(w) = Registry!Account(u.id, TRUE, u.old, u.usable)
    <3>1. /\ w.id = u.id /\ w.email = u.email /\ w.active = TRUE
          /\ w.old = u.old /\ w.usable = u.usable
      BY <2>1 DEF User
    <3> HIDE DEF w
    <3> QED
      BY <3>1 DEF Seen, Registry!Account
  <2>3. f(u) = w /\ \A v \in users : v # u => f(v) = v
    BY <1>3 DEF IInv, IdsOK
  <2> HIDE DEF f, w
  <2>4. users' = (users \ {u}) \union {w}
    BY <1>1, <2>3
  <2>5. Registry!Becomes(u.email, {Registry!Account(u.id, TRUE, u.old, u.usable)})
    BY <1>1, <2>2, <2>4, ReplacedAccount
  <2>6. Registry!Verify(u.email)
    BY <1>1, <2>5, SoleAccount DEF Registry!Verify
  <2> QED
    BY <2>6, SoleAccount
<1> QED
  BY <1>2, <1>3

LEMMA InsertOpens ==
  ASSUME IInv, NEW r \in Requests, Insert(r)
  PROVE  \E e \in Emails : Registry!Open(e)
<1>1. PICK e \in Emails, password \in BOOLEAN, n \in {nextId} :
         e = req[r].email /\ password = (req[r].kind = "password") /\ n = nextId
  BY DEF IInv, LockOK, Insert
<1>2. PICK w \in User :
         /\ users' = users \union {w} /\ w.email = e
         /\ Seen(w) = Registry!Account(n, FALSE, FALSE, password)
  <2> DEFINE w == [id |-> nextId, name |-> req[r].name, email |-> req[r].email,
                   active |-> FALSE, usable |-> req[r].kind = "password",
                   passkey |-> req[r].kind = "passkey",
                   login |-> FALSE, old |-> FALSE, verified |-> FALSE]
  <2>1. w \in User
    BY DEF IInv, LockOK, Insert, TypeOK, User
  <2>2. users' = users \union {w}
    BY DEF Insert
  <2>3. w.email = e /\ Seen(w) = Registry!Account(n, FALSE, FALSE, password)
    BY <1>1 DEF Seen, Registry!Account
  <2> HIDE DEF w
  <2> QED
    BY <2>1, <2>2, <2>3
<1>3. /\ {u \in users : u.email = e} = {} /\ nextId' = nextId + 1 /\ purge' = purge
  BY <1>1 DEF IInv, CheckOK, EmailTaken, Insert
<1>4. AccountsOf(e) = {}
  BY <1>3 DEF AccountsOf
<1>5. AccountsOf(e)' = {Seen(w)}
  <2>1. {u \in users' : u.email = e} = {w}
    BY <1>2, <1>3
  <2> QED
    BY <2>1 DEF AccountsOf, Seen
<1>6. ASSUME NEW f \in Emails \ {e} PROVE AccountsOf(f)' = AccountsOf(f)
  <2>1. {u \in users' : u.email = f} = {u \in users : u.email = f}
    BY <1>2, <1>6
  <2> QED
    BY <2>1 DEF AccountsOf, Seen
<1>7. Registry!Becomes(e, {Registry!Account(nextId, FALSE, FALSE, password)})
  BY <1>1, <1>2, <1>3, <1>5, <1>6, OneAddress
<1>8. Registry!Open(e)
  BY <1>3, <1>4, <1>7 DEF Registry!Open
<1> QED
  BY <1>8

LEMMA PurgeCollectCondemns ==
  ASSUME IInv, PurgeCollect
  PROVE  Registry!Condemn
<1>1. /\ Condemned = {} /\ Condemned' = Doomed(purge.ids)
      /\ users' = users /\ nextId' = nextId
  BY DEF PurgeCollect, Condemned
<1>2. ASSUME NEW id \in Doomed(purge.ids)
      PROVE  \E a \in Registry!Everyone : Registry!Abandoned(a) /\ id = a.id
  <2>1. PICK u \in users : u.id = id /\ Stranded(u)
    BY DEF Doomed
  <2>2. Seen(u) \in AccountsOf(u.email) /\ u.email \in Emails
    BY SoleAccount
  <2>3. Registry!Abandoned(Seen(u)) /\ id = Seen(u).id
    BY <2>1 DEF Registry!Abandoned, Stranded, Seen
  <2>4. Seen(u) \in Registry!Everyone
    BY <2>2 DEF Registry!Everyone
  <2> QED
    BY <2>3, <2>4
<1>3. Condemned' \in SUBSET {a.id : a \in {b \in Registry!Everyone : Registry!Abandoned(b)}}
  BY <1>1, <1>2
<1>4. \A e \in Emails : AccountsOf(e)' = AccountsOf(e)
  BY <1>1 DEF AccountsOf
<1> QED
  BY <1>1, <1>3, <1>4 DEF Registry!Condemn, Condemned

LEMMA PurgeDeletePurges ==
  ASSUME IInv, PurgeDelete
  PROVE  Registry!Purge
<1>1. /\ Condemned = purge.ids /\ Condemned' = {} /\ nextId' = nextId
      /\ users' = {u \in users : u.id \notin purge.ids}
  BY DEF PurgeDelete, Condemned, Asleep
<1>2. ASSUME NEW e \in Emails
      PROVE  AccountsOf(e)' = {a \in AccountsOf(e) : a.id \notin Condemned}
  <2>1. \A u \in users : Seen(u).id = u.id
    BY DEF Seen
  <2>2. AccountsOf(e)' = {Seen(u) : u \in {v \in users' : v.email = e}}
    BY DEF AccountsOf, Seen
  <2>3. {v \in users' : v.email = e} = {v \in users : v.email = e /\ v.id \notin Condemned}
    BY <1>1
  <2> QED
    BY <2>1, <2>2, <2>3 DEF AccountsOf
<1> QED
  BY <1>1, <1>2 DEF Registry!Purge, Condemned

LEMMA RegistryStep == IInv /\ [Next]_vars => [Registry!Next]_(Registry!vars)
<1> SUFFICES ASSUME IInv, [Next]_vars PROVE [Registry!Next]_(Registry!vars)
  OBVIOUS
<1>1. CASE \E u \in users : GrowOld(u)
  BY <1>1, GrowOldAges DEF Registry!Next
<1>2. CASE \E u \in users, usable, passkey, login \in BOOLEAN : Disable(u, usable, passkey, login)
  BY <1>2, DisableDisables DEF Registry!Next
<1>3. CASE \E r \in Requests : Activate(r) \/ Insert(r)
  BY <1>3, ActivateVerifies, InsertOpens DEF Registry!Next
<1>4. CASE PurgeCollect \/ PurgeDelete
  BY <1>4, PurgeCollectCondemns, PurgeDeletePurges DEF Registry!Next
<1>5. CASE PurgeFails
  <2>1. /\ Condemned' = {} /\ users' = users /\ nextId' = nextId
    BY <1>5 DEF PurgeFails, Asleep, Condemned
  <2>2. \A e \in Emails : AccountsOf(e)' = AccountsOf(e)
    BY <2>1 DEF AccountsOf
  <2>3. Registry!Spare
    BY <2>1, <2>2 DEF Registry!Spare, Condemned
  <2> QED
    BY <2>3 DEF Registry!Next
<1>6. CASE PurgeList
  <2>1. UNCHANGED <<users, nextId, Condemned>>
    BY <1>6 DEF PurgeList, Asleep, Condemned
  <2> QED
    BY <2>1, RegistryStays
<1>7. ASSUME UNCHANGED <<users, nextId, purge>> PROVE UNCHANGED Registry!vars
  <2>1. UNCHANGED <<users, nextId, Condemned>>
    BY <1>7 DEF Condemned
  <2> QED
    BY <2>1, RegistryStays
<1>8. ASSUME NEW r \in Requests,
             \/ \E c \in challenges : FinishSignup(r, c)
             \/ \E n \in Names, e \in Emails : Register(r, n, e)
             \/ LockEmail(r) \/ Recheck(r) \/ Taken(r) \/ InsertRefused(r)
             \/ Mail(r) \/ Abort(r)
             \/ \E id \in links : OpenLink(r, id)
      PROVE  UNCHANGED <<users, nextId, purge>>
  BY <1>8 DEF FinishSignup, Register, LockEmail, Recheck, Taken, InsertRefused,
              Mail, Abort, OpenLink
<1>9. ASSUME \/ \E n \in Names, e \in Emails : BeginSignup(n, e)
             \/ \E c \in challenges : ExpireChallenge(c)
             \/ \E id \in links : LinkExpires(id)
             \/ UNCHANGED vars
      PROVE  UNCHANGED <<users, nextId, purge>>
  BY <1>9 DEF BeginSignup, ExpireChallenge, LinkExpires, vars
<1> QED
  BY <1>1, <1>2, <1>3, <1>4, <1>5, <1>6, <1>7, <1>8, <1>9 DEF Next

\* Signing up, verifying, disabling and purging, with their locks, second looks and races,
\* change the accounts as if each were one step: an address has one account or none, no
\* number returns, and what goes was old, asleep and without a password when condemned.
THEOREM SignupRefinesRegistry == Spec => ImplementsRegistry
<1>1. Init => Registry!Init
  BY DEF Init, Registry!Init, AccountsOf, Asleep
<1> QED
  BY <1>1, Invariant, RegistryStep, PTL DEF Spec, ImplementsRegistry, Registry!Spec
=============================================================================
