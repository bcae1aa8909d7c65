------------------------- MODULE PasskeyAccountProofs -------------------------
(***************************************************************************)
(* Proofs about PasskeyAccount for every set of accounts, credentials and  *)
(* requests.                                                               *)
(***************************************************************************)
EXTENDS PasskeyAccount, FiniteSetTheorems, TLAPS

\* Shape is what every other step of the argument needs to know of the state.
Shape == TypeOK /\ RequestOK /\ ClockOK

LEMMA ShapeInit == Init => Shape
  BY DEF Init, Shape, TypeOK, RequestOK, ClockOK, Purposes, Password, Row, Link, RequestState, Idle

\* The helpers keep their variables in their types.
LEMMA UnlockType ==
  ASSUME TypeOK, NEW r \in Requests, Unlock(r)
  PROVE  rowLock' \in [Users -> Requests \union {None}]
  BY DEF TypeOK, Unlock

LEMMA IdleType == Idle \in RequestState
  BY DEF Idle, RequestState

\* Replacing one request by a well-formed one keeps the requests well-formed.
WellFormed(q) ==
    /\ q \in RequestState
    /\ q.pc # "idle" => q.user \in Users
    /\ q.pc = "consume" => q.op \in Purposes
    /\ q.pc \in {"lock", "check", "commit"} =>
          q.op \in Purposes \union {"delete", "removePassword"}
    /\ q.pc \in {"consume", "lock", "check", "commit"} /\ q.op \in Purposes =>
          q.cred \in Creds
    /\ q.login <= clock

LEMMA IdleWellFormed == TypeOK => WellFormed(Idle)
  BY IdleType DEF WellFormed, Idle, TypeOK

LEMMA RequestWellFormed ==
  ASSUME Shape, NEW r \in Requests
  PROVE  WellFormed(req[r])
  BY DEF Shape, RequestOK, ClockOK, TypeOK, WellFormed

Replaces(r, q) == req' = [req EXCEPT ![r] = q]
RequestsFine == /\ req \in [Requests -> RequestState]
                /\ RequestOK
                /\ \A r \in Requests : req[r].login <= clock

LEMMA ReplaceRequest ==
  ASSUME Shape, NEW r \in Requests, NEW q, WellFormed(q),
         Replaces(r, q), clock' \in Nat, clock <= clock'
  PROVE  RequestsFine'
<1>1. req' \in [Requests -> RequestState]
  BY DEF Shape, TypeOK, WellFormed, Replaces
<1>2. ASSUME NEW s \in Requests PROVE WellFormed(req'[s]) /\ req'[s].login <= clock'
  <2>1. CASE s = r
    BY <2>1 DEF Shape, TypeOK, WellFormed, RequestState, Replaces
  <2>2. CASE s # r
    BY <2>2, RequestWellFormed DEF Shape, TypeOK, WellFormed, RequestState, Replaces
  <2> QED BY <2>1, <2>2
<1> QED BY <1>1, <1>2 DEF RequestOK, WellFormed, RequestsFine

LEMMA ReplaceByIdle ==
  ASSUME Shape, NEW r \in Requests, req' = [req EXCEPT ![r] = Idle],
         clock' \in Nat, clock <= clock'
  PROVE  RequestsFine'
  BY ReplaceRequest, IdleWellFormed DEF Replaces, Shape

\* Moving a request along its transaction keeps it well-formed.
LEMMA MovePc ==
  ASSUME Shape, NEW r \in Requests, UNCHANGED clock,
         NEW to \in {"lock", "check", "commit"},
         req' = [req EXCEPT ![r] = [@ EXCEPT !.pc = to]],
         \/ req[r].pc = "consume"
         \/ req[r].pc \in {"lock", "check"}
  PROVE  RequestsFine'
<1> DEFINE q == [req[r] EXCEPT !.pc = to]
<1>1. WellFormed(q)
  BY RequestWellFormed DEF WellFormed, RequestState
<1>2. Replaces(r, q)
  BY DEF Replaces, Shape, TypeOK
<1>3. clock' \in Nat /\ clock <= clock'
  BY DEF Shape, TypeOK
<1> QED
  BY <1>1, <1>2, <1>3, ReplaceRequest

\* A request as it starts: a ceremony about to consume its challenge, or a
\* transaction about to take the row lock.
LEMMA FreshRequest ==
  ASSUME Shape, NEW q \in RequestState, q.user \in Users, q.login <= clock,
         \/ q.pc \in {"consume", "lock"} /\ q.op \in Purposes /\ q.cred \in Creds
         \/ q.pc = "lock" /\ q.op \in {"delete", "removePassword"}
  PROVE  WellFormed(q)
<1>1. q.pc \in {"consume", "lock", "check", "commit"} /\ q.op \in Purposes =>
          q.cred \in Creds
  BY DEF Purposes
<1>3. q.pc = "consume" => q.op \in Purposes
  OBVIOUS
<1>4. q.pc \in {"lock", "check", "commit"} =>
          q.op \in Purposes \union {"delete", "removePassword"}
  OBVIOUS
<1> QED
  BY <1>1, <1>3, <1>4 DEF WellFormed

LEMMA ShapeStep == Shape /\ [Next]_vars => Shape'
<1> SUFFICES ASSUME Shape, [Next]_vars PROVE Shape'
  OBVIOUS
<1>a. TypeOK /\ RequestsFine
  BY DEF Shape, RequestsFine, TypeOK, ClockOK
<1>b. \A r \in Requests : req[r].pc # "idle" => req[r].user \in Users
  BY DEF Shape, RequestOK
<1>c. clock \in Nat /\ clock <= clock
  BY <1>a DEF TypeOK
<1> USE <1>a, <1>b, <1>c DEF account
<1>1. ASSUME NEW u \in Users, NEW p \in Purposes, Issue(u, p) PROVE Shape'
  BY <1>1 DEF Issue, Shape, RequestOK, ClockOK, TypeOK
<1>2. ASSUME NEW u \in Users, RegisterBegin(u) PROVE Shape'
  BY <1>2, <1>1 DEF RegisterBegin, Purposes
<1>3. ASSUME NEW l \in links, RecoverBegin(l) PROVE Shape'
  BY <1>3, <1>1 DEF RecoverBegin, Purposes, Link, TypeOK
<1>4. ASSUME NEW u \in Users, NEW p \in Purposes, Expire(u, p) PROVE Shape'
  BY <1>4 DEF Expire, TakeChallenge, Shape, RequestOK, ClockOK, TypeOK
<1>5. ASSUME NEW u \in Users, MailLink(u) PROVE Shape'
  BY <1>5 DEF MailLink, Link, Of, Password, Shape, RequestOK, ClockOK, TypeOK
<1>6. ASSUME NEW u \in Users, SignIn(u) PROVE Shape'
  BY <1>6 DEF SignIn, RecordLogin, Shape, RequestOK, ClockOK, TypeOK, RequestState
<1>7. ASSUME NEW u \in Users, Deactivate(u) PROVE Shape'
  BY <1>7 DEF Deactivate, Shape, RequestOK, ClockOK, TypeOK
<1>8. ASSUME NEW r \in Requests, NEW q, WellFormed(q), Start(r, q) PROVE Shape'
  <2>1. Replaces(r, q)
    BY <1>8 DEF Start, Replaces
  <2>2. RequestsFine'
    BY <1>8, <2>1, ReplaceRequest DEF Start
  <2> QED
    BY <1>8, <2>2 DEF Start, Shape, TypeOK, ClockOK, RequestsFine
<1>9. ASSUME NEW r \in Requests, NEW u \in Users, NEW c \in Creds, RegisterFinish(r, u, c)
      PROVE Shape'
  <2> DEFINE q == [Idle EXCEPT !.op = "register", !.pc = "consume", !.user = u, !.cred = c]
  <2>1. q \in RequestState
    BY DEF RequestState, Purposes, Idle
  <2>2. q.pc = "consume" /\ q.op \in Purposes /\ q.cred = c /\ q.user = u /\ q.login <= clock
    BY DEF Purposes, Idle
  <2> HIDE DEF q
  <2>3. WellFormed(q)
    BY <2>1, <2>2, FreshRequest
  <2> QED
    BY <1>9, <2>3, <1>8 DEF RegisterFinish, q
<1>10. ASSUME NEW r \in Requests, NEW l \in links, NEW c \in Creds, RecoverFinish(r, l, c)
       PROVE Shape'
  <2> DEFINE q == [Idle EXCEPT !.op = "recover", !.pc = "consume",
                                !.user = l.user, !.cred = c, !.link = l]
  <2>0. l \in Link /\ l.user \in Users
    BY DEF TypeOK, Link
  <2>1. q \in RequestState
    BY <2>0 DEF RequestState, Purposes, Idle
  <2>2. q.pc = "consume" /\ q.op \in Purposes /\ q.cred = c /\ q.user = l.user /\ q.login <= clock
    BY DEF Purposes, Idle
  <2> HIDE DEF q
  <2>3. WellFormed(q)
    BY <2>0, <2>1, <2>2, FreshRequest
  <2> QED
    BY <1>10, <2>3, <1>8 DEF RecoverFinish, q
<1>11. ASSUME NEW r \in Requests, NEW u \in Users, NEW p \in passkeys, DeletePasskey(r, u, p.pk)
       PROVE Shape'
  <2> DEFINE q == [Idle EXCEPT !.op = "delete", !.pc = "lock", !.user = u, !.pk = p.pk]
  <2>0. p.pk \in Nat
    BY DEF TypeOK, Row
  <2>1. q \in RequestState
    BY <2>0 DEF RequestState, Purposes, Idle
  <2>2. q.pc = "lock" /\ q.op = "delete" /\ q.user = u /\ q.login <= clock
    BY DEF Purposes, Idle
  <2> HIDE DEF q
  <2>3. WellFormed(q)
    BY <2>1, <2>2, FreshRequest
  <2> QED
    BY <1>11, <2>3, <1>8 DEF DeletePasskey, q
<1>12. ASSUME NEW r \in Requests, NEW u \in Users, RemovePassword(r, u) PROVE Shape'
  <2> DEFINE q == [Idle EXCEPT !.op = "removePassword", !.pc = "lock", !.user = u]
  <2>1. q \in RequestState
    BY DEF RequestState, Purposes, Idle
  <2>2. q.pc = "lock" /\ q.op = "removePassword" /\ q.user = u /\ q.login <= clock
    BY DEF Purposes, Idle
  <2> HIDE DEF q
  <2>3. WellFormed(q)
    BY <2>1, <2>2, FreshRequest
  <2> QED
    BY <1>12, <2>3, <1>8 DEF RemovePassword, q
<1>13. ASSUME NEW r \in Requests, NEW l \in links, ResetPassword(r, l) PROVE Shape'
  <2>1. lastLogin[l.user] \in Nat /\ lastLogin[l.user] <= clock /\ l \in Link
    BY DEF Shape, ClockOK, Link, TypeOK
  <2>2. WellFormed([Idle EXCEPT !.op = "reset", !.pc = "save", !.user = l.user,
                                !.link = l, !.login = lastLogin[l.user]])
    BY <2>1 DEF RequestState, Purposes, Idle, WellFormed, Link
  <2> QED
    BY <1>13, <2>2, <1>8 DEF ResetPassword
<1>13a. ASSUME NEW r \in Requests, NEW u \in Users, ChangePassword(r, u) PROVE Shape'
  <2>1. lastLogin[u] \in Nat /\ lastLogin[u] <= clock
    BY DEF Shape, ClockOK, TypeOK
  <2>2. WellFormed([Idle EXCEPT !.op = "change", !.pc = "save", !.user = u,
                                !.login = lastLogin[u]])
    BY <2>1 DEF RequestState, Purposes, Idle, WellFormed
  <2> QED
    BY <1>13a, <2>2, <1>8 DEF ChangePassword
<1>14. ASSUME NEW r \in Requests, SavePassword(r) PROVE Shape'
  <2>1. req[r].user \in Users
    BY <1>14 DEF SavePassword
  <2>2. RequestsFine'
    BY <1>14, ReplaceByIdle DEF SavePassword
  <2> QED
    BY <1>14, <2>1, <2>2 DEF SavePassword, Password, Shape, RequestState, TypeOK,
                             ClockOK, RequestsFine
<1>15. ASSUME NEW r \in Requests, Consume(r) PROVE Shape'
  <2>1. req[r].user \in Users /\ req[r].op \in Purposes
    BY <1>15 DEF Consume, Shape, RequestOK
  <2>2. challenges' \in [Users -> [Purposes -> Nat]]
    BY <1>15, <2>1 DEF Consume, TakeChallenge, TypeOK
  <2>3. RequestsFine'
    BY <1>15, ReplaceByIdle, MovePc DEF Consume
  <2> QED
    BY <1>15, <2>2, <2>3 DEF Consume, Shape, TypeOK, ClockOK, RequestsFine
<1>16. ASSUME NEW r \in Requests, ChallengeGone(r) PROVE Shape'
  <2>1. RequestsFine'
    BY <1>16, ReplaceByIdle DEF ChallengeGone
  <2> QED
    BY <1>16, <2>1 DEF ChallengeGone, Shape, TypeOK, ClockOK, RequestsFine
<1>17. ASSUME NEW r \in Requests, Lock(r) PROVE Shape'
  <2>1. req' = [req EXCEPT ![r] = [@ EXCEPT !.pc = "check"]]
    BY <1>17 DEF Lock, Step
  <2>2. RequestsFine'
    BY <1>17, <2>1, MovePc DEF Lock, Step
  <2> QED
    BY <1>17, <2>2 DEF Lock, Shape, TypeOK, ClockOK, RequestsFine
<1>18. ASSUME NEW r \in Requests, Check(r) PROVE Shape'
  <2>1. req' = [req EXCEPT ![r] = [@ EXCEPT !.pc = "commit"]]
    BY <1>18 DEF Check, Step
  <2>2. RequestsFine'
    BY <1>18, <2>1, MovePc DEF Check, Step
  <2> QED
    BY <1>18, <2>2 DEF Check, Shape, TypeOK, ClockOK, RequestsFine
<1>19. ASSUME NEW r \in Requests, Refuse(r) PROVE Shape'
  <2>1. RequestsFine'
    BY <1>19, ReplaceByIdle DEF Refuse
  <2> QED
    BY <1>19, <2>1, UnlockType DEF Refuse, Shape, TypeOK, ClockOK, RequestsFine
<1>20. ASSUME NEW r \in Requests, StorePasskey(r) PROVE Shape'
  <2> DEFINE row == [pk |-> nextPk, user |-> req[r].user, cred |-> req[r].cred,
                     via |-> req[r].op]
             next == IF req[r].op = "recover"
                     THEN [Idle EXCEPT !.op = "recover", !.pc = "login",
                                       !.user = req[r].user]
                     ELSE Idle
  <2>1. row \in Row /\ req[r].user \in Users
    BY <1>20 DEF StorePasskey, Row, Shape, RequestOK, TypeOK
  <2>2. WellFormed(next)
    BY <2>1, IdleWellFormed DEF WellFormed, Idle, RequestState, Purposes
  <2>3. Replaces(r, next)
    BY <1>20 DEF StorePasskey, Replaces
  <2>4. clock' = clock
    BY <1>20 DEF StorePasskey
  <2>5. RequestsFine'
    <3> HIDE DEF next
    <3> QED BY <2>2, <2>3, <2>4, ReplaceRequest
  <2> QED
    BY <1>20, <2>1, <2>5, UnlockType
    DEF StorePasskey, BumpEpoch, Shape, TypeOK, ClockOK, RequestsFine
<1>21. ASSUME NEW r \in Requests, DuplicateCredential(r) PROVE Shape'
  <2>1. RequestsFine'
    BY <1>21, ReplaceByIdle DEF DuplicateCredential
  <2> QED
    BY <1>21, <2>1, UnlockType DEF DuplicateCredential, Shape, TypeOK, ClockOK, RequestsFine
<1>22. ASSUME NEW r \in Requests, CommitDelete(r) PROVE Shape'
  <2>1. RequestsFine'
    BY <1>22, ReplaceByIdle DEF CommitDelete
  <2> QED
    BY <1>22, <2>1, UnlockType
    DEF CommitDelete, BumpEpoch, Shape, TypeOK, ClockOK, RequestsFine
<1>23. ASSUME NEW r \in Requests, CommitRemovePassword(r) PROVE Shape'
  <2>1. RequestsFine' /\ req[r].user \in Users
    BY <1>23, ReplaceByIdle DEF CommitRemovePassword
  <2> QED
    BY <1>23, <2>1, UnlockType
    DEF CommitRemovePassword, Password, Shape, TypeOK, ClockOK, RequestsFine
<1>24. ASSUME NEW r \in Requests, LoginAfterRecover(r) PROVE Shape'
  <2>1. clock' \in Nat /\ clock <= clock'
    BY <1>24 DEF LoginAfterRecover, RecordLogin
  <2>2. RequestsFine'
    BY <1>24, <2>1, ReplaceByIdle DEF LoginAfterRecover
  <2> QED
    BY <1>24, <2>1, <2>2
    DEF LoginAfterRecover, RecordLogin, Shape, TypeOK, ClockOK, RequestsFine
<1>25. ASSUME NEW r \in Requests, Abort(r) PROVE Shape'
  <2>1. RequestsFine'
    BY <1>25, ReplaceByIdle DEF Abort
  <2> QED
    BY <1>25, <2>1, UnlockType DEF Abort, Shape, TypeOK, ClockOK, RequestsFine
<1>26. ASSUME NEW r \in Requests, Retry(r) PROVE Shape'
  <2> DEFINE q == [req[r] EXCEPT !.pc = "lock", !.tries = @ + 1]
  <2>1. Replaces(r, q)
    BY <1>26 DEF Retry, Replaces, TypeOK
  <2>2. WellFormed(q)
    <3>1. WellFormed(req[r])
      BY RequestWellFormed
    <3>0. req[r] \in RequestState /\ req[r].op = "recover"
      BY <1>26, <3>1 DEF Retry, WellFormed
    <3>2. q.op = "recover" /\ q.pc = "lock" /\ q.cred = req[r].cred
          /\ q.user = req[r].user /\ q.login = req[r].login /\ q \in RequestState
      <4>1. [req[r] EXCEPT !.pc = "lock"] \in RequestState /\ req[r].tries + 1 \in Nat
        BY <3>0 DEF RequestState
      <4>2. q = [[req[r] EXCEPT !.pc = "lock"] EXCEPT !.tries = req[r].tries + 1]
        BY <3>0 DEF RequestState
      <4> QED
        BY <3>0, <4>1, <4>2 DEF RequestState
    <3>3. q.cred \in Creds /\ q.user \in Users /\ "recover" \in Purposes
          /\ q.login <= clock
      BY <1>26, <3>1, <3>2 DEF Retry, WellFormed, Purposes
    <3> HIDE DEF q
    <3> QED
      BY <3>2, <3>3, FreshRequest
  <2>3. RequestsFine'
    BY <1>26, <2>1, <2>2, ReplaceRequest DEF Retry
  <2> QED
    BY <1>26, <2>3, UnlockType DEF Retry, Shape, TypeOK, ClockOK, RequestsFine
<1>27. CASE UNCHANGED vars
  BY <1>27 DEF vars, Shape, RequestOK, ClockOK, TypeOK
<1> QED
  BY <1>2, <1>3, <1>4, <1>5, <1>6, <1>7, <1>9, <1>10, <1>11, <1>12, <1>13, <1>13a, <1>14, <1>15,
     <1>16, <1>17, <1>18, <1>19, <1>20, <1>21, <1>22, <1>23, <1>24, <1>25, <1>26, <1>27
  DEF Next, RequestStep

\* Every reachable state is well typed.
THEOREM TypeCorrect == Spec => []TypeOK
<1>1. Shape => TypeOK
  BY DEF Shape
<1> QED
  BY <1>1, ShapeInit, ShapeStep, PTL DEF Spec

\* The steps that change the sign-in methods; every other step leaves the
\* passkeys, the passwords and the epochs alone.
Writes(r) == \/ StorePasskey(r) \/ CommitDelete(r)
             \/ CommitRemovePassword(r) \/ SavePassword(r)
Quiet == UNCHANGED <<passkeys, nextPk, password, epoch>>

LEMMA WriteOrQuiet ==
  ASSUME [Next]_vars
  PROVE  Quiet \/ \E r \in Requests : Writes(r)
<1> USE DEF Quiet, account
<1>1. ASSUME NEW u \in Users,
             \/ RegisterBegin(u) \/ MailLink(u) \/ SignIn(u) \/ Deactivate(u)
             \/ \E p \in Purposes : Expire(u, p)
      PROVE Quiet
  BY <1>1 DEF RegisterBegin, Issue, MailLink, SignIn, Deactivate, Expire
<1>2. ASSUME NEW l \in links, RecoverBegin(l) PROVE Quiet
  BY <1>2 DEF RecoverBegin, Issue
<1>3. ASSUME NEW r \in Requests, NEW q, Start(r, q) PROVE Quiet
  BY <1>3 DEF Start
<1>4. ASSUME NEW r \in Requests,
             \/ \E u \in Users, c \in Creds : RegisterFinish(r, u, c)
             \/ \E l \in links, c \in Creds : RecoverFinish(r, l, c)
             \/ \E u \in Users, p \in passkeys : DeletePasskey(r, u, p.pk)
             \/ \E u \in Users : RemovePassword(r, u) \/ ChangePassword(r, u)
             \/ \E l \in links : ResetPassword(r, l)
      PROVE Quiet
  BY <1>4, <1>3 DEF RegisterFinish, RecoverFinish, DeletePasskey, RemovePassword, ResetPassword,
              ChangePassword
<1>5. ASSUME NEW r \in Requests,
             \/ Consume(r) \/ ChallengeGone(r) \/ Lock(r) \/ Check(r) \/ Refuse(r)
             \/ DuplicateCredential(r) \/ LoginAfterRecover(r) \/ Abort(r) \/ Retry(r)
      PROVE Quiet
  BY <1>5 DEF Consume, ChallengeGone, Lock, Check, Refuse, DuplicateCredential,
              LoginAfterRecover, Abort, Retry
<1>6. CASE UNCHANGED vars
  BY <1>6 DEF vars
<1> QED
  BY <1>1, <1>2, <1>4, <1>5, <1>6 DEF Next, RequestStep, Writes

\* How a request comes to be inside its transaction: it has just locked the row
\* or just passed its checks, or this step was somebody else's and left its
\* lock alone.
Untouched(r) == /\ req'[r] = req[r]
                /\ \A u \in Users : rowLock[u] = r => rowLock'[u] = r

LEMMA InsideTransaction ==
  ASSUME Shape, [Next]_vars, NEW r \in Requests, req'[r].pc \in {"check", "commit"}
  PROVE  Lock(r) \/ Check(r) \/ Untouched(r)
<1> USE DEF Untouched, account, Shape, TypeOK
<1>1. ASSUME NEW u \in Users,
             \/ RegisterBegin(u) \/ MailLink(u) \/ SignIn(u) \/ Deactivate(u)
             \/ \E p \in Purposes : Expire(u, p)
      PROVE Untouched(r)
  BY <1>1 DEF RegisterBegin, Issue, MailLink, SignIn, Deactivate, Expire
<1>2. ASSUME NEW l \in links, RecoverBegin(l) PROVE Untouched(r)
  BY <1>2 DEF RecoverBegin, Issue
<1>3. ASSUME NEW s \in Requests, NEW q, Start(s, q), q.pc \notin {"check", "commit"}
      PROVE Untouched(r)
  BY <1>3 DEF Start
<1>4. ASSUME NEW s \in Requests,
             \/ \E u \in Users, c \in Creds : RegisterFinish(s, u, c)
             \/ \E l \in links, c \in Creds : RecoverFinish(s, l, c)
             \/ \E u \in Users, p \in passkeys : DeletePasskey(s, u, p.pk)
             \/ \E u \in Users : RemovePassword(s, u) \/ ChangePassword(s, u)
             \/ \E l \in links : ResetPassword(s, l)
      PROVE Untouched(r)
  <2>1. ASSUME NEW u \in Users, NEW c \in Creds, RegisterFinish(s, u, c)
        PROVE Untouched(r)
    BY <2>1, <1>3 DEF RegisterFinish, Idle
  <2>2. ASSUME NEW l \in links, NEW c \in Creds, RecoverFinish(s, l, c)
        PROVE Untouched(r)
    BY <2>2, <1>3 DEF RecoverFinish, Idle
  <2>3. ASSUME NEW u \in Users, NEW p \in passkeys, DeletePasskey(s, u, p.pk)
        PROVE Untouched(r)
    BY <2>3, <1>3 DEF DeletePasskey, Idle
  <2>4a. ASSUME NEW u \in Users, ChangePassword(s, u) PROVE Untouched(r)
    BY <2>4a, <1>3 DEF ChangePassword, Idle
  <2>4. ASSUME NEW u \in Users, RemovePassword(s, u) PROVE Untouched(r)
    BY <2>4, <1>3 DEF RemovePassword, Idle
  <2>5. ASSUME NEW l \in links, ResetPassword(s, l) PROVE Untouched(r)
    BY <2>5, <1>3 DEF ResetPassword, Idle
  <2> QED
    BY <1>4, <2>1, <2>2, <2>3, <2>4, <2>4a, <2>5
<1>5. ASSUME NEW s \in Requests, NEW q, q.pc \notin {"check", "commit"},
             req' = [req EXCEPT ![s] = q], Unlock(s) \/ UNCHANGED rowLock
      PROVE Untouched(r)
  BY <1>5 DEF Unlock
<1>6. Idle.pc \notin {"check", "commit"}
  BY DEF Idle
<1>7. ASSUME NEW s \in Requests,
             \/ SavePassword(s) \/ ChallengeGone(s) \/ Refuse(s) \/ DuplicateCredential(s)
             \/ CommitDelete(s) \/ CommitRemovePassword(s) \/ LoginAfterRecover(s) \/ Abort(s)
      PROVE Untouched(r)
  <2>1. req' = [req EXCEPT ![s] = Idle] /\ (Unlock(s) \/ UNCHANGED rowLock)
    BY <1>7 DEF SavePassword, ChallengeGone, Refuse, DuplicateCredential, CommitDelete,
                CommitRemovePassword, LoginAfterRecover, Abort
  <2> QED
    BY <2>1, <1>5, <1>6
<1>8. ASSUME NEW s \in Requests, Consume(s) PROVE Untouched(r)
  <2>1. PICK verified \in BOOLEAN :
          req' = [req EXCEPT ![s] = IF verified THEN [@ EXCEPT !.pc = "lock"] ELSE Idle]
    BY <1>8 DEF Consume
  <2> QED
    BY <1>8, <2>1, <1>6 DEF Consume, RequestState
<1>9. ASSUME NEW s \in Requests, StorePasskey(s) PROVE Untouched(r)
  BY <1>9, <1>6 DEF StorePasskey, Unlock, Idle
<1>10. ASSUME NEW s \in Requests, Retry(s) PROVE Untouched(r)
  BY <1>10 DEF Retry, Unlock, RequestState
<1>11. ASSUME NEW s \in Requests, s # r, Lock(s) PROVE Untouched(r)
  BY <1>11, NoneAssumption DEF Lock, Step
<1>12. ASSUME NEW s \in Requests, s # r, Check(s) PROVE Untouched(r)
  BY <1>12 DEF Check, Step
<1>13. CASE UNCHANGED vars
  BY <1>13 DEF vars
<1> QED
  BY <1>1, <1>2, <1>4, <1>7, <1>8, <1>9, <1>10, <1>11, <1>12, <1>13 DEF Next, RequestStep

\* What a step may do besides: mail a link, and move a last login either to a
\* reading of the clock nobody has seen or, with a new password, back.
Mails == links' = links \/ \E u \in Users : MailLink(u)
MovesLogin == \/ UNCHANGED <<lastLogin, clock>>
              \/ \E u \in Users : RecordLogin(u)
              \/ \E r \in Requests : SavePassword(r)

LEMMA LinksAndLogins ==
  ASSUME Shape, [Next]_vars
  PROVE  Mails /\ MovesLogin
<1> USE DEF Mails, MovesLogin, account
<1> DEFINE P == Mails /\ MovesLogin
<1>1. ASSUME NEW u \in Users,
             \/ RegisterBegin(u) \/ MailLink(u) \/ SignIn(u) \/ Deactivate(u)
             \/ \E p \in Purposes : Expire(u, p)
      PROVE P
  BY <1>1 DEF RegisterBegin, Issue, MailLink, SignIn, Deactivate, Expire
<1>2. ASSUME NEW l \in links, RecoverBegin(l) PROVE P
  BY <1>2 DEF RecoverBegin, Issue
<1>3. ASSUME NEW r \in Requests, NEW q, Start(r, q) PROVE P
  BY <1>3 DEF Start
<1>4. ASSUME NEW r \in Requests,
             \/ \E u \in Users, c \in Creds : RegisterFinish(r, u, c)
             \/ \E l \in links, c \in Creds : RecoverFinish(r, l, c)
             \/ \E u \in Users, p \in passkeys : DeletePasskey(r, u, p.pk)
             \/ \E u \in Users : RemovePassword(r, u) \/ ChangePassword(r, u)
             \/ \E l \in links : ResetPassword(r, l)
      PROVE P
  BY <1>4, <1>3 DEF RegisterFinish, RecoverFinish, DeletePasskey, RemovePassword, ResetPassword,
              ChangePassword
<1>5. ASSUME NEW r \in Requests, RequestStep(r) \/ Abort(r) \/ Retry(r)
      PROVE P
  <2>1. CASE LoginAfterRecover(r)
    <3>1. req[r].user \in Users
      BY <2>1 DEF LoginAfterRecover, Shape, RequestOK
    <3> QED
      BY <2>1, <3>1 DEF LoginAfterRecover
  <2>2. CASE SavePassword(r)
    BY <2>2 DEF SavePassword
  <2>3. CASE Consume(r) \/ ChallengeGone(r) \/ Lock(r) \/ Check(r) \/ Refuse(r)
             \/ DuplicateCredential(r) \/ Abort(r) \/ Retry(r)
    BY <2>3 DEF Consume, ChallengeGone, Lock, Check, Refuse, DuplicateCredential, Abort, Retry
  <2>4. CASE StorePasskey(r) \/ CommitDelete(r) \/ CommitRemovePassword(r)
    BY <2>4 DEF StorePasskey, CommitDelete, CommitRemovePassword
  <2> QED
    BY <1>5, <2>1, <2>2, <2>3, <2>4 DEF RequestStep
<1>6. CASE UNCHANGED vars
  BY <1>6 DEF vars
<1> QED
  BY <1>1, <1>2, <1>4, <1>5, <1>6 DEF Next

LEMMA ClockGrows ==
  ASSUME Shape, [Next]_vars
  PROVE  clock <= clock'
<1>0. clock \in Nat
  BY DEF Shape, TypeOK
<1>1. ASSUME NEW u \in Users, RecordLogin(u) PROVE clock <= clock'
  BY <1>0, <1>1 DEF RecordLogin
<1>2. ASSUME NEW r \in Requests, SavePassword(r) PROVE clock <= clock'
  BY <1>0, <1>2 DEF SavePassword
<1> QED
  BY <1>0, <1>1, <1>2, LinksAndLogins DEF MovesLogin

\* The row a StorePasskey inserts.
NewRow(r) == [pk |-> nextPk, user |-> req[r].user, cred |-> req[r].cred, via |-> req[r].op]

LEMMA RowsInit == Init => RowsOK
  BY FS_EmptySet DEF Init, RowsOK

LEMMA RowsStep ==
  ASSUME Shape, RowsOK, [Next]_vars
  PROVE  RowsOK'
<1>0. nextPk \in Nat /\ passkeys \subseteq Row
  BY DEF Shape, TypeOK
<1>1. CASE Quiet
  BY <1>1 DEF Quiet, RowsOK
<1>2. ASSUME NEW r \in Requests, StorePasskey(r) PROVE RowsOK'
  <2>1. /\ passkeys' = passkeys \union {NewRow(r)}
        /\ nextPk' = nextPk + 1
        /\ \A p \in passkeys : p.cred # NewRow(r).cred
        /\ NewRow(r).pk = nextPk
    BY <1>2 DEF StorePasskey, NewRow
  <2>2. IsFiniteSet(passkeys')
    BY <2>1, FS_AddElement DEF RowsOK
  <2>3. \A p \in passkeys : p.pk < nextPk /\ p.pk \in Nat
    BY <1>0 DEF RowsOK, Row
  <2>4. \A p \in passkeys' : p.pk < nextPk'
    BY <1>0, <2>1, <2>3
  <2>5. ASSUME NEW p \in passkeys', NEW q \in passkeys', p.pk = q.pk \/ p.cred = q.cred
        PROVE p = q
    BY <1>0, <2>1, <2>3, <2>5 DEF RowsOK
  <2> QED
    BY <2>2, <2>4, <2>5 DEF RowsOK
<1>3. ASSUME NEW r \in Requests, CommitDelete(r) PROVE RowsOK'
  <2>1. passkeys' \subseteq passkeys /\ nextPk' = nextPk
    BY <1>3 DEF CommitDelete
  <2>2. IsFiniteSet(passkeys')
    BY <2>1, FS_Subset DEF RowsOK
  <2> QED
    BY <2>1, <2>2 DEF RowsOK
<1>4. ASSUME NEW r \in Requests, CommitRemovePassword(r) \/ SavePassword(r) PROVE RowsOK'
  BY <1>4 DEF CommitRemovePassword, SavePassword, RowsOK
<1> QED
  BY <1>1, <1>2, <1>3, <1>4, WriteOrQuiet DEF Writes

\* Versions and epochs only grow, and an epoch stands still only while the
\* account's passkeys do.
LEMMA VersionsGrow ==
  ASSUME Shape, [Next]_vars, NEW u \in Users
  PROVE  /\ password[u].ver <= password'[u].ver
         /\ epoch[u] <= epoch'[u]
         /\ epoch'[u] = epoch[u] => Of(u)' = Of(u)
<1>0. /\ password \in [Users -> Password] /\ epoch \in [Users -> Nat]
      /\ \A v \in Users : password[v].ver \in Nat /\ epoch[v] \in Nat
  BY DEF Shape, TypeOK, Password
<1>1. CASE Quiet
  BY <1>0, <1>1 DEF Quiet, Of
<1>2. ASSUME NEW r \in Requests, StorePasskey(r) \/ CommitDelete(r),
             NEW v \in Users, v = req[r].user
      PROVE  /\ password' = password
             /\ epoch' = [epoch EXCEPT ![v] = @ + 1]
             /\ v # u => Of(u)' = Of(u)
  BY <1>2 DEF StorePasskey, CommitDelete, BumpEpoch, account, Of
<1>3. ASSUME NEW r \in Requests, StorePasskey(r) \/ CommitDelete(r)
      PROVE  /\ password[u].ver <= password'[u].ver
             /\ epoch[u] <= epoch'[u]
             /\ epoch'[u] = epoch[u] => Of(u)' = Of(u)
  <2>1. req[r].user \in Users
    BY <1>3 DEF Shape, RequestOK, StorePasskey, CommitDelete
  <2> QED
    BY <1>0, <1>2, <1>3, <2>1
<1>4. ASSUME NEW r \in Requests, CommitRemovePassword(r) \/ SavePassword(r)
      PROVE  /\ password[u].ver <= password'[u].ver
             /\ epoch' = epoch /\ Of(u)' = Of(u)
  BY <1>0, <1>4 DEF CommitRemovePassword, SavePassword, Of
<1> QED
  BY <1>0, <1>1, <1>3, <1>4, WriteOrQuiet DEF Writes

LEMMA LinksInit == Init => LinksOK
  BY DEF Init, LinksOK

LEMMA LinksStep ==
  ASSUME Shape, LinksOK, [Next]_vars
  PROVE  LinksOK'
<1> DEFINE Fine(l) == /\ l.ver <= password[l.user].ver
                      /\ l.login <= clock
                      /\ l.epoch <= epoch[l.user]
                      /\ l.epoch = epoch[l.user] => l.had = Of(l.user)
<1>0. /\ links \subseteq Link
      /\ clock \in Nat /\ clock' \in Nat /\ clock <= clock'
      /\ \A v \in Users : /\ password[v].ver \in Nat /\ epoch[v] \in Nat
                          /\ password'[v].ver \in Nat /\ epoch'[v] \in Nat
  BY ShapeStep, ClockGrows DEF Shape, TypeOK, Password
<1>1. ASSUME NEW l \in links PROVE Fine(l)'
  <2>1. l.user \in Users /\ l.ver \in Nat /\ l.epoch \in Nat /\ l.login \in Nat
    BY <1>0 DEF Link
  <2>2. Fine(l)
    BY DEF LinksOK
  <2>3. /\ password[l.user].ver <= password'[l.user].ver
        /\ epoch[l.user] <= epoch'[l.user]
        /\ epoch'[l.user] = epoch[l.user] => Of(l.user)' = Of(l.user)
    BY <2>1, VersionsGrow
  <2>4. password[l.user].ver \in Nat /\ epoch[l.user] \in Nat
        /\ password'[l.user].ver \in Nat /\ epoch'[l.user] \in Nat
    BY <1>0, <2>1
  <2> QED
    BY <1>0, <2>1, <2>2, <2>3, <2>4
<1>2. ASSUME NEW u \in Users, MailLink(u), NEW l \in links', l \notin links PROVE Fine(l)'
  <2>1. l.user = u /\ l.ver = password[u].ver /\ l.login = lastLogin[u]
        /\ l.epoch = epoch[u] /\ l.had = Of(u)
    BY <1>2 DEF MailLink
  <2>2. UNCHANGED <<passkeys, password, epoch, clock>> /\ lastLogin[u] <= clock
    BY <1>2 DEF MailLink, account, Shape, ClockOK
  <2> QED
    BY <1>0, <2>1, <2>2 DEF Of
<1>3. \A l \in links' : Fine(l)'
  BY <1>1, <1>2, LinksAndLogins DEF Mails
<1> QED
  BY <1>3 DEF LinksOK

\* The lock and the checks made under it.
LEMMA LockInit == Init => LockOK /\ CheckOK
  BY DEF Init, LockOK, CheckOK, Idle

LEMMA LockStep ==
  ASSUME Shape, LockOK, [Next]_vars
  PROVE  LockOK'
<1> SUFFICES ASSUME NEW r \in Requests, req'[r].pc \in {"check", "commit"}
             PROVE  rowLock'[req'[r].user] = r
  BY DEF LockOK
<1>0. /\ req \in [Requests -> RequestState]
      /\ rowLock \in [Users -> Requests \union {None}]
      /\ req[r].pc # "idle" => req[r].user \in Users
  BY DEF Shape, TypeOK, RequestOK
<1>1. CASE Lock(r)
  BY <1>0, <1>1 DEF Lock, Step, RequestState
<1>2. CASE Check(r)
  BY <1>0, <1>2 DEF Check, Step, RequestState, LockOK
<1>3. CASE Untouched(r)
  BY <1>0, <1>3 DEF Untouched, LockOK
<1> QED
  BY <1>1, <1>2, <1>3, InsideTransaction

\* Who writes is afterwards in no transaction.
LEMMA WritesEnd ==
  ASSUME Shape, NEW r \in Requests, Writes(r)
  PROVE  req'[r].pc \notin {"check", "commit"}
<1>0. req \in [Requests -> RequestState] /\ Idle.pc = "idle"
  BY DEF Shape, TypeOK, Idle
<1>1. CASE req' = [req EXCEPT ![r] = Idle]
  BY <1>0, <1>1
<1>2. CASE StorePasskey(r)
  BY <1>0, <1>2 DEF StorePasskey, Idle
<1> QED
  BY <1>1, <1>2 DEF Writes, CommitDelete, CommitRemovePassword, SavePassword

\* Nobody writes to an account whose row somebody else holds.
LEMMA WriteElsewhere ==
  ASSUME Shape, LockOK, NEW r \in Requests, NEW s \in Requests, s # r, Writes(s),
         req[r].pc = "commit"
  PROVE  req[s].user # req[r].user
<1>1. rowLock[req[r].user] = r
  BY DEF LockOK
<1>2. CASE req[s].pc = "commit"
  BY <1>1, <1>2 DEF LockOK
<1>3. CASE SavePassword(s)
  BY <1>1, <1>3, NoneAssumption DEF SavePassword
<1> QED
  BY <1>2, <1>3 DEF Writes, StorePasskey, CommitDelete, CommitRemovePassword

\* A write to one account leaves the sign-in methods of the others alone.
LEMMA WriteIsLocal ==
  ASSUME Shape, NEW s \in Requests, Writes(s), NEW u \in Users, req[s].user # u
  PROVE  Of(u)' = Of(u) /\ password'[u] = password[u]
<1>0. req \in [Requests -> RequestState] /\ password \in [Users -> Password]
  BY DEF Shape, TypeOK
<1>1. CASE StorePasskey(s) \/ CommitDelete(s)
  BY <1>1 DEF StorePasskey, CommitDelete, account, Of
<1>2. CASE CommitRemovePassword(s) \/ SavePassword(s)
  BY <1>0, <1>2 DEF CommitRemovePassword, SavePassword, Of
<1> QED
  BY <1>1, <1>2 DEF Writes

LEMMA CheckStep ==
  ASSUME Shape, LockOK, CheckOK, [Next]_vars
  PROVE  CheckOK'
<1> SUFFICES ASSUME NEW r \in Requests, req'[r].pc = "commit"
             PROVE  Allowed(r)'
  BY DEF CheckOK
<1>0. /\ req \in [Requests -> RequestState]
      /\ req[r].pc # "idle" => req[r].user \in Users
  BY DEF Shape, TypeOK, RequestOK
<1>1. ASSUME NEW v \in Users, req[r].user = v, Allowed(r),
             req'[r].op = req[r].op, req'[r].user = req[r].user, req'[r].pk = req[r].pk,
             Of(v)' = Of(v), password'[v] = password[v]
      PROVE  Allowed(r)'
  BY <1>1 DEF Allowed, CapOpen, MayDelete, MayRemovePassword
<1>2. CASE Lock(r)
  BY <1>0, <1>2 DEF Lock, Step, RequestState
<1>3. CASE Check(r)
  <2>1. /\ req[r].user \in Users
        /\ req'[r].op = req[r].op /\ req'[r].user = req[r].user /\ req'[r].pk = req[r].pk
    BY <1>0, <1>3 DEF Check, Step, RequestState
  <2>2. Of(req[r].user)' = Of(req[r].user) /\ password' = password /\ Allowed(r)
    BY <1>3, <2>1 DEF Check, account, Of
  <2> QED
    BY <1>1, <2>1, <2>2
<1>4. CASE Untouched(r)
  <2>1. req[r].pc = "commit" /\ req'[r] = req[r] /\ req[r].user \in Users /\ Allowed(r)
    BY <1>0, <1>4 DEF Untouched, CheckOK
  <2>2. CASE Quiet
    <3>1. Of(req[r].user)' = Of(req[r].user) /\ password' = password
      BY <2>1, <2>2 DEF Quiet, Of
    <3> QED
      BY <1>1, <2>1, <3>1
  <2>3. ASSUME NEW s \in Requests, Writes(s) PROVE Allowed(r)'
    <3>1. s # r
      BY <2>3, WritesEnd
    <3>2. Of(req[r].user)' = Of(req[r].user) /\ password'[req[r].user] = password[req[r].user]
      BY <2>1, <2>3, <3>1, WriteElsewhere, WriteIsLocal
    <3> QED
      BY <1>1, <2>1, <3>2
  <2> QED
    BY <2>2, <2>3, WriteOrQuiet
<1> QED
  BY <1>2, <1>3, <1>4, InsideTransaction

\* Deleting one of several passkeys, or one beside a password, locks nobody out.
LEMMA LockoutStep ==
  ASSUME Shape, RowsOK, CheckOK, NeverLockedOut, [Next]_vars
  PROVE  NeverLockedOut'
<1>0. /\ password \in [Users -> Password]
      /\ \A r \in Requests : req[r].pc # "idle" => req[r].user \in Users
  BY DEF Shape, TypeOK, RequestOK
<1> DEFINE Open(u) == password[u].usable \/ Of(u) # {}
<1>1. CASE Quiet
  BY <1>1 DEF Quiet, NeverLockedOut, Of
<1>2. ASSUME NEW r \in Requests, Writes(r), NEW u \in Users, req[r].user = u
      PROVE  Open(u)'
  <2>1. CASE StorePasskey(r)
    <3>1. NewRow(r) \in Of(u)'
      BY <1>2, <2>1 DEF StorePasskey, NewRow, Of
    <3> QED
      BY <3>1
  <2>2. CASE CommitDelete(r)
    <3>1. MayDelete(u, req[r].pk)
      BY <1>2, <2>2 DEF CheckOK, Allowed, CommitDelete
    <3>2. password' = password
      BY <2>2 DEF CommitDelete, account
    <3>3. CASE ~ password[u].usable
      <4>1. PICK p \in Of(u) : p.pk = req[r].pk
        BY <3>1 DEF MayDelete
      <4>2. Cardinality(Of(u)) # 1
        BY <3>1, <3>3 DEF MayDelete
      <4>3. Of(u) # {p}
        BY <4>2, FS_Singleton
      <4>4. PICK q \in Of(u) : q # p
        BY <4>1, <4>3
      <4>5. q.pk # req[r].pk
        BY <4>1, <4>4 DEF RowsOK, Of
      <4>6. q \in Of(u)'
        BY <2>2, <4>4, <4>5 DEF CommitDelete, Of
      <4> QED
        BY <4>6
    <3> QED
      BY <3>2, <3>3
  <2>3. CASE CommitRemovePassword(r)
    <3>1. Of(u) # {}
      BY <1>2, <2>3 DEF CheckOK, Allowed, CommitRemovePassword, MayRemovePassword
    <3> QED
      BY <2>3, <3>1 DEF CommitRemovePassword, Of
  <2>4. CASE SavePassword(r)
    BY <1>0, <1>2, <2>4 DEF SavePassword
  <2> QED
    BY <1>2, <2>1, <2>2, <2>3, <2>4 DEF Writes
<1>3. ASSUME NEW r \in Requests, Writes(r), NEW u \in Users, req[r].user # u
      PROVE  Open(u)'
  BY <1>3, WriteIsLocal DEF NeverLockedOut
<1>4. ASSUME NEW r \in Requests, Writes(r) PROVE NeverLockedOut'
  BY <1>2, <1>3, <1>4 DEF NeverLockedOut
<1> QED
  BY <1>1, <1>4, WriteOrQuiet

\* The older passkeys beside p.
Older(p) == {q \in Of(p.user) : q.pk < p.pk}

LEMMA CapStep ==
  ASSUME Shape, RowsOK, CheckOK, RegisteredWithinCap, [Next]_vars
  PROVE  RegisteredWithinCap'
<1>0. /\ nextPk \in Nat /\ MaxPerUser \in Nat
      /\ \A p \in passkeys : p.pk \in Nat /\ p.pk < nextPk
  BY MaxPerUserAssumption DEF Shape, TypeOK, Row, RowsOK
<1>1. ASSUME UNCHANGED passkeys PROVE RegisteredWithinCap'
  BY <1>1 DEF RegisteredWithinCap, Of
<1>2. ASSUME NEW r \in Requests, StorePasskey(r) PROVE RegisteredWithinCap'
  <2>0. PICK n : n = NewRow(r)
    OBVIOUS
  <2>1. passkeys' = passkeys \union {n} /\ n.pk = nextPk
    BY <1>2, <2>0 DEF StorePasskey, NewRow
  <2>2. ASSUME NEW p \in passkeys PROVE Older(p)' = Older(p)
    BY <1>0, <2>1 DEF Older, Of
  <2>3. n.via = "register" => Cardinality(Of(n.user)) < MaxPerUser
    BY <1>2, <2>0 DEF StorePasskey, CheckOK, Allowed, CapOpen, NewRow
  <2>4. Older(n)' = Of(n.user)
    BY <1>0, <2>1 DEF Older, Of
  <2>5. ASSUME NEW p \in passkeys', p.via = "register"
        PROVE  Cardinality(Older(p)') < MaxPerUser
    <3>1. CASE p = n
      BY <2>3, <2>4, <2>5, <3>1
    <3>2. CASE p \in passkeys
      BY <2>2, <2>5, <3>2 DEF RegisteredWithinCap, Older
    <3> QED
      BY <2>1, <3>1, <3>2
  <2> QED
    BY <2>5 DEF RegisteredWithinCap, Older
<1>3. ASSUME NEW r \in Requests, CommitDelete(r) PROVE RegisteredWithinCap'
  <2>1. passkeys' \subseteq passkeys
    BY <1>3 DEF CommitDelete
  <2>2. ASSUME NEW p \in passkeys', p.via = "register"
        PROVE  Cardinality({q \in Of(p.user)' : q.pk < p.pk}) < MaxPerUser
    <3> DEFINE new == {q \in Of(p.user)' : q.pk < p.pk}
    <3>1. p \in passkeys /\ new \subseteq Older(p) /\ Older(p) \subseteq passkeys
      BY <2>1 DEF Older, Of
    <3>2. IsFiniteSet(Older(p))
      BY <3>1, FS_Subset DEF RowsOK
    <3>3. Cardinality(new) \in Nat /\ Cardinality(Older(p)) \in Nat
          /\ Cardinality(new) <= Cardinality(Older(p))
      BY <3>1, <3>2, FS_Subset, FS_CardinalityType
    <3>4. Cardinality(Older(p)) < MaxPerUser
      BY <2>2, <3>1 DEF RegisteredWithinCap, Older
    <3> QED
      BY <1>0, <3>3, <3>4
  <2> QED
    BY <2>2 DEF RegisteredWithinCap, Of
<1>4. ASSUME NEW r \in Requests, CommitRemovePassword(r) \/ SavePassword(r)
      PROVE  UNCHANGED passkeys
  BY <1>4 DEF CommitRemovePassword, SavePassword
<1> QED
  BY <1>1, <1>2, <1>3, <1>4, WriteOrQuiet DEF Writes, Quiet

\* The inductive invariant: the shape of the state, the lock and what it
\* protects, and the history behind ids and links.
LEMMA InvariantInit == Init => IInv
<1> SUFFICES ASSUME Init PROVE IInv
  OBVIOUS
<1>1. NeverLockedOut /\ RegisteredWithinCap
  BY DEF Init, NeverLockedOut, RegisteredWithinCap
<1> QED
  BY <1>1, ShapeInit, LockInit, RowsInit, LinksInit DEF IInv, Shape

LEMMA InvariantStep == IInv /\ [Next]_vars => IInv'
  BY ShapeStep, LockStep, CheckStep, RowsStep, LinksStep, LockoutStep, CapStep DEF IInv, Shape

THEOREM Invariant == Spec => []IInv
  BY InvariantInit, InvariantStep, PTL DEF Spec

\* No interleaving of requests and crashes leaves an account with no way in.
THEOREM NobodyLockedOut == Spec => []NeverLockedOut
<1>1. IInv => NeverLockedOut
  BY DEF IInv
<1> QED
  BY <1>1, Invariant, PTL

\* Registration never exceeds the cap, whatever MaxPerUser is.
THEOREM CapRespected == Spec => []RegisteredWithinCap
<1>1. IInv => RegisteredWithinCap
  BY DEF IInv
<1> QED
  BY <1>1, Invariant, PTL

\* A link that works belongs to an account whose passkeys are what they were.
THEOREM LinksTellTheTruth == Spec => []LinkMeansUnchanged
<1>1. IInv => LinkMeansUnchanged
  BY DEF IInv, LinksOK, LinkMeansUnchanged, LinkValid
<1> QED
  BY <1>1, Invariant, PTL

\* A dead link stays dead: versions and epochs only grow, and a last login
\* moves back only in a step that makes a new password version.
LinksStayDead == \A l \in links : ~LinkValid(l) => ~LinkValid(l)'

LEMMA DeadStep == IInv /\ [Next]_vars => LinksStayDead
<1> SUFFICES ASSUME IInv, [Next]_vars, NEW l \in links, ~LinkValid(l), LinkValid(l)'
             PROVE  FALSE
  BY DEF LinksStayDead
<1>0. /\ Shape
      /\ l.user \in Users /\ l.ver \in Nat /\ l.epoch \in Nat /\ l.login \in Nat
      /\ clock \in Nat /\ lastLogin \in [Users -> Nat]
      /\ password \in [Users -> Password]
      /\ password[l.user].ver \in Nat /\ epoch[l.user] \in Nat
      /\ password'[l.user].ver \in Nat /\ epoch'[l.user] \in Nat
      /\ l.ver <= password[l.user].ver /\ l.epoch <= epoch[l.user] /\ l.login <= clock
  BY ShapeStep DEF IInv, Shape, TypeOK, Link, Password, LinksOK
<1>1. /\ password[l.user].ver <= password'[l.user].ver
      /\ epoch[l.user] <= epoch'[l.user]
  BY <1>0, VersionsGrow
<1>2. /\ l.ver = password'[l.user].ver /\ l.epoch = epoch'[l.user]
      /\ l.login = lastLogin'[l.user]
  BY DEF LinkValid
<1>3. l.ver = password[l.user].ver /\ l.epoch = epoch[l.user]
  BY <1>0, <1>1, <1>2
<1>4. l.login # lastLogin[l.user]
  BY <1>3 DEF LinkValid
<1>5. ASSUME NEW u \in Users, RecordLogin(u) PROVE FALSE
  BY <1>0, <1>2, <1>4, <1>5 DEF RecordLogin
<1>6. ASSUME NEW r \in Requests, SavePassword(r) PROVE FALSE
  <2>1. req[r].user \in Users
    BY <1>0, <1>6 DEF SavePassword, Shape, RequestOK
  <2>2. CASE req[r].user = l.user
    <3>1. password'[l.user].ver = password[l.user].ver + 1
      BY <1>0, <1>6, <2>2 DEF SavePassword
    <3>2. password[l.user].ver + 1 = password[l.user].ver /\ password[l.user].ver \in Nat
      BY <1>0, <1>2, <1>3, <3>1
    <3>3. \A n \in Nat : n + 1 # n
      OBVIOUS
    <3> QED
      BY <3>2, <3>3
  <2>3. CASE req[r].user # l.user
    BY <1>0, <1>2, <1>4, <1>6, <2>1, <2>3 DEF SavePassword
  <2> QED
    BY <2>2, <2>3
<1> QED
  BY <1>0, <1>2, <1>4, <1>5, <1>6, LinksAndLogins DEF MovesLogin

THEOREM DeadLinksStayDead == Spec => DeadLinkStaysDead
<1>1. IInv /\ [Next]_vars => LinksStayDead
  BY DeadStep
<1>2. DeadLinkStaysDead <=> [][LinksStayDead]_vars
  BY DEF DeadLinkStaysDead, LinksStayDead
<1> QED
  BY <1>1, <1>2, Invariant, PTL DEF Spec

\* The refinement.  Held and HasPassword are what the abstract variables stand for.
Held == {<<p.user, p.cred>> : p \in passkeys}
HasPassword == [u \in Users |-> password[u].usable]
Stutters == UNCHANGED <<Held, HasPassword, epoch>>

LEMMA AtomicInit == Init => Atomic!Init
<1> SUFFICES ASSUME Init PROVE Atomic!Init
  OBVIOUS
<1>1. Held = {} /\ HasPassword = [u \in Users |-> TRUE]
  BY DEF Init, Held, HasPassword
<1> QED
  BY <1>1 DEF Init, Held, HasPassword, Atomic!Init

LEMMA AddsOne ==
  ASSUME IInv, NEW r \in Requests, StorePasskey(r),
         NEW u \in Users, u = req[r].user, NEW c \in Creds, c = req[r].cred
  PROVE  Atomic!Add(u, c)
<1>1. \A h \in Held : h[2] # c
  BY DEF StorePasskey, Held
<1>2. Held' = Held \union {<<u, c>>}
  <2>1. passkeys' = passkeys \union {NewRow(r)}
        /\ NewRow(r).user = u /\ NewRow(r).cred = c
    BY DEF StorePasskey, NewRow
  <2>2. PICK n : n = NewRow(r)
    OBVIOUS
  <2> QED
    BY <2>1, <2>2 DEF Held
<1>3. epoch' = [epoch EXCEPT ![u] = @ + 1] /\ HasPassword' = HasPassword
  BY DEF StorePasskey, BumpEpoch, account, HasPassword
<1> QED
  BY <1>1, <1>2, <1>3 DEF Atomic!Add, Atomic!Bump, Held, HasPassword

LEMMA DeletesOne ==
  ASSUME IInv, NEW r \in Requests, CommitDelete(r), NEW u \in Users, u = req[r].user
  PROVE  \E c \in Creds : Atomic!Delete(u, c)
<1>0. Shape /\ RowsOK /\ MayDelete(u, req[r].pk)
  BY DEF IInv, Shape, CheckOK, Allowed, CommitDelete
<1>1. PICK p \in passkeys : p.user = u /\ p.pk = req[r].pk
  BY <1>0 DEF MayDelete, Of
<1>2. p.cred \in Creds /\ <<u, p.cred>> \in Held
  BY <1>0, <1>1 DEF Shape, TypeOK, Row, Held
<1>3. passkeys' = passkeys \ {p}
  BY <1>0, <1>1 DEF CommitDelete, RowsOK
<1>4. Held' = Held \ {<<u, p.cred>>}
  BY <1>0, <1>1, <1>3 DEF Held, RowsOK
<1>5. HasPassword[u] \/ \E h \in Held : h[1] = u /\ h # <<u, p.cred>>
  <2>1. CASE password[u].usable
    BY <2>1 DEF HasPassword
  <2>2. CASE ~ password[u].usable
    <3>1. Of(u) # {p}
      BY <1>0, <2>2, FS_Singleton DEF MayDelete
    <3>2. PICK q \in passkeys : q.user = u /\ q # p
      BY <1>1, <3>1 DEF Of
    <3>3. q.cred # p.cred
      BY <1>0, <1>1, <3>2 DEF RowsOK
    <3>4. <<u, q.cred>> \in Held /\ <<u, q.cred>> # <<u, p.cred>>
      BY <3>2, <3>3 DEF Held
    <3> QED
      BY <3>4
  <2> QED
    BY <2>1, <2>2
<1>6. HasPassword[u] \/ {h \in Held : h[1] = u} # {<<u, p.cred>>}
  <2> HIDE DEF Held, HasPassword
  <2> QED BY <1>5
<1>7. epoch' = [epoch EXCEPT ![u] = @ + 1] /\ HasPassword' = HasPassword
  BY DEF CommitDelete, BumpEpoch, account, HasPassword
<1>8. Atomic!Delete(u, p.cred)
  BY <1>2, <1>4, <1>6, <1>7 DEF Atomic!Delete, Atomic!Bump, Atomic!Of, Held, HasPassword
<1> QED
  BY <1>2, <1>8

LEMMA RemovesPassword ==
  ASSUME IInv, NEW r \in Requests, CommitRemovePassword(r),
         NEW u \in Users, u = req[r].user
  PROVE  Atomic!RemovePassword(u)
<1>0. password \in [Users -> Password] /\ MayRemovePassword(u)
  BY DEF IInv, TypeOK, CheckOK, Allowed, CommitRemovePassword
<1>1. HasPassword[u] /\ UNCHANGED <<Held, epoch>>
  BY <1>0 DEF MayRemovePassword, HasPassword, CommitRemovePassword, Held
<1>2. PICK p \in passkeys : p.user = u
  BY <1>0 DEF MayRemovePassword, Of
<1>3. <<u, p.cred>> \in {h \in Held : h[1] = u}
  BY <1>2 DEF Held
<1>4. HasPassword' = [HasPassword EXCEPT ![u] = FALSE]
  BY <1>0 DEF CommitRemovePassword, HasPassword
<1> QED
  BY <1>1, <1>3, <1>4 DEF Atomic!RemovePassword, Atomic!Of, Held, HasPassword

LEMMA SetsPassword ==
  ASSUME IInv, NEW r \in Requests, SavePassword(r), NEW u \in Users, u = req[r].user
  PROVE  Atomic!SetPassword(u)
<1>0. password \in [Users -> Password]
  BY DEF IInv, TypeOK
<1>1. HasPassword' = [HasPassword EXCEPT ![u] = TRUE] /\ UNCHANGED <<Held, epoch>>
  BY <1>0 DEF SavePassword, HasPassword, Held
<1> QED
  BY <1>1 DEF Atomic!SetPassword, Held, HasPassword

LEMMA AtomicStep == IInv /\ [Next]_vars => [Atomic!Next]_(Atomic!vars)
<1> SUFFICES ASSUME IInv, [Next]_vars PROVE [Atomic!Next]_(Atomic!vars)
  OBVIOUS
<1>1. CASE Quiet
  BY <1>1 DEF Quiet, Atomic!vars
<1>2. ASSUME NEW r \in Requests, Writes(r) PROVE Atomic!Next
  <2>1. PICK u \in Users : u = req[r].user
    BY <1>2 DEF IInv, RequestOK, Writes, StorePasskey, CommitDelete,
                CommitRemovePassword, SavePassword
  <2>2. CASE StorePasskey(r)
    <3>1. PICK c \in Creds : c = req[r].cred
      BY <2>2 DEF IInv, RequestOK, StorePasskey
    <3> QED
      BY <2>1, <2>2, <3>1, AddsOne DEF Atomic!Next
  <2>3. CASE CommitDelete(r)
    BY <2>1, <2>3, DeletesOne DEF Atomic!Next
  <2>4. CASE CommitRemovePassword(r)
    BY <2>1, <2>4, RemovesPassword DEF Atomic!Next
  <2>5. CASE SavePassword(r)
    BY <2>1, <2>5, SetsPassword DEF Atomic!Next
  <2> QED
    BY <1>2, <2>2, <2>3, <2>4, <2>5 DEF Writes
<1> QED
  BY <1>1, <1>2, WriteOrQuiet

\* The account layer, with its row lock, its crashes and its retries, changes
\* the sign-in methods as if every change were one atomic step.
THEOREM AccountRefinesMethods == Spec => ImplementsSignInMethods
  BY AtomicInit, AtomicStep, Invariant, PTL
  DEF Spec, ImplementsSignInMethods, Atomic!Spec
=============================================================================
