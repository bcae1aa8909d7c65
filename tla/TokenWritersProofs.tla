-------------------------- MODULE TokenWritersProofs --------------------------
(***************************************************************************)
(* No set of requests on an account's tokens ever deadlocks, however many  *)
(* there are.  The toolkit's rotation and revoke_all_tokens take the token *)
(* tables in opposite orders; the advisory lock is why that never shows.   *)
(***************************************************************************)
EXTENDS TokenWriters, TLAPS

\* What the proofs use of Plan: a transaction starts with the advisory lock or
\* is the one on the user row, and takes no lock twice.
Steps(tx) == 1 .. Len(Plan[tx])

LEMMA PlanFacts ==
  ASSUME NEW tx \in Transactions
  PROVE  /\ Len(Plan[tx]) \in Nat \ {0}
         /\ \A i \in Steps(tx) : Plan[tx][i] \in Locks
         /\ \A i, j \in Steps(tx) : Plan[tx][i] = Plan[tx][j] => i = j
         /\ tx # "store" => /\ Plan[tx][1] = "advisory"
                            /\ \A i \in Steps(tx) : Plan[tx][i] # "user"
         /\ tx = "store" => Len(Plan[tx]) = 1 /\ Plan[tx][1] = "user"
<1>1. CASE tx = "pass"
  BY <1>1 DEF Plan, Locks, Steps
<1>2. CASE tx = "validate"
  BY <1>2 DEF Plan, Locks, Steps
<1>3. CASE tx = "swap"
  BY <1>3 DEF Plan, Locks, Steps
<1>4. CASE tx = "issue"
  BY <1>4 DEF Plan, Locks, Steps
<1>5. CASE tx = "revoke"
  BY <1>5 DEF Plan, Locks, Steps
<1>6. CASE tx = "store"
  BY <1>6 DEF Plan, Locks, Steps
<1> QED
  BY <1>1, <1>2, <1>3, <1>4, <1>5, <1>6 DEF Transactions

\* The transaction a request is in, and how many of its locks it has; a request
\* in a transaction holds exactly those.
InPlan(q) ==
    /\ q.tx \in Transactions \union {None}
    /\ q.taken \in Nat
    /\ q.tx # None => q.taken <= Len(Plan[q.tx])

Holds(r) ==
    \A k \in Locks :
        lock[k] = r <=> /\ req[r].tx # None
                        /\ \E i \in Steps(req[r].tx) : i <= req[r].taken /\ Plan[req[r].tx][i] = k

LockInv ==
    /\ \A r \in Requests : InPlan(req[r])
    /\ \A r \in Requests : Holds(r)

\* A circle of waiting needs two requests that hold token tables at once, or
\* one that holds the user row and waits.
LEMMA LocksExcludeCircles == TypeOK /\ LockInv => NoDeadlock
<1> SUFFICES ASSUME TypeOK, LockInv,
                    NEW waiting \in SUBSET Requests, waiting # {},
                    \A r \in waiting : Holder(r) \in waiting
             PROVE  FALSE
  BY DEF NoDeadlock
<1>0. waiting \subseteq Requests /\ None \notin waiting
  BY NoneAssumption
<1>1. ASSUME NEW r \in waiting
      PROVE  /\ Wanted(r) \in Locks
             /\ lock[Wanted(r)] = Holder(r)
             /\ req[r].tx \in Transactions
  <2>1. Wanted(r) # None
    BY <1>0 DEF Holder
  <2>2. req[r].tx \in Transactions
    BY <1>0, <2>1, NoneAssumption DEF Wanted, Taking, Done, LockInv, InPlan
  <2>3. CASE Taking(r)
    <3>1. req[r].taken + 1 \in Steps(req[r].tx)
      BY <1>0, <2>2, <2>3, PlanFacts DEF Taking, Steps, LockInv, InPlan
    <3> QED
      BY <1>0, <2>1, <2>2, <2>3, <3>1, PlanFacts DEF Wanted, Holder
  <2>4. CASE ~Taking(r)
    BY <2>1, <2>2, <2>4 DEF Wanted, Holder, Locks
  <2> QED
    BY <2>3, <2>4
<1>2. ASSUME NEW r \in waiting
      PROVE  \E i \in Steps(req[Holder(r)].tx) :
                 i <= req[Holder(r)].taken /\ Plan[req[Holder(r)].tx][i] = Wanted(r)
  <2>1. Holder(r) \in Requests /\ lock[Wanted(r)] = Holder(r) /\ Wanted(r) \in Locks
    BY <1>0, <1>1
  <2> QED
    BY <2>1 DEF LockInv, Holds
<1>3. ASSUME NEW r \in waiting PROVE req[Holder(r)].tx # "store"
  <2> DEFINE h == Holder(r)
  <2>1. ASSUME req[h].tx = "store" PROVE FALSE
    <3>1. h \in waiting /\ h \in Requests
      BY <1>0
    <3>2. Len(Plan["store"]) = 1 /\ "store" \in Transactions
      BY PlanFacts DEF Transactions
    <3>3. PICK i \in Steps("store") : i <= req[h].taken
      BY <1>2, <2>1
    <3>a. req[h].tx # None /\ InPlan(req[h])
      BY <2>1, <3>1, <3>2, NoneAssumption DEF LockInv
    <3>b. req[h].taken \in Nat /\ req[h].taken <= 1
      BY <2>1, <3>2, <3>a DEF InPlan
    <3>4. req[h].taken = 1
      BY <3>2, <3>3, <3>b DEF Steps
    <3>5. ~Taking(h) /\ "store" \notin ChecksUser
      BY <2>1, <3>2, <3>4 DEF Taking, ChecksUser
    <3>6. Wanted(h) = None
      BY <2>1, <3>5 DEF Wanted
    <3> QED
      BY <1>1, <3>1, <3>6, NoneAssumption
  <2> QED
    BY <2>1
<1>4. ASSUME NEW r \in waiting PROVE lock["advisory"] = Holder(r)
  <2> DEFINE h == Holder(r)
  <2>1. h \in waiting /\ h \in Requests /\ req[h].tx \in Transactions
    BY <1>0, <1>1
  <2>2. PICK i \in Steps(req[h].tx) : i <= req[h].taken
    BY <1>2
  <2>3. 1 \in Steps(req[h].tx) /\ 1 <= req[h].taken
    BY <2>1, <2>2 DEF Steps, LockInv, InPlan
  <2>4. Plan[req[h].tx][1] = "advisory"
    BY <1>3, <2>1, PlanFacts
  <2> QED
    BY <2>1, <2>3, <2>4, NoneAssumption DEF LockInv, Holds, Locks
<1>5. PICK r \in waiting : TRUE
  OBVIOUS
<1> DEFINE h == Holder(r)
<1>6. h \in waiting /\ Holder(h) = h
  BY <1>4, <1>5
<1>7. h \in Requests /\ req[h].tx \in Transactions /\ req[h].tx # "store"
  BY <1>0, <1>1, <1>3, <1>6
<1>8. PICK i \in Steps(req[h].tx) : i <= req[h].taken /\ Plan[req[h].tx][i] = Wanted(h)
  BY <1>2, <1>6
<1>9. CASE Taking(h)
  <2>1. req[h].taken + 1 \in Steps(req[h].tx)
        /\ Wanted(h) = Plan[req[h].tx][req[h].taken + 1]
        /\ req[h].taken \in Nat
    BY <1>7, <1>9, PlanFacts DEF Taking, Steps, LockInv, InPlan, Wanted
  <2>2. i = req[h].taken + 1
    BY <1>7, <1>8, <2>1, PlanFacts
  <2> QED
    BY <1>8, <2>1, <2>2
<1>10. CASE ~Taking(h)
  <2>1. Wanted(h) = "user"
    BY <1>1, <1>6, <1>10, NoneAssumption DEF Wanted
  <2> QED
    BY <1>7, <1>8, <2>1, PlanFacts
<1> QED
  BY <1>9, <1>10

\* How a step changes the locks: a request starts without any, takes the next
\* one of its plan, or gives all of them up.
Fresh(q) == InPlan(q) /\ q.taken = 0
OthersStay(r) == \A s \in Requests \ {r} :
                     req'[s].tx = req[s].tx /\ req'[s].taken = req[s].taken
Begins(r) == lock' = lock /\ req[r].tx = None /\ Fresh(req'[r]) /\ OthersStay(r)
Releases(r) == Unlock(r) /\ Fresh(req'[r]) /\ OthersStay(r)
Untouched == lock' = lock /\ req' = req

LEMMA BeginsKeepsLocks ==
  ASSUME TypeOK, LockInv, NEW r \in Requests, Begins(r)
  PROVE  LockInv'
<1>1. \A k \in Locks : lock'[k] # r
  BY DEF Begins, LockInv, Holds
<1>2. Holds(r)' /\ InPlan(req'[r])
  BY <1>1 DEF Begins, Fresh, Holds, Steps
<1>3. ASSUME NEW s \in Requests, s # r PROVE Holds(s)' /\ InPlan(req'[s])
  <2>1. req'[s].tx = req[s].tx /\ req'[s].taken = req[s].taken /\ lock' = lock
    BY <1>3 DEF Begins, OthersStay
  <2> QED
    BY <2>1 DEF LockInv, Holds, InPlan, Steps
<1> QED
  BY <1>2, <1>3 DEF LockInv

LEMMA ReleasesKeepsLocks ==
  ASSUME TypeOK, LockInv, NEW r \in Requests, Releases(r)
  PROVE  LockInv'
<1>1. \A k \in Locks : lock'[k] # r
  BY NoneAssumption DEF Releases, Unlock
<1>2. Holds(r)' /\ InPlan(req'[r])
  BY <1>1 DEF Releases, Fresh, Holds, Steps
<1>3. ASSUME NEW s \in Requests, s # r PROVE Holds(s)' /\ InPlan(req'[s])
  <2>1. req'[s].tx = req[s].tx /\ req'[s].taken = req[s].taken
    BY <1>3 DEF Releases, OthersStay
  <2>2. \A k \in Locks : lock'[k] = s <=> lock[k] = s
    BY <1>3, NoneAssumption DEF Releases, Unlock
  <2> QED
    BY <2>1, <2>2 DEF LockInv, Holds, InPlan, Steps
<1> QED
  BY <1>2, <1>3 DEF LockInv

LEMMA AcquireKeepsLocks ==
  ASSUME TypeOK, LockInv, NEW r \in Requests, Acquire(r)
  PROVE  LockInv'
<1> DEFINE n == req[r].taken + 1
           k == Wanted(r)
<1>0. req[r] \in Request /\ lock \in [Locks -> Requests \union {None}]
  BY DEF TypeOK
<1>1. /\ req[r].tx \in Transactions /\ n \in Steps(req[r].tx)
      /\ k = Plan[req[r].tx][n] /\ k \in Locks /\ lock[k] = None
  <2>1. req[r].tx \in Transactions /\ req[r].taken \in Nat /\ Taking(r)
    BY <1>0 DEF Acquire, Taking, Request
  <2>2. n \in Steps(req[r].tx) /\ k = Plan[req[r].tx][n]
    BY <2>1, PlanFacts DEF Steps, Taking, Wanted
  <2>3. k \in Locks
    BY <2>1, <2>2, PlanFacts
  <2> QED
    BY <2>1, <2>2, <2>3, NoneAssumption DEF Acquire, Holder
<1>2. /\ req'[r].tx = req[r].tx /\ req'[r].taken = n
      /\ \A s \in Requests \ {r} : req'[s] = req[s]
  BY <1>0 DEF Acquire, Request, TypeOK
<1>3. lock' = [lock EXCEPT ![k] = r]
  BY DEF Acquire
<1>4. InPlan(req'[r])
  BY <1>0, <1>1, <1>2, PlanFacts DEF InPlan, Steps, Request
<1>5. Holds(r)'
  <2>1. ASSUME NEW j \in Locks
        PROVE  lock'[j] = r <=> \E i \in Steps(req[r].tx) :
                                   i <= n /\ Plan[req[r].tx][i] = j
    <3>1. lock[j] = r <=> \E i \in Steps(req[r].tx) :
                             i <= req[r].taken /\ Plan[req[r].tx][i] = j
      BY <1>1, NoneAssumption DEF LockInv, Holds
    <3>2. \A i \in Steps(req[r].tx) : i <= n <=> i <= req[r].taken \/ i = n
      BY <1>0 DEF Steps, Request
    <3>3. lock'[j] = r <=> lock[j] = r \/ j = k
      BY <1>0, <1>1, <1>3
    <3> QED
      BY <1>1, <3>1, <3>2, <3>3
  <2> QED
    BY <1>1, <1>2, <2>1, NoneAssumption DEF Holds
<1>6. ASSUME NEW s \in Requests, s # r PROVE Holds(s)' /\ InPlan(req'[s])
  <2>1. req'[s] = req[s]
    BY <1>2, <1>6
  <2>2. \A j \in Locks : lock'[j] = s <=> lock[j] = s
    BY <1>0, <1>1, <1>3, <1>6, NoneAssumption
  <2> QED
    BY <2>1, <2>2 DEF LockInv, Holds, InPlan
<1> QED
  BY <1>4, <1>5, <1>6 DEF LockInv

-----------------------------------------------------------------------------
(* Every step is of one of these kinds and keeps the types. *)

LEMMA IdleFacts == Idle \in Request /\ Idle.tx = None /\ Fresh(Idle)
  BY DEF Idle, Request, Fresh, InPlan

\* A request replaced by one that has taken no lock.
Replaced(r, q) == req' = [req EXCEPT ![r] = q]

LEMMA ReplaceFacts ==
  ASSUME TypeOK, NEW r \in Requests, NEW q \in Request, q.taken = 0, Replaced(r, q)
  PROVE  req' \in [Requests -> Request] /\ Fresh(req'[r]) /\ OthersStay(r)
<1>1. req' \in [Requests -> Request] /\ req'[r] = q
      /\ \A s \in Requests \ {r} : req'[s] = req[s]
  BY DEF TypeOK, Replaced
<1>2. q.tx \in Transactions \union {None} /\ (q.tx # None => 0 <= Len(Plan[q.tx]))
  BY PlanFacts DEF Request
<1> QED
  BY <1>1, <1>2 DEF Fresh, InPlan, OthersStay

LEMMA UnlockType ==
  ASSUME TypeOK, NEW r \in Requests, Unlock(r)
  PROVE  lock' \in [Locks -> Requests \union {None}]
  BY DEF TypeOK, Unlock

Inv == TypeOK /\ LockInv

LEMMA InvInit == Init => Inv
<1> SUFFICES ASSUME Init PROVE Inv
  OBVIOUS
<1>1. TypeOK
  BY IdleFacts DEF Init, TypeOK, Rows, Token
<1>2. LockInv
  BY IdleFacts, NoneAssumption DEF Init, LockInv, Holds, Fresh
<1> QED
  BY <1>1, <1>2 DEF Inv

\* A step that replaces r's request by q, which starts or gives up its locks.
LEMMA ReplaceKeepsInv ==
  ASSUME Inv, NEW r \in Requests, NEW q \in Request, q.taken = 0, Replaced(r, q),
         Unlock(r) \/ (lock' = lock /\ req[r].tx = None),
         grants' \subseteq Rows, tokens' \subseteq Token, nextId' \in Nat \ {0},
         era' \in Nat, swept' \in Nat
  PROVE  Inv'
<1>1. req' \in [Requests -> Request] /\ Fresh(req'[r]) /\ OthersStay(r)
  BY ReplaceFacts DEF Inv
<1>2. lock' \in [Locks -> Requests \union {None}]
  BY UnlockType DEF Inv, TypeOK
<1>3. Releases(r) \/ Begins(r)
  BY <1>1 DEF Releases, Begins
<1>4. LockInv'
  BY <1>3, ReleasesKeepsLocks, BeginsKeepsLocks DEF Inv
<1> QED
  BY <1>1, <1>2, <1>4 DEF Inv, TypeOK

LEMMA FinishKeepsInv ==
  ASSUME Inv, NEW r \in Requests, Finish(r),
         grants' \subseteq Rows, tokens' \subseteq Token, nextId' \in Nat \ {0},
         era' \in Nat, swept' \in Nat
  PROVE  Inv'
  BY ReplaceKeepsInv, IdleFacts DEF Finish, Replaced, Fresh

LEMMA StartKeepsInv ==
  ASSUME Inv, NEW r \in Requests, NEW q \in Request, q.taken = 0, Start(r, q), era' \in Nat
  PROVE  Inv'
<1>1. Replaced(r, q) /\ req[r].tx = None
  BY IdleFacts DEF Start, Replaced
<1>2. /\ grants' \subseteq Rows /\ tokens' \subseteq Token /\ nextId' \in Nat \ {0}
      /\ swept' \in Nat /\ lock' = lock
  BY DEF Start, Inv, TypeOK, rows
<1> QED
  BY <1>1, <1>2, ReplaceKeepsInv

LEMMA GoOnKeepsInv ==
  ASSUME Inv, NEW r \in Requests, NEW tx \in Transactions, GoOn(r, tx),
         UNCHANGED <<rows, era, swept>>
  PROVE  Inv'
<1> DEFINE q == [req[r] EXCEPT !.tx = tx, !.taken = 0, !.tries = 1]
<1>1. q \in Request /\ q.taken = 0
  BY DEF Inv, TypeOK, Request
<1>2. Replaced(r, q)
  BY DEF GoOn, Replaced, Inv, TypeOK
<1>3. Unlock(r)
  BY DEF GoOn
<1>4. /\ grants' \subseteq Rows /\ tokens' \subseteq Token /\ nextId' \in Nat \ {0}
      /\ era' \in Nat /\ swept' \in Nat
  BY DEF Inv, TypeOK, rows
<1> HIDE DEF q
<1> QED
  BY <1>1, <1>2, <1>3, <1>4, ReplaceKeepsInv

LEMMA AfterPassType ==
  ASSUME NEW q \in Request
  PROVE  AfterPass(q) \in Request /\ (AfterPass(q).taken = 0)
<1>1. CASE q.phase = 2
  BY <1>1, IdleFacts DEF AfterPass, Fresh
<1>2. CASE q.phase # 2 /\ q.op = "recover"
  BY <1>2 DEF AfterPass, Request, Transactions
<1>3. CASE q.phase # 2 /\ q.op # "recover"
  BY <1>3 DEF AfterPass, Request
<1> QED
  BY <1>1, <1>2, <1>3

LEMMA Overtaken ==
  ASSUME NEW q \in Request
  PROVE  [q EXCEPT !.late = TRUE] \in Request
<1>1. ASSUME NEW b \in BOOLEAN PROVE [q EXCEPT !.late = b] \in Request
  BY DEF Request
<1> QED
  BY <1>1, Zenon

LEMMA InvStep == Inv /\ [Next]_vars => Inv'
<1> SUFFICES ASSUME Inv, [Next]_vars PROVE Inv'
  OBVIOUS
<1>a. /\ grants \subseteq Rows /\ tokens \subseteq Token /\ nextId \in Nat \ {0}
      /\ era \in Nat /\ swept \in Nat /\ req \in [Requests -> Request]
  BY DEF Inv, TypeOK
<1>b. \A t \in tokens : t.id \in Nat /\ t.era \in Nat /\ t.late \in BOOLEAN
  BY <1>a DEF Token
<1>c. \A g \in grants : g.id \in Nat /\ g.era \in Nat
  BY <1>a DEF Rows
<1>d. ASSUME UNCHANGED <<lock, req>>, grants' \subseteq Rows, tokens' \subseteq Token,
             nextId' \in Nat \ {0}, era' \in Nat, swept' \in Nat
      PROVE  Inv'
  BY <1>d DEF Inv, TypeOK, LockInv, Holds, InPlan
<1>1. CASE Authorize
  BY <1>1, <1>a, <1>d DEF Authorize, Rows
<1>2. ASSUME NEW r \in Requests, NEW g \in grants, Exchange(r, g) PROVE Inv'
  <2>1. [Idle EXCEPT !.op = "exchange", !.tx = "issue", !.id = g.id, !.era = g.era] \in Request
    BY <1>c DEF Idle, Request, Transactions
  <2>2. [Idle EXCEPT !.op = "exchange", !.tx = "issue", !.id = g.id, !.era = g.era].taken = 0
    BY DEF Idle
  <2> QED
    BY <1>2, <1>a, <2>1, <2>2, StartKeepsInv DEF Exchange
<1>3. ASSUME NEW r \in Requests, NEW t \in tokens, Refresh(r, t) PROVE Inv'
  <2> DEFINE p == [Idle EXCEPT !.op = "rotate", !.tx = "validate", !.id = t.id]
             q == [Idle EXCEPT !.op = "rotate", !.tx = "validate", !.id = t.id,
                               !.era = t.era, !.late = t.late]
  <2>a. p \in Request /\ p.taken = 0
    BY <1>b DEF Idle, Request, Transactions
  <2>b. q = [p EXCEPT !.era = t.era, !.late = t.late]
    BY DEF Idle
  <2>c. t.era \in Nat /\ t.late \in BOOLEAN
    BY <1>b
  <2> HIDE DEF p
  <2>d. [p EXCEPT !.era = t.era] \in Request
    BY <2>a, <2>c DEF Request
  <2>e. [[p EXCEPT !.era = t.era] EXCEPT !.late = t.late] \in Request
    BY <2>c, <2>d DEF Request
  <2>1. q \in Request /\ q.taken = 0
    BY <2>a, <2>b, <2>e DEF Request
  <2> QED
    BY <1>3, <1>a, <2>1, StartKeepsInv DEF Refresh
<1>4. ASSUME NEW r \in Requests, NEW t \in tokens, RevokeOne(r, t) PROVE Inv'
  <2> DEFINE q == [Idle EXCEPT !.op = "revoke", !.tx = "revoke", !.id = t.id]
  <2>1. q \in Request /\ q.taken = 0
    BY <1>b DEF Idle, Request, Transactions
  <2> QED
    BY <1>4, <1>a, <2>1, StartKeepsInv DEF RevokeOne
<1>5. ASSUME NEW r \in Requests, NEW op \in {"recover", "reset"}, Recover(r, op) PROVE Inv'
  <2> DEFINE p == [Idle EXCEPT !.op = op, !.tx = "pass"]
             q == [Idle EXCEPT !.op = op, !.tx = "pass", !.era = era + 1]
  <2>a. p \in Request /\ p.taken = 0 /\ era + 1 \in Nat
    <3>1. [Idle EXCEPT !.op = op] \in Request
      BY DEF Idle, Request
    <3>2. p = [[Idle EXCEPT !.op = op] EXCEPT !.tx = "pass"]
      BY DEF Idle
    <3>3. ASSUME NEW a \in Request PROVE [a EXCEPT !.tx = "pass"] \in Request
      BY DEF Request, Transactions
    <3>4. p \in Request
      BY <3>1, <3>2, <3>3
    <3>5. p.taken = 0
      BY DEF Idle
    <3> QED
      BY <1>a, <3>4, <3>5
  <2>b. q = [p EXCEPT !.era = era + 1]
    BY DEF Idle
  <2> HIDE DEF p
  <2>1. q \in Request /\ q.taken = 0 /\ era + 1 \in Nat
    BY <2>a, <2>b DEF Request
  <2> QED
    BY <1>5, <1>a, <2>1, StartKeepsInv DEF Recover
<1>6. ASSUME NEW r \in Requests, ChangeAccount(r) PROVE Inv'
  <2> DEFINE q == [Idle EXCEPT !.op = "account", !.tx = "store"]
  <2>1. q \in Request /\ q.taken = 0
    BY DEF Idle, Request, Transactions
  <2> QED
    BY <1>6, <1>a, <2>1, StartKeepsInv DEF ChangeAccount
<1>7. ASSUME NEW r \in Requests, Acquire(r) PROVE Inv'
  <2>1. req' \in [Requests -> Request]
    BY <1>7, <1>a DEF Acquire, Request
  <2>2. lock' \in [Locks -> Requests \union {None}]
    BY <1>7 DEF Acquire, Inv, TypeOK
  <2>3. LockInv'
    BY <1>7, AcquireKeepsLocks DEF Inv
  <2> QED
    BY <1>7, <1>a, <2>1, <2>2, <2>3 DEF Acquire, Inv, TypeOK, rows
<1>8. ASSUME NEW r \in Requests, CommitValidate(r) PROVE Inv'
  <2>1. CASE Present(r)
    BY <1>8, <2>1, GoOnKeepsInv DEF CommitValidate, Transactions
  <2>2. CASE ~Present(r)
    BY <1>8, <1>a, <2>2, FinishKeepsInv DEF CommitValidate, rows
  <2> QED
    BY <2>1, <2>2
<1>9. ASSUME NEW r \in Requests, CommitSwap(r) PROVE Inv'
  <2>1. tokens' \subseteq Token
    BY <1>9, <1>a DEF CommitSwap, Token, Request
  <2> QED
    BY <1>9, <1>a, <2>1, FinishKeepsInv DEF CommitSwap
<1>10. ASSUME NEW r \in Requests, InvalidGrant(r) PROVE Inv'
  BY <1>10, <1>a, FinishKeepsInv DEF InvalidGrant, rows
<1>11. ASSUME NEW r \in Requests, CommitIssue(r) PROVE Inv'
  <2>1. tokens' \subseteq Token
    BY <1>11, <1>a DEF CommitIssue, Token, Request
  <2> QED
    BY <1>11, <1>a, <2>1, FinishKeepsInv DEF CommitIssue
<1>12. ASSUME NEW r \in Requests, CommitRevoke(r) PROVE Inv'
  BY <1>12, <1>a, FinishKeepsInv DEF CommitRevoke
<1>13. ASSUME NEW r \in Requests, CommitPass(r) PROVE Inv'
  <2> DEFINE q == AfterPass([req[r] EXCEPT !.passes = 1])
  <2>1. [req[r] EXCEPT !.passes = 1] \in Request
    BY <1>a DEF Request
  <2>2. q \in Request /\ q.taken = 0
    BY <2>1, AfterPassType
  <2> HIDE DEF q
  <2>3. req' = [s \in Requests |-> IF s = r THEN q
                                  ELSE IF req[s].op = "exchange"
                                       THEN [req[s] EXCEPT !.late = TRUE] ELSE req[s]]
    BY <1>13 DEF CommitPass, q
  <2>4. req' \in [Requests -> Request] /\ req'[r] = q
    <3>1. ASSUME NEW s \in Requests PROVE [req[s] EXCEPT !.late = TRUE] \in Request
      <4>1. req[s] \in Request
        BY <1>a
      <4> QED
        BY <4>1, Overtaken
    <3>2. ASSUME NEW s \in Requests PROVE req'[s] \in Request
      BY <1>a, <2>2, <2>3, <3>1
    <3> QED
      BY <2>3, <3>2
  <2>5. OthersStay(r)
    BY <1>a, <2>3 DEF OthersStay, Request
  <2>6. Fresh(req'[r])
    <3>1. q.tx \in Transactions \union {None}
      BY <2>2 DEF Request
    <3> QED
      BY <2>2, <2>4, <3>1, PlanFacts DEF Fresh, InPlan
  <2>7. LockInv'
    BY <1>13, <2>5, <2>6, ReleasesKeepsLocks DEF CommitPass, Releases, Inv
  <2>8. lock' \in [Locks -> Requests \union {None}]
    BY <1>13, UnlockType DEF CommitPass, Inv
  <2>9. swept' \in Nat
    BY <1>13, <1>a DEF CommitPass, Request
  <2> QED
    BY <1>13, <1>a, <2>4, <2>7, <2>8, <2>9 DEF CommitPass, Inv, TypeOK
<1>14. ASSUME NEW r \in Requests, CommitStore(r) PROVE Inv'
  <2> DEFINE q == IF req[r].op = "recover"
                  THEN [req[r] EXCEPT !.tx = "pass", !.taken = 0, !.phase = 2] ELSE Idle
  <2>1. q \in Request /\ q.taken = 0
    BY <1>a, IdleFacts DEF Request, Transactions, Fresh
  <2>2. Replaced(r, q)
    BY <1>14, <1>a DEF CommitStore, Replaced
  <2> HIDE DEF q
  <2> QED
    BY <1>14, <1>a, <2>1, <2>2, ReplaceKeepsInv DEF CommitStore, rows
<1>15. ASSUME NEW r \in Requests, Abort(r) PROVE Inv'
  <2> DEFINE q == IF req[r].op = "reset" THEN AfterPass(req[r]) ELSE Idle
  <2>1. q \in Request /\ q.taken = 0
    BY <1>a, IdleFacts, AfterPassType DEF Fresh
  <2>2. Replaced(r, q)
    BY <1>15, <1>a DEF Abort, Replaced
  <2> HIDE DEF q
  <2> QED
    BY <1>15, <1>a, <2>1, <2>2, ReplaceKeepsInv DEF Abort, rows
<1>16. ASSUME NEW r \in Requests, Retry(r) PROVE Inv'
  <2> DEFINE q == [req[r] EXCEPT !.taken = 0, !.tries = req[r].tries + 1]
  <2>a. [req[r] EXCEPT !.taken = 0] \in Request /\ req[r].tries + 1 \in Nat
    BY <1>a DEF Request
  <2>b. q = [[req[r] EXCEPT !.taken = 0] EXCEPT !.tries = req[r].tries + 1]
    BY <1>a DEF Request
  <2>1. q \in Request /\ q.taken = 0
    BY <2>a, <2>b DEF Request
  <2>2. Replaced(r, q)
    BY <1>16, <1>a DEF Retry, Replaced
  <2> HIDE DEF q
  <2> QED
    BY <1>16, <1>a, <2>1, <2>2, ReplaceKeepsInv DEF Retry, rows
<1>17. CASE UNCHANGED vars
  BY <1>17, <1>a, <1>d DEF vars, rows
<1> QED
  BY <1>1, <1>2, <1>3, <1>4, <1>5, <1>6, <1>7, <1>8, <1>9, <1>10, <1>11, <1>12, <1>13,
     <1>14, <1>15, <1>16, <1>17 DEF Next, RequestStep

LEMMA InvAlways == Spec => []Inv
  BY InvInit, InvStep, PTL DEF Spec

\* Every reachable state is well typed.
THEOREM WritersTyped == Spec => []TypeOK
<1>1. Inv => TypeOK
  BY DEF Inv
<1> QED
  BY <1>1, InvAlways, PTL

\* The advisory lock excludes every deadlock among the writers of an account's
\* tokens and the transactions on its user row.
THEOREM NeverDeadlocked == Spec => []NoDeadlock
<1>1. Inv => NoDeadlock
  BY LocksExcludeCircles DEF Inv
<1> QED
  BY <1>1, InvAlways, PTL
-----------------------------------------------------------------------------
(* What survives a sweep. *)

LEMMA IdleCarries == Carries(Idle)
  BY NoneAssumption DEF Carries, Idle, Transactions

\* A request moves on, and no row changes.
LEMMA MoveKeepsSurvivors ==
  ASSUME Inv, SurvivorInv, NEW r \in Requests, NEW q, Carries(q), Replaced(r, q),
         UNCHANGED <<rows, era, swept>>
  PROVE  SurvivorInv'
<1>1. \A s \in Requests : req'[s] = IF s = r THEN q ELSE req[s]
  BY DEF Inv, TypeOK, Replaced
<1>2. \A s \in Requests : Carries(req[s])'
  BY <1>1 DEF SurvivorInv, Carries, rows
<1> QED
  BY <1>2 DEF SurvivorInv, OnlyOvertakenSurvive, rows

LEMMA StartKeepsSurvivors ==
  ASSUME Inv, SurvivorInv, NEW r \in Requests, NEW q, Start(r, q), Carries(q), era' = era
  PROVE  SurvivorInv'
  BY MoveKeepsSurvivors DEF Start, Replaced, rows

\* Tokens go, and r's request is over.
LEMMA DropKeepsSurvivors ==
  ASSUME Inv, SurvivorInv, NEW r \in Requests, Finish(r), tokens' \subseteq tokens,
         UNCHANGED <<grants, nextId, era, swept>>
  PROVE  SurvivorInv'
<1>1. \A s \in Requests : req'[s] = IF s = r THEN Idle ELSE req[s]
  BY DEF Inv, TypeOK, Finish
<1>2. \A s \in Requests : Carries(req[s])'
  BY <1>1, IdleCarries DEF SurvivorInv, Carries
<1> QED
  BY <1>2 DEF SurvivorInv, OnlyOvertakenSurvive

\* A token is made, of a new id, and r's request is over.
LEMMA NewTokenKeepsSurvivors ==
  ASSUME Inv, SurvivorInv, NEW r \in Requests, Finish(r),
         NEW old \in SUBSET tokens, NEW kept \in SUBSET grants,
         NEW e \in Nat, NEW late \in BOOLEAN, e < swept => late,
         tokens' = old \union {[id |-> nextId, era |-> e, late |-> late]},
         grants' = kept, nextId' = nextId + 1, UNCHANGED <<era, swept>>
  PROVE  SurvivorInv'
<1> DEFINE new == [id |-> nextId, era |-> e, late |-> late]
<1>1. /\ nextId \in Nat /\ \A t \in tokens : t.id \in Nat /\ t.id < nextId
      /\ \A s \in Requests : req[s].id \in Nat
  BY DEF Inv, TypeOK, SurvivorInv, Token, Request
<1>2. \A s \in Requests : req'[s] = IF s = r THEN Idle ELSE req[s]
  BY DEF Inv, TypeOK, Finish
<1>3. \A t \in tokens' : t \in tokens \/ (t = new /\ t.id = nextId)
  OBVIOUS
<1>4. ASSUME NEW s \in Requests
      PROVE  Carries(req[s])'
  <2>1. CASE s = r
    BY <1>2, <2>1, IdleCarries, NoneAssumption DEF Carries, Idle, Transactions
  <2>2. CASE s # r
    <3>1. req'[s] = req[s] /\ Carries(req[s])
      BY <1>2, <2>2 DEF SurvivorInv
    <3>2. req[s].op = "rotate" => req[s].id < nextId + 1 /\ req[s].id # nextId
      BY <1>1, <3>1 DEF Carries
    <3> QED
      BY <1>3, <3>1, <3>2 DEF Carries
  <2> QED
    BY <2>1, <2>2
<1>5. OnlyOvertakenSurvive'
  BY <1>3 DEF SurvivorInv, OnlyOvertakenSurvive
<1>6. /\ \A t \in tokens' : t.id < nextId'
      /\ \A t, u \in tokens' : t.id = u.id => t = u
  BY <1>1, <1>3 DEF SurvivorInv
<1> QED
  BY <1>4, <1>5, <1>6 DEF SurvivorInv

\* The commit of revoke_all_tokens: nothing is left, and who had read is late.
LEMMA PassKeepsSurvivors ==
  ASSUME Inv, SurvivorInv, NEW r \in Requests, CommitPass(r)
  PROVE  SurvivorInv'
<1> DEFINE q == req[r]
<1>1. /\ q \in Request /\ q.op \in {"recover", "reset"} /\ q.tx = "pass" /\ q.era <= era
      /\ q.era \in Nat /\ era \in Nat /\ swept \in Nat
  BY DEF CommitPass, Committing, SurvivorInv, Carries, Inv, TypeOK, Request
<1>2. /\ tokens' = {} /\ grants' = {} /\ nextId' = nextId /\ era' = era
      /\ swept' = swept \/ (swept < q.era /\ swept' = q.era)
  BY DEF CommitPass
<1>3. swept' \in Nat /\ swept <= swept' /\ swept' <= era'
  BY <1>1, <1>2 DEF SurvivorInv
<1>4. /\ req'[r] = AfterPass([q EXCEPT !.passes = 1])
      /\ \A s \in Requests : s # r =>
            req'[s] = IF req[s].op = "exchange" THEN [req[s] EXCEPT !.late = TRUE] ELSE req[s]
  BY DEF CommitPass
<1>5. ASSUME NEW s \in Requests
      PROVE  Carries(req[s])'
  <2>1. CASE s = r
    <3> DEFINE p == [q EXCEPT !.passes = 1]
    <3>1. p.op = q.op /\ p.era = q.era /\ p.tx = "pass"
      BY <1>1 DEF Request
    <3>2. \/ AfterPass(p) = Idle
          \/ AfterPass(p) = [p EXCEPT !.tx = "store", !.taken = 0, !.tries = 1]
          \/ AfterPass(p) = [p EXCEPT !.taken = 0, !.phase = 2]
      BY DEF AfterPass
    <3>3. p \in Request
      BY <1>1 DEF Request
    <3> HIDE DEF p
    <3>4. AfterPass(p) # Idle =>
             /\ AfterPass(p).op = q.op /\ AfterPass(p).era = q.era
             /\ AfterPass(p).tx \in {"store", "pass"}
      BY <3>1, <3>2, <3>3 DEF Request
    <3>5. req'[s] = AfterPass(p)
      BY <1>4, <2>1 DEF p
    <3> QED
      BY <1>1, <1>2, <3>4, <3>5, NoneAssumption DEF Carries, Idle, Transactions
  <2>2. CASE s # r /\ req[s].op = "exchange"
    <3>1. req[s] \in Request /\ Carries(req[s])
      BY DEF Inv, TypeOK, SurvivorInv
    <3>2. /\ req'[s].op = "exchange" /\ req'[s].tx = req[s].tx /\ req'[s].late
      BY <1>4, <2>2, <3>1 DEF Request
    <3> QED
      BY <2>2, <3>1, <3>2 DEF Carries
  <2>3. CASE s # r /\ req[s].op # "exchange"
    <3>1. req'[s] = req[s] /\ Carries(req[s])
      BY <1>4, <2>3 DEF SurvivorInv
    <3> QED
      BY <1>2, <2>3, <3>1 DEF Carries
  <2> QED
    BY <2>1, <2>2, <2>3
<1> QED
  BY <1>2, <1>3, <1>5 DEF SurvivorInv, OnlyOvertakenSurvive

LEMMA SurvivorInit == Init => SurvivorInv
  BY IdleCarries DEF Init, SurvivorInv, OnlyOvertakenSurvive

LEMMA SurvivorStep == Inv /\ SurvivorInv /\ [Next]_vars => SurvivorInv'
<1> SUFFICES ASSUME Inv, SurvivorInv, [Next]_vars PROVE SurvivorInv'
  OBVIOUS
<1>a. /\ grants \subseteq Rows /\ tokens \subseteq Token /\ nextId \in Nat \ {0}
      /\ era \in Nat /\ swept \in Nat /\ req \in [Requests -> Request]
      /\ \A r \in Requests : Carries(req[r])
  BY DEF Inv, TypeOK, SurvivorInv
<1>1. CASE Authorize
  <2>1. /\ grants' = grants \union {[id |-> nextId, era |-> era]} /\ nextId' = nextId + 1
        /\ UNCHANGED <<tokens, req, era, swept>>
    BY <1>1 DEF Authorize
  <2>2. \A t \in tokens : t.id \in Nat
    BY <1>a DEF Token
  <2>3. \A r \in Requests : req[r].id \in Nat
    BY <1>a DEF Request
  <2>4. \A r \in Requests : Carries(req[r])'
    BY <1>a, <2>1, <2>3 DEF Carries
  <2>5. OnlyOvertakenSurvive'
    BY <1>a, <2>1 DEF SurvivorInv, OnlyOvertakenSurvive
  <2> QED
    BY <1>a, <2>1, <2>2, <2>4, <2>5 DEF SurvivorInv
<1>2. ASSUME NEW r \in Requests, NEW g \in grants, Exchange(r, g)
      PROVE  SurvivorInv'
  <2> DEFINE q == [Idle EXCEPT !.op = "exchange", !.tx = "issue", !.id = g.id, !.era = g.era]
  <2>1. Start(r, q) /\ era' = era
    BY <1>2 DEF Exchange
  <2>2. g.era \in Nat /\ g.era >= swept
    BY <1>a DEF SurvivorInv, OnlyOvertakenSurvive, Rows
  <2>3. Carries(q)
    BY <1>a, <2>2 DEF Carries, Idle
  <2> HIDE DEF q
  <2> QED
    BY <2>1, <2>3, StartKeepsSurvivors
<1>3. ASSUME NEW r \in Requests, NEW t \in tokens, Refresh(r, t)
      PROVE  SurvivorInv'
  <2> DEFINE q == [Idle EXCEPT !.op = "rotate", !.tx = "validate", !.id = t.id,
                               !.era = t.era, !.late = t.late]
  <2>1. Start(r, q) /\ era' = era
    BY <1>3 DEF Refresh
  <2>2. t.id < nextId /\ \A u \in tokens : u.id = t.id => u = t
    BY DEF SurvivorInv
  <2>3. Carries(q)
    BY <2>2 DEF Carries, Idle
  <2> HIDE DEF q
  <2> QED
    BY <2>1, <2>3, StartKeepsSurvivors
<1>4. ASSUME NEW r \in Requests, NEW t \in tokens, RevokeOne(r, t)
      PROVE  SurvivorInv'
  <2> DEFINE q == [Idle EXCEPT !.op = "revoke", !.tx = "revoke", !.id = t.id]
  <2>1. Start(r, q) /\ era' = era
    BY <1>4 DEF RevokeOne
  <2>2. Carries(q)
    BY DEF Carries, Idle
  <2> HIDE DEF q
  <2> QED
    BY <2>1, <2>2, StartKeepsSurvivors
<1>5. ASSUME NEW r \in Requests, NEW op \in {"recover", "reset"}, Recover(r, op)
      PROVE  SurvivorInv'
  <2> DEFINE q == [Idle EXCEPT !.op = op, !.tx = "pass", !.era = era + 1]
  <2>1. /\ req' = [req EXCEPT ![r] = q] /\ era' = era + 1
        /\ UNCHANGED <<grants, tokens, nextId, swept>>
    BY <1>5 DEF Recover, Start, rows
  <2>2. \A s \in Requests : req'[s] = IF s = r THEN q ELSE req[s]
    BY <1>a, <2>1
  <2>3. ASSUME NEW s \in Requests
        PROVE  Carries(req[s])'
    <3>1. CASE s = r
      <4>1. q.op = op /\ q.tx = "pass" /\ q.era = era + 1
        BY DEF Idle
      <4>2. q.era <= era'
        BY <1>a, <2>1, <4>1
      <4> HIDE DEF q
      <4> QED
        BY <2>2, <3>1, <4>1, <4>2 DEF Carries
    <3>2. CASE s # r
      <4>1. req[s].era \in Nat
        BY <1>a DEF Request
      <4> QED
        BY <1>a, <2>1, <2>2, <3>2, <4>1 DEF Carries
    <3> QED
      BY <3>1, <3>2
  <2> QED
    BY <1>a, <2>1, <2>3 DEF SurvivorInv, OnlyOvertakenSurvive
<1>6. ASSUME NEW r \in Requests, ChangeAccount(r)
      PROVE  SurvivorInv'
  <2> DEFINE q == [Idle EXCEPT !.op = "account", !.tx = "store"]
  <2>1. Start(r, q) /\ era' = era
    BY <1>6 DEF ChangeAccount
  <2>2. Carries(q)
    BY DEF Carries, Idle
  <2> HIDE DEF q
  <2> QED
    BY <2>1, <2>2, StartKeepsSurvivors
<1>7. ASSUME NEW r \in Requests, Acquire(r) \/ Retry(r)
      PROVE  SurvivorInv'
  <2>1. /\ \A s \in Requests : /\ req'[s].op = req[s].op /\ req'[s].tx = req[s].tx
                               /\ req'[s].era = req[s].era /\ req'[s].late = req[s].late
                               /\ req'[s].id = req[s].id
        /\ UNCHANGED <<grants, tokens, nextId, era, swept>>
    BY <1>a, <1>7 DEF Acquire, Retry, rows, Request
  <2>2. \A s \in Requests : Carries(req[s])'
    BY <1>a, <2>1 DEF Carries
  <2> QED
    BY <2>1, <2>2 DEF SurvivorInv, OnlyOvertakenSurvive
<1>8. ASSUME NEW r \in Requests, Finish(r), UNCHANGED <<rows, era, swept>>
      PROVE  SurvivorInv'
  BY <1>8, IdleCarries, MoveKeepsSurvivors DEF Finish, Replaced
<1>9. ASSUME NEW r \in Requests, CommitValidate(r)
      PROVE  SurvivorInv'
  <2>1. CASE Finish(r)
    BY <1>8, <1>9, <2>1 DEF CommitValidate
  <2>2. CASE GoOn(r, "swap")
    <3> DEFINE q == [req[r] EXCEPT !.tx = "swap", !.taken = 0, !.tries = 1]
    <3>1. Replaced(r, q) /\ req[r] \in Request /\ req[r].tx = "validate"
      BY <1>9, <1>a, <2>2 DEF GoOn, Replaced, CommitValidate, Committing
    <3>2. Carries(q)
      BY <1>a, <3>1 DEF Carries, Request
    <3> HIDE DEF q
    <3> QED
      BY <1>9, <3>1, <3>2, MoveKeepsSurvivors DEF CommitValidate
  <2> QED
    BY <1>9, <2>1, <2>2 DEF CommitValidate
<1>10. ASSUME NEW r \in Requests, CommitSwap(r)
       PROVE  SurvivorInv'
  <2>1. /\ req[r].tx = "swap" /\ Present(r) /\ Finish(r)
        /\ tokens' = {t \in tokens : t.id # req[r].id}
                     \union {[id |-> nextId, era |-> req[r].era, late |-> req[r].late]}
        /\ nextId' = nextId + 1 /\ UNCHANGED <<grants, era, swept>>
    BY <1>10 DEF CommitSwap, Committing, MaySwap
  <2>2. PICK t \in tokens : t.id = req[r].id
    BY <2>1 DEF Present
  <2>3. req[r].era < swept => req[r].late
    BY <1>a, <2>1, <2>2 DEF Carries, SurvivorInv, OnlyOvertakenSurvive
  <2>4. req[r].era \in Nat /\ req[r].late \in BOOLEAN
    BY <1>a DEF Request
  <2> QED
    BY <2>1, <2>3, <2>4, NewTokenKeepsSurvivors
<1>11. ASSUME NEW r \in Requests, CommitIssue(r)
       PROVE  SurvivorInv'
  <2>1. /\ req[r].tx = "issue" /\ Finish(r)
        /\ tokens' = tokens
                     \union {[id |-> nextId, era |-> req[r].era, late |-> req[r].late]}
        /\ grants' = {g \in grants : g.id # req[r].id}
        /\ nextId' = nextId + 1 /\ UNCHANGED <<era, swept>>
    BY <1>11 DEF CommitIssue, Committing
  <2>2. req[r].era < swept => req[r].late
    BY <1>a, <2>1 DEF Carries
  <2>3. req[r].era \in Nat /\ req[r].late \in BOOLEAN
    BY <1>a DEF Request
  <2> QED
    BY <2>1, <2>2, <2>3, NewTokenKeepsSurvivors
<1>12. ASSUME NEW r \in Requests, InvalidGrant(r)
       PROVE  SurvivorInv'
  BY <1>8, <1>12 DEF InvalidGrant
<1>13. ASSUME NEW r \in Requests, CommitRevoke(r)
       PROVE  SurvivorInv'
  <2>1. tokens' \subseteq tokens
    BY <1>13 DEF CommitRevoke
  <2> QED
    BY <1>13, <2>1, DropKeepsSurvivors DEF CommitRevoke
<1>14. ASSUME NEW r \in Requests, CommitStore(r)
       PROVE  SurvivorInv'
  <2> DEFINE q == IF req[r].op = "recover"
                  THEN [req[r] EXCEPT !.tx = "pass", !.taken = 0, !.phase = 2] ELSE Idle
  <2>1. Replaced(r, q) /\ req[r] \in Request /\ UNCHANGED <<rows, era, swept>>
    BY <1>14, <1>a DEF CommitStore, Replaced
  <2>2. Carries(q)
    BY <1>a, <2>1, IdleCarries DEF Carries, Request
  <2> HIDE DEF q
  <2> QED
    BY <2>1, <2>2, MoveKeepsSurvivors
<1>15. ASSUME NEW r \in Requests, Abort(r)
       PROVE  SurvivorInv'
  <2> DEFINE q == IF req[r].op = "reset" THEN AfterPass(req[r]) ELSE Idle
  <2>1. Replaced(r, q) /\ req[r] \in Request /\ UNCHANGED <<rows, era, swept>>
    BY <1>15, <1>a DEF Abort, Replaced
  <2>2. q = Idle \/ (req[r].op = "reset" /\ q = [req[r] EXCEPT !.taken = 0, !.phase = 2])
    BY DEF AfterPass
  <2> HIDE DEF q
  <2>3. CASE q = Idle
    BY <2>1, <2>3, IdleCarries, MoveKeepsSurvivors
  <2>4. CASE req[r].op = "reset" /\ q = [req[r] EXCEPT !.taken = 0, !.phase = 2]
    <3>1. /\ q.op = req[r].op /\ q.tx = req[r].tx /\ q.era = req[r].era
          /\ q.late = req[r].late /\ q.id = req[r].id
      BY <2>1, <2>4 DEF Request
    <3>2. Carries(q)
      BY <1>a, <3>1 DEF Carries
    <3> QED
      BY <2>1, <3>2, MoveKeepsSurvivors
  <2> QED
    BY <2>2, <2>3, <2>4
<1>16. CASE UNCHANGED vars
  <2>1. \A s \in Requests : Carries(req[s])'
    BY <1>16, <1>a DEF Carries, vars, rows
  <2> QED
    BY <1>16, <2>1 DEF SurvivorInv, OnlyOvertakenSurvive, vars, rows
<1> QED
  BY <1>1, <1>2, <1>3, <1>4, <1>5, <1>6, <1>7, <1>9, <1>10, <1>11, <1>12, <1>13, <1>14,
     <1>15, <1>16, PassKeepsSurvivors DEF Next, RequestStep

\* After both passes of a recovery or reset nothing older is left, however many requests
\* raced them, but what an exchange issued that had read its grant in time.
THEOREM SweepLeavesNothing == Spec => []OnlyOvertakenSurvive
<1>1. SurvivorInv => OnlyOvertakenSurvive
  BY DEF SurvivorInv
<1> QED
  BY <1>1, InvAlways, SurvivorInit, SurvivorStep, PTL DEF Spec
=============================================================================
