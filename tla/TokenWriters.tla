----------------------------- MODULE TokenWriters -----------------------------
(***************************************************************************)
(* Everything that writes one account's OAuth tokens (oauth_validators.py, *)
(* account_tokens.py, passkey_service.finish_recover, the password reset)  *)
(* as transactions that take the account's locks one after the other.      *)
(* Accounts share no lock and no row, so one account is modelled.  What    *)
(* the toolkit does inside a hook is external: its lock order and its      *)
(* unlocked reads are the ones account_tokens.py describes.                *)
(***************************************************************************)
EXTENDS Naturals, Sequences, FiniteSets

CONSTANTS Requests,
          None,         \* no request, no lock
          MaxTokens,    \* bound: grants and token pairs ever made
          MaxEra,       \* bound: recoveries and resets
          MaxAttempts   \* _MAX_RECOVERY_ATTEMPTS

VARIABLES
    lock,     \* the lock table of the account
    grants,   \* Grant rows [id, era]; era is a history field
    tokens,   \* a refresh token with its access token: [id, era, late]
    nextId,   \* the ids of grants and tokens
    req,      \* the requests
    era,      \* history: recoveries and resets begun
    swept     \* history: era of the latest one whose two passes committed

rows == <<grants, tokens, nextId>>
vars == <<lock, rows, req, era, swept>>

Locks == {"advisory", "refresh", "access", "user"}

\* The locks each kind of transaction takes, in order.  validate is a refresh token
\* that is not a replay (for one that is, see RevokeOne).  pass is
\* revoke_all_tokens, whose delete collector reaches AccessToken first; swap is
\* the rotation in save_bearer_token; issue is a code exchange's
\* save_bearer_token; store is the transaction that holds the user row.
Plan_NoAdvisoryInSave ==
    [pass |-> <<"advisory", "access", "refresh">>,
     validate |-> <<"advisory">>,
     swap |-> <<"refresh", "access">>,
     issue |-> <<>>,
     revoke |-> <<"advisory", "refresh", "access">>,
     store |-> <<"user">>]
Plan ==
    [pass |-> <<"advisory", "access", "refresh">>,
     validate |-> <<"advisory">>,
     swap |-> <<"advisory", "refresh", "access">>,
     issue |-> <<"advisory">>,
     revoke |-> <<"advisory", "refresh", "access">>,
     store |-> <<"user">>]

Transactions == {"pass", "validate", "swap", "issue", "revoke", "store"}
ASSUME NoneAssumption == None \notin Requests \union Locks \union Transactions

\* Their commit checks a foreign key, which waits for the user row.
ChecksUser == {"swap", "issue"}

Idle == [op |-> "none", tx |-> None, taken |-> 0, id |-> 0, era |-> 0,
         late |-> FALSE, phase |-> 1, passes |-> 0, tries |-> 1]

Taking(r) == req[r].tx # None /\ req[r].taken < Len(Plan[req[r].tx])
Done(r) == req[r].tx # None /\ req[r].taken = Len(Plan[req[r].tx])

\* The lock a request needs for its next step, and who has it.
Wanted(r) ==
    IF Taking(r) THEN Plan[req[r].tx][req[r].taken + 1]
    ELSE IF Done(r) /\ req[r].tx \in ChecksUser THEN "user"
    ELSE None
Holder(r) == IF Wanted(r) = None THEN None ELSE lock[Wanted(r)]

Init ==
    /\ lock = [k \in Locks |-> None]
    /\ grants = {}
    /\ tokens = {}
    /\ nextId = 1
    /\ req = [r \in Requests |-> Idle]
    /\ era = 0
    /\ swept = 0

\* Ids still to be used by running requests are kept free.
Room == nextId + Cardinality({r \in Requests : req[r].op \in {"exchange", "rotate"}}) <= MaxTokens

Start(r, q) ==
    /\ req[r] = Idle
    /\ req' = [req EXCEPT ![r] = q]
    /\ UNCHANGED <<lock, rows, swept>>

\* The consent page issues an authorization code.
Authorize ==
    /\ Room
    /\ grants' = grants \union {[id |-> nextId, era |-> era]}
    /\ nextId' = nextId + 1
    /\ UNCHANGED <<lock, tokens, req, era, swept>>

\* A code exchange: the grant is read without a lock, up to the last of the
\* three reads (get_code_challenge_method).
Exchange(r, g) ==
    /\ Room
    /\ Start(r, [Idle EXCEPT !.op = "exchange", !.tx = "issue", !.id = g.id, !.era = g.era])
    /\ UNCHANGED era

\* A refresh: validate_refresh_token finds the owner without a lock.
Refresh(r, t) ==
    /\ Room
    /\ Start(r, [Idle EXCEPT !.op = "rotate", !.tx = "validate", !.id = t.id,
                         !.era = t.era, !.late = t.late])
    /\ UNCHANGED era

\* RFC 7009 revocation of one token.  Also a rotated refresh token presented again:
\* validate_refresh_token then revokes the token's family, of which t is the live one,
\* in its transaction and with the same locks (REFRESH_TOKEN_REUSE_PROTECTION).
RevokeOne(r, t) ==
    /\ Start(r, [Idle EXCEPT !.op = "revoke", !.tx = "revoke", !.id = t.id])
    /\ UNCHANGED era

\* finish_recover after its challenge, or form_valid after its save.
Recover(r, op) ==
    /\ era < MaxEra
    /\ era' = era + 1
    /\ Start(r, [Idle EXCEPT !.op = op, !.tx = "pass", !.era = era + 1])

\* Any other transaction that holds the user row: a passkey stored or deleted,
\* a password removed.
ChangeAccount(r) ==
    /\ Start(r, [Idle EXCEPT !.op = "account", !.tx = "store"])
    /\ UNCHANGED era
-----------------------------------------------------------------------------
Acquire(r) ==
    /\ Taking(r)
    /\ Holder(r) = None
    /\ lock' = [lock EXCEPT ![Wanted(r)] = r]
    /\ req' = [req EXCEPT ![r].taken = @ + 1]
    /\ UNCHANGED <<rows, era, swept>>

Unlock(r) == lock' = [k \in Locks |-> IF lock[k] = r THEN None ELSE lock[k]]

\* The request goes on with its next transaction, or is over.
GoOn(r, tx) ==
    /\ req' = [req EXCEPT ![r].tx = tx, ![r].taken = 0, ![r].tries = 1]
    /\ Unlock(r)
Finish(r) ==
    /\ req' = [req EXCEPT ![r] = Idle]
    /\ Unlock(r)

Committing(r, tx) == req[r].tx = tx /\ Done(r) /\ Holder(r) = None

Present(r) == \E t \in tokens : t.id = req[r].id

\* validate_refresh_token commits; saving is a transaction of its own.
CommitValidate(r) ==
    /\ Committing(r, "validate")
    /\ IF Present(r) THEN GoOn(r, "swap") ELSE Finish(r)
    /\ UNCHANGED <<rows, era, swept>>

MaySwap_NotFetchedAgain(r) == TRUE
\* The toolkit fetches the row again under the lock; RefreshToken.DoesNotExist
\* becomes invalid_grant.
MaySwap(r) == Present(r)

CommitSwap(r) ==
    /\ Committing(r, "swap")
    /\ MaySwap(r)
    /\ tokens' = {t \in tokens : t.id # req[r].id}
                 \union {[id |-> nextId, era |-> req[r].era, late |-> req[r].late]}
    /\ nextId' = nextId + 1
    /\ Finish(r)
    /\ UNCHANGED <<grants, era, swept>>

InvalidGrant(r) ==
    /\ Committing(r, "swap")
    /\ ~MaySwap(r)
    /\ Finish(r)
    /\ UNCHANGED <<rows, era, swept>>

\* The new pair, then the used grant goes, if it is still there.
CommitIssue(r) ==
    /\ Committing(r, "issue")
    /\ tokens' = tokens \union {[id |-> nextId, era |-> req[r].era, late |-> req[r].late]}
    /\ grants' = {g \in grants : g.id # req[r].id}
    /\ nextId' = nextId + 1
    /\ Finish(r)
    /\ UNCHANGED <<era, swept>>

CommitRevoke(r) ==
    /\ Committing(r, "revoke")
    /\ tokens' = {t \in tokens : t.id # req[r].id}
    /\ Finish(r)
    /\ UNCHANGED <<grants, nextId, era, swept>>

AfterPass_NeverLast(q) ==
    IF q.op = "recover" THEN [q EXCEPT !.tx = "store", !.taken = 0, !.tries = 1]
    ELSE [q EXCEPT !.taken = 0, !.phase = @ + 1]
\* What follows the first pass: a recovery's transaction B, a reset's sweep.
AfterPass(q) ==
    IF q.phase = 2 THEN Idle
    ELSE IF q.op = "recover" THEN [q EXCEPT !.tx = "store", !.taken = 0, !.tries = 1]
    ELSE [q EXCEPT !.taken = 0, !.phase = 2]

\* A commit of revoke_all_tokens overtakes the exchanges that have read their
\* grant and have yet to save.
CommitPass(r) ==
    LET q == req[r] IN
    /\ Committing(r, "pass")
    /\ grants' = {}
    /\ tokens' = {}
    /\ req' = [s \in Requests |->
                  IF s = r THEN AfterPass([q EXCEPT !.passes = 1])
                  ELSE IF req[s].op = "exchange" THEN [req[s] EXCEPT !.late = TRUE]
                  ELSE req[s]]
    /\ swept' = IF q.phase = 2 /\ q.passes = 1 /\ swept < q.era THEN q.era ELSE swept
    /\ Unlock(r)
    /\ UNCHANGED <<nextId, era>>

\* Transaction B, or another one on the user row; a recovery then sweeps.
CommitStore(r) ==
    /\ Committing(r, "store")
    /\ req' = [req EXCEPT ![r] =
                  IF @.op = "recover"
                  THEN [@ EXCEPT !.tx = "pass", !.taken = 0, !.phase = 2]
                  ELSE Idle]
    /\ Unlock(r)
    /\ UNCHANGED <<rows, era, swept>>

\* A transaction fails and is rolled back.  A reset whose first pass fails goes
\* on to its sweep; every other request is over.
Abort(r) ==
    /\ req[r] # Idle
    /\ req' = [req EXCEPT ![r] = IF @.op = "reset" THEN AfterPass(@) ELSE Idle]
    /\ Unlock(r)
    /\ UNCHANGED <<rows, era, swept>>

\* _run_with_retry and _revoke_tokens_after_reset: everything but the sweep.
Retry(r) ==
    /\ req[r].op \in {"recover", "reset"} /\ req[r].phase = 1
    /\ req[r].tries < MaxAttempts
    /\ req' = [req EXCEPT ![r].taken = 0, ![r].tries = @ + 1]
    /\ Unlock(r)
    /\ UNCHANGED <<rows, era, swept>>

RequestStep(r) ==
    \/ Acquire(r) \/ CommitValidate(r) \/ CommitSwap(r) \/ InvalidGrant(r)
    \/ CommitIssue(r) \/ CommitRevoke(r) \/ CommitPass(r) \/ CommitStore(r)

Next ==
    \/ Authorize
    \/ \E r \in Requests :
          \/ \E g \in grants : Exchange(r, g)
          \/ \E t \in tokens : Refresh(r, t) \/ RevokeOne(r, t)
          \/ \E op \in {"recover", "reset"} : Recover(r, op)
          \/ ChangeAccount(r)
          \/ RequestStep(r) \/ Abort(r) \/ Retry(r)

Spec == Init /\ [][Next]_vars
-----------------------------------------------------------------------------
(* Properties. *)

Rows == [id : Nat \ {0}, era : Nat]
Token == [id : Nat \ {0}, era : Nat, late : BOOLEAN]
Request ==
    [op : {"none", "exchange", "rotate", "revoke", "recover", "reset", "account"},
     tx : Transactions \union {None}, taken : Nat, id : Nat, era : Nat,
     late : BOOLEAN, phase : {1, 2}, passes : {0, 1}, tries : Nat]

\* Every variable holds a value of its kind.
TypeOK ==
    /\ lock \in [Locks -> Requests \union {None}]
    /\ grants \subseteq Rows
    /\ tokens \subseteq Token
    /\ nextId \in Nat \ {0}
    /\ req \in [Requests -> Request]
    /\ era \in Nat
    /\ swept \in Nat

\* lock_user_tokens: recovery, reset, rotation, revocation and the transactions
\* on the user row never wait for each other in a circle, although two of them
\* take the token tables in opposite orders.
NoDeadlock ==
    \A waiting \in (SUBSET Requests) \ {{}} :
        \E r \in waiting : Holder(r) \notin waiting

\* After the post-commit sweep no token and no grant from before the recovery
\* or reset is left, except what a code exchange issued that had read its grant
\* before the first pass committed; a refresh never carries a token over.
OnlyOvertakenSurvive ==
    /\ \A t \in tokens : t.era < swept => t.late
    /\ \A g \in grants : g.era >= swept
-----------------------------------------------------------------------------
(* What makes OnlyOvertakenSurvive inductive. *)

\* What a request carries over into a new token is what the row it read still says,
\* if that row is still there.
Carries(q) ==
    /\ q.tx = "pass" => q.op \in {"recover", "reset"}
    /\ q.op \in {"recover", "reset"} => q.era <= era
    /\ q.tx = "issue" => q.op = "exchange"
    /\ q.op = "exchange" => (q.era < swept => q.late)
    /\ q.tx \in {"validate", "swap"} => q.op = "rotate"
    /\ q.op = "rotate" =>
          /\ q.id < nextId
          /\ \A t \in tokens : t.id = q.id => t.era = q.era /\ t.late = q.late

SurvivorInv ==
    /\ OnlyOvertakenSurvive
    /\ swept <= era
    /\ \A t \in tokens : t.id < nextId
    /\ \A t, u \in tokens : t.id = u.id => t = u
    /\ \A r \in Requests : Carries(req[r])
=============================================================================
