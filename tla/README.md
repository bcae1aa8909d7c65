# E-Tipitaka-Plus: TLA+ models of the account server

E-Tipitaka-Plus is a Django 5.2 / Django REST Framework server on PostgreSQL 16,
run by gunicorn (3 workers of 4 threads) behind nginx, with a small MCP server
beside it. Its own logic is mostly in `src/app/user_data/`: accounts, passkeys
(WebAuthn), recovery, OAuth tokens (django-oauth-toolkit), pairing of desktop
applications, and a legacy library sync. This directory models the parts where
requests race: on the server a step is one database statement whose order against
the others matters, and a transaction's writes appear at its commit (READ
COMMITTED, PostgreSQL's default, which the settings leave alone); in the library
it is also one call of the file system; in the browser it is one callback.

## 1. Inventory

| Part | State it keeps | Operations | Talks to | What makes it correct |
|---|---|---|---|---|
| Sign-in methods: `passkey_service.py`, `passkey_manage.py`, `recovery.py`, `passkey_challenges.py` | `Passkey`, `PasskeyEpoch`, `WebAuthnChallenge`, the password, `last_login`, `is_active`, mailed links | register, recover, delete a passkey; remove, reset, change the password | user row lock; token revocation after a recovery or reset | nobody is locked out; the cap; a reset link dies with any change and stays dead |
| OAuth token writers: `oauth_validators.py`, `account_tokens.py` | Grant, RefreshToken, AccessToken rows; advisory lock per account | exchange, rotate, revoke one, revoke all (twice) | the toolkit's hooks; recovery; reset | no circular wait; nothing from before a recovery survives its sweep, save an overtaken exchange |
| Desktop pairing: `desktop_pairing.py`, `passkey_web_views.py`, `passkey_views.py` | `DesktopPairing`, the DRF Token | begin, approve, deny, poll | revoke_all_tokens; rest login and logout | one resolution, by the tab that decided; revocation reaches approved pairings |
| Sign-up: `passkey_service.py`, `serializers.py`, `auth_views.py`, `purge_unactivated.py` | User rows, sign-up challenges, verification links, advisory lock per address | begin and finish a passkey sign-up, register, verify, purge | mail; cron | one account per address; the purge deletes only old accounts without a password that were not active when it looked |
| Passkey sign-in and step-up: `passkey_service.py`, `passkey_challenges.py`, `passkey_web_views.py` | `Passkey.sign_count`, login challenges | login, step-up | sessions; deletion of the passkey | a challenge is taken once; the counter never falls; a deleted passkey signs nobody in |
| Sessions: `account_tokens.delete_user_sessions`, `recovery.py` | Session rows | scan and delete in chunks, cycle the recoverer's key | recovery; sign-ins | none that a sweep saw is left but the recoverer's, and that one is |
| rest-auth API: `auth_views.py` | DRF Token | login, logout, register, verify | sign-up, pairing, MCP server | compatible with old clients |
| Library: `views.py` | SyncData, UserData, Sharing rows and files | sync, upload, delete, share | file system | an upload is served as it was sent; a deleted one is gone; unsharing is complete |
| Content and canon APIs: `content_views.py`, `canon_*.py`, `sqlite_reader.py` | none (read-only SQLite) | queries | | |
| OAuth endpoints: `oauth_views.py`, `oauth_authentication.py`, ... | none | verify, metadata | MCP server | |
| MCP server: `mcp_server/etipitaka_mcp/` | bearer cache, token file | verify, log in, retry | the OAuth endpoints, the rest-auth API | a revoked token works no longer than the TTL; one retry is enough |
| Sign-in, sign-up and recovery pages: `app/assets/passkey_*.js` | generation, abort controller, timeout, button | autofill, click, renew | the passkey API, `navigator.credentials` | one live request; autofill is kept; the button comes back |
| Account security page: `app/assets/account_security.js` | list of passkeys, busy flag, generation | load, add, rename, remove, remove the password | the passkey API | the page shows the newest it knows |
| Deployment: `deploy.sh`, `nginx/` | containers | build, check, roll out, migrate | | |

What is hard here: any two requests interleave between statements; checks are
made outside the transaction that writes (`begin_register`, `_recovering_user`,
the identity check of a sign-up); the toolkit reads without locks and takes its
row locks in an order of its own; transactions are retried; a worker may die
between two transactions; a cron job deletes accounts meanwhile. The library has no
transactions at all and keeps half of its state in files. In the browser every
answer arrives in its own time, to a page that may have moved on. PROJECT.json
lists each hazard at its line, with the properties that cover it or the reason
why none does.

## 2. Plan

The order in which the modules were written, the most important behaviour first;
all of it is done.

1. `SignInMethods` (abstract) and `PasskeyAccount` (its implementation), the core.
2. `DesktopPairing`, `TokenWriters`, `Signup`.
3. `PasskeySignIn`: what a passkey is used for, and the sessions a recovery ends.
4. `McpServer`: the bearer cache, the token file and the retry.
5. `CeremonyPage` and `SecurityPage`: the pages, the second over `SignInMethods`.
6. `Library`: files and rows without transactions.
7. The proofs: a `...Proofs` module for each of these, the two pages in `PageProofs`.
8. What the server's components promise, as abstract specifications that they are
   checked against and proved to implement: `DeviceSignIn` for `DesktopPairing`,
   `AccountRegistry` for `Signup`, `PasskeyUse` for `PasskeySignIn`.

There is one passing run per module but the abstract ones, which are checked as
properties of their implementations. It checks the module's safety and, where
there is any, its liveness together. There is one run per finding. Instances are as small as the properties'
mutants allow; the proofs, which have no bounds, carry the rest. In particular
every run but `Signup` and `PasskeySignIn` has one account: that one account's checks
do not look at another's rows is proved for any number of accounts
(`NobodyLockedOut`, `AccountRefinesMethods`).

## 3. The modules

**SignInMethods** says what the account layer promises, each change one atomic
step: a passkey is added under a credential nobody holds; a passkey goes only
while a password or another passkey remains; the password goes only while a
passkey remains; every change of the passkeys moves the epoch.

**PasskeyAccount** is the code. `req[r]` is a worker thread inside one request;
`pc` is the statement it does next.

| Actions | Code |
|---|---|
| `RegisterBegin`, `RecoverBegin`, `Expire` | `begin_register`, `recover_passkey_begin`, challenge TTL |
| `RegisterFinish`, `RecoverFinish` → `Consume` or `ChallengeGone` → `Lock` → `Check` or `Refuse` → `StorePasskey` or `DuplicateCredential` | `finish_register`, `finish_recover`: the challenge is spent in a durable transaction, then `_store_passkey` locks, counts, inserts and bumps the epoch |
| `LoginAfterRecover` | `login()` in `recover_passkey_finish` |
| `DeletePasskey` → `Lock` → `Check` → `CommitDelete` | `delete_passkey` |
| `RemovePassword` → `Lock` → `Check` → `CommitRemovePassword` | `remove_password` |
| `MailLink`, `ResetPassword`, `ChangePassword`, `SavePassword` | `AccountRecoveryForm`, `AccountRecoveryConfirmView`, Django's password change; `user.save()` writes back every column it loaded, `is_active` and `last_login` included |
| `SignIn`, `Deactivate` | what moves `last_login`, and the administrator |
| `Abort`, `Retry` | a worker's death or a refused statement; `_run_with_retry` |

Whether a WebAuthn response verifies is a free choice. A link is the record of
what its hash covers: the password's version, `last_login`, the epoch. The e-mail
address, which is part of the hash too, is never changed by this code. The unique
index on the credential is checked at the commit; the wait for another
transaction's uncommitted duplicate is not modelled (every writer holds its own
user row by then, as `_store_passkey` explains). The tokens and sessions that a
recovery revokes are `TokenWriters`' and `DesktopPairing`'s subject. Whether a
passkey came from registration or recovery (`via`) and what an account held when
a link was made (`had`) are history.

**TokenWriters** models one account's locks (the advisory lock of
`lock_user_tokens`, the two token tables, the user row) and the transactions that
take them in the order `Plan` gives. The toolkit is external: its orders are
those `account_tokens.py` records. `pass` is `revoke_all_tokens`; a recovery is
pass, store, pass, a reset is pass, pass; a refresh is validate, then swap; an
exchange reads its grant without a lock (`Exchange`) and issues later. A rotated
refresh token that is presented again revokes its family inside `validate`'s
transaction (`REFRESH_TOKEN_REUSE_PROTECTION`); it takes the locks of `revoke` in the
same order and deletes what that deletes, the one live token of the family, so
`RevokeOne` stands for it, without the plain read of the owner that precedes both. `era`
numbers recoveries and resets; a token carries the era its grant or predecessor
was made in, and `late` if a pass committed after the exchange had read its grant.
The lock on a table stands for the locks on the account's rows of it. The two
writers that bypass the advisory lock, `cleartokens` and the admin pages, are not
modelled: the code leaves them to the retry.

**DesktopPairing** has polls, tabs and revocations as requests. A poll is
`PollNothing`, or `PollSelect` (FOR UPDATE) and `PollResolve`; a tab is `TabFind`
(no lock), then `TabDecide` or `TabStale` (the conditional update); a revocation is
two passes of `RevokeToken` and `RevokePairings`. An application has one device
code; the user code a person types, and the loop that draws another on a
collision, stand for the same row and are left out.

**DeviceSignIn** is what that amounts to: a code is shown, approved by one account or
denied, and told to the application at most once, in the same step in which the
account that approved gets its token; a code that was told, withdrawn or has lapsed
is gone for good. `Code(d)` reads this off the rows. The row outlives the code: once
it has expired it is worth nothing, unless a poll that found it in time holds it and
is about to redeem it (`Redeemable`). So `Expire` is a lapse, or nothing if a poll has
the row, and that poll's crash is then the lapse. The two passes of a revocation are
`Withdraw` steps, each of the codes approved by then.

**Signup** has both kinds of sign-up. A name is stored as it was spelled and
compared by `Fold`; the address is up to the `iexact` lookup and
`_unicode_ci_compare`, taken as one equivalence, on which the advisory lock's key agrees. The verification link and the account grow old
independently (`GrowOld`, `LinkExpires`): one age counts from `date_joined`, the
other from the second in which the link was signed, after the account's commit. So the
purge may take an account whose link still verifies, and `OnlyStrandedPurged` speaks
of the account's own age. The purge is three steps: the list, the SELECT of
Django's delete collector with the criteria applied again, and the DELETE by id.
`Disable` stands for all that may have happened to a verified account before an
administrator disables it. A live link re-activates it (`OpenLink`, `Activate`),
as in the code. Two spellings of one name can both be inserted by a race, because
the index is case-sensitive; no document claims otherwise.

**AccountRegistry** is what sign-up, verification and the purge amount to: an address
without an account gets one that is asleep, a link wakes it, an administrator disables
it, and the purge, in one look at all accounts, condemns some that are old, asleep and
without a password, then deletes what it has condemned, and what is deleted stays so.
The account of an address is the set of its rows (`AccountsOf`), as the purge sees them
(`Seen`); `condemned` is what the collector's SELECT found, until the DELETE. A
condemned account may be verified before it is deleted: that is the finding
`SignupPurge`, and the register allows it because the code does.

**PasskeySignIn** is the use of a passkey. `Submit` → `ConsumeSelect` (FOR UPDATE) →
`ConsumeDelete` is `passkey_challenges.consume` with its durable transaction;
`Verify` or `Reject` is everything up to the signature check; `Record` is the
conditional UPDATE whose row count tells a deleted passkey; then a sign-in goes on
to `Stamp` (`last_login`) and `Login` (a new session) and a step-up is done. A
recovery is `Recover` (`cycle_key`), `Scan` and `Sweep` or `SweepFails` (the
transaction on the user row, with its retry), and `RecoverLogin`. The rows the
iterator reads are one step, so a session saved during the scan counts as saved
before or after it; the chunks are one DELETE each in the code but nobody can see a
difference before the commit. `spent` and `swept` are history. The browser that
recovers may be signed in as anyone: `cycle_key` keeps whoever it was until `login()`
replaces the session.

**PasskeyUse** is what that amounts to: each challenge is unissued, live, then gone,
and spent by one request at most; only a request that has spent one may have a proof
accepted, of a passkey that is there, whose counter does not fall; and only such a
proof, or a recovery that has signed the account's other browsers out, entitles a
request to sign its browser in, once, as that account and no other. A recovery ends
no other account's session, unless it is the recovering browser's own. `Proving` and
`Entitled` read this off the requests' places, `Phase` off the challenges' rows. That
a sweep misses none of the sessions it could see is not part of it, but
`SweptSessionsGone`: new sign-ins go on meanwhile.

**McpServer** has two halves that a configuration chooses between. Over http,
`VerifyToken` looks in the cache and notes the time, `Active` is Django's answer,
`Fill` the insert (and the `clear()` when full), so that any number of
verifications are between the two; `ContentOverHttp` is the call that the token is
then used for. Over stdio each `Calls` is a process: `TakeToken` (the file, or a
configured token), `Mint`, `WriteFile` and `ContentOverStdio` with its one
`Refresh`. `Mint` truncates the file and `WriteFile` fills it; the file system is
trusted to give a reader the empty or the whole text of a 40-byte key.

**CeremonyPage** has one record per ceremony, in the order they were begun; the
record's index is what a callback closes over. `controller` and `timer` are what
the page's variables refer to, `aborted` and `armed` are what became of the
objects. The page is chosen in `Init`: only the login page has autofill, a timer
and a controller. The two answers of `isConditionalMediationAvailable`, and a
browser without it, are `conditional`. A page whose button is disabled ignores
clicks (for a form, `button.disabled` is tested); `create()` takes no signal.

**SecurityPage** instantiates `SignInMethods` for the account (`Methods`) and adds the
page, the requests under way and everyone else. The page's list is a sequence and `Rows`
the set of its entries; every edit of it (`InsertPasskey`, `RemoveLocally`,
`ReplacePasskey`) and the server's list pick rows in order (`RowsAt`, by the n-th
smallest of a set, `Nth`). A passkey and the password carry a stamp that
every change increases, so that an old answer differs from a new one; `known` is
history, the newest state of each item that an answer brought. `Served` and the
answer's arrival are two steps, and `Elsewhere` changes the account between them.
An add is four requests (step-up, begin, prompt, finish), of which only the last
changes anything here; a failure of any of them is `Refused`. The account's own
checks are `PasskeyAccount`'s subject and atomic here.

**Library** is one account, one file name, and the follower who may download. A
path is the plain one or one drawn for an upload (`FreePath`: Django's storage never
overwrites). `SyncUpload`, `PageUpload` and `PageDelete` begin with what the handler
reads; `Missing`/`Exists` and `Unlink` are `os.path.exists` and `os.remove`, between
which another request may remove or replace the file; `DeleteRows`, `StoreFile`,
`InsertRow`, `SaveChecksum` and `SaveDeleted` are the statements after them. A worker
may die anywhere (`Crash`), which also covers two errors of a request: a timestamp
that does not parse, after a sync has removed the old file and rows, and an upload
whose ending names no platform, which no row can be inserted for. `LoneUploadIsServed`
is about the other requests. A file is known by the upload that brought it, so its
content is an identity. `alone` is history: no other request was under way since
this one began.

## 4. Runs

All bounds are constants named in the modules. Nearly all stop only what has not begun.
Five guards stop a request half way once a bound is used up: `Login` and `RecoverLogin`
(`MaxSessions`, PasskeySignIn) and `Insert` (`MaxUsers`, Signup), which then stay where
they are or crash, `Mint` (`MaxKeys`, McpServer), which can then only fail, and the
adding of a passkey on the security page (`MaxIds`, SecurityPage), which can then only
be refused. No liveness property is about these requests.
`CHECK_DEADLOCK FALSE` everywhere, because a server with nothing to do, a
page nobody clicks on, or a model whose bounds are used up, stops; that no request
waits for ever is stated by `NoDeadlock` (TokenWriters), `RequestAnswered`
(PasskeyAccount) and `EveryoneFinishes` (DesktopPairing).

| Run | Question | Bounds and why they are enough |
|---|---|---|
| PasskeyAccount | do races on one account lock it out, exceed the cap, bring a link back, or leave a request waiting? | 2 requests (each property is violated by two), 2 credentials and a cap of 1 so that the second registration races the first, 1 link, one change of the password (a reset, a change or a removal, so that it races with deletes, registrations and recoveries), 1 recorded login, 1 retry |
| PasskeySignIn | is every step one of `PasskeyUse`? is a challenge, a counter, a session swept or a passkey deleted, as it should be in every order? | 2 requests, 2 accounts of which one has the passkey, 2 challenges and counters up to 2, so that two assertions race, 3 sessions against chunks of 1, so that a sweep takes more than one chunk, 1 retry |
| TokenWriters | circular waits, survivors of a sweep | 3 interchangeable transactions, one more than the circle the code is written against (a rotation and a revocation); 2 recoveries or resets, so that one may begin inside another; 4 grants and tokens, from before, between and after them |
| DesktopPairing | is every step one of `DeviceSignIn`, whatever polls, tabs and revocations do at once? double decision, survivors of a revocation, waiting | 2 polls, 2 tabs, 1 revocation of two passes. Two revocations that wait for each other's advisory lock are beyond this instance; the proofs have any number |
| Signup | is every step one of `AccountRegistry`? one account per address, is the purge careful, and does it come | 2 requests, 2 accounts, two spellings of one name, so that two accounts arise only from a race |
| McpServer | how late is a revocation seen, does one retry help | 3 tokens against a cache of 2, time up to 3 against a TTL of 1, 2 calls, 3 keys so that a key may be replaced twice in one call |
| Library | what do races and crashes leave behind? | 2 requests, 3 uploads: two that race and one that meets what they left; the page's platform and another |
| CeremonyPage | one live request, autofill, the button | 5 ceremonies: enough for a click, its failure, the autofill it restarts, its renewal, and one more |
| SecurityPage | does the list follow the account? | 3 passkeys, so that one may come between two others, 3 actions here and 3 changes elsewhere |
| PasskeyAccountDisabled, SignupPurge, CeremonyPageSuperseded | see findings | |

Symmetry is used only in runs without liveness properties.

### Fairness

`PasskeyAccount`: weak fairness of each request's steps, strong fairness of the
steps that wait for the user row: gunicorn keeps running its threads, and
PostgreSQL hands a row lock to its waiters in queue order. `DesktopPairing`: the same
for polls, tabs and revocations. `Signup`: days pass, cron runs the purge again, and
the purge does not fail for ever (strong fairness of its two later steps).
`CeremonyPage`: every request is answered or fails, since the browser gives up in the
end, and a prompt that a click opened is answered,
dismissed or timed out; an autofill may wait for ever, and a timeout need not fire.
`TokenWriters`,
`PasskeySignIn`, `McpServer`, `Library` and `SecurityPage` have only safety properties. No fairness is
assumed of people otherwise, of mail, or of what an administrator does.

### Findings

* **PasskeyAccountDisabled**. `_recovering_user` promises that a link issued
  before a deactivation "can never be used to create a passkey (and sign in) on a
  now-disabled account". It checks once; the passkey is stored transactions later.
  A deactivation in between does not stop it.
* **SignupPurge**. `purge_unactivated` says that the DELETE itself applies the
  criteria again. Django's collector SELECTs by the criteria and deletes by id: a
  verification that commits between the two is deleted. In the run's last state the
  link still verifies, although the command says that it "only ever deletes a row whose
  verification link has unconditionally expired already" (lines 32-36): the cutoff
  counts from `date_joined`, and the link is signed later. That gap is a second or so,
  unless the worker is held up between the commit and the mail.
* **CeremonyPageSuperseded**. `passkey_login.js` says that a callback of a superseded
  attempt "must be a no-op". The catches are; `finish()` does not look at the
  generation, so the answer to an autofill that a click has superseded still
  navigates, while the click's prompt is open. The other two pages look.

### Observations

What the models showed of the code where no document says otherwise:

* One pass of `revoke_all_tokens` may leave a token: a poll that redeems between the
  delete of the token and of the pairings. The second pass takes it
  (`SweptMeansGone`), so it matters only if the sweep fails.
* The purge takes `is_active = False` for "never verified". A verified passkey
  account without `last_login` (`rest_login` records none) that an administrator
  disables meets every criterion. A live verification link re-activates a disabled
  account.
* A password reset that loaded the user before a deactivation saves `is_active`
  back.
* A sign-in that passed its UPDATE of `last_login` before a recovery's sweep may save
  its session after the scan. `SweptSessionsGone` therefore speaks of the sessions
  that the scan could see.
* Two assertions with one counter value, verified before either is recorded, are both
  accepted; the check of a cloned authenticator sees only one after the other.
* On the security page an action begun before `load()` settles may be undone, or its
  row doubled, by the late answer (`ShowsNewestKnown` and `NothingHidden` except
  that, as `raced`). The fallback of `replacePasskey`, "shouldn't happen", is taken
  when the list it renamed from was overwritten.
* In the library a DELETE repeated for a deleted row, or an upload over one, removes
  whatever file is at the row's path now, another upload's included.
  `DeletedContentGone` holds; that a live row has its file does not. Downloads by
  name ask for one row where two platforms may have synced the name.

## 5. Proofs

TLAPS proves these for any number of accounts, requests, credentials, files and
ceremonies and any bounds, from the assumptions named in the modules (`None` is not a
request, an account, a row or a token; the cap, the chunk size and the time-to-live are
positive). Each `IInv` is in the component's module, and TLC has checked it on the
instance of the run.

The refinement proofs all have one shape: a lemma per action says which step of the
abstract specification it is, or that it is none; `...Step` collects them; the theorem
adds the invariant and `PTL`. In `PasskeyAccount`, `DesktopPairing`, `Signup` and
`PasskeySignIn` most actions are none, and the few that are carry the argument.

`PasskeyAccountProofs`, along the invariant `IInv`:
`NeverLockedOut` is not inductive, since what a transaction found under the lock
must still hold at its commit. That is `CheckOK`; it needs `LockOK` (between check
and commit the request holds the row, so every other writer of that account
waits), which needs `TypeOK` and `RequestOK`. `RegisteredWithinCap` needs `RowsOK`
(ids grow and are unique), `LinkMeansUnchanged` needs `LinksOK` (the epoch of a
link is never ahead, and one of the present epoch saw the present passkeys), and
`ClockOK` bounds the logins that a reset may put back. Each conjunct has a step
lemma; most argue by `WriteOrQuiet`, which splits the next-state relation into
steps that write the account's rows and steps that leave them alone.

* `TypeCorrect`, `NobodyLockedOut`, `CapRespected`, `LinksTellTheTruth`: the
  invariants of the run.
* `DeadLinksStayDead`: the action property. A link dies by its password version or
  its epoch, which only grow, or by `last_login`, which only a password save can
  put back, and that save moves the version.
* `AccountRefinesMethods`: every step of `PasskeyAccount` is a step of
  `SignInMethods` or leaves its variables unchanged.

`TokenWritersProofs`: `WritersTyped`, and `NeverDeadlocked`: no set of writers, of
any size, waits in a circle. The argument orders the locks: the advisory lock comes
first, and whoever waits for a token table holds the advisory lock, so at most one
request ever holds or wants a token table; whoever holds the user row wants nothing
more. `SweepLeavesNothing` is `OnlyOvertakenSurvive`, along `SurvivorInv`: what a
request carries from before a sweep that has committed is an overtaken exchange's
(`Carries`), and ids are unique, so that a pass deletes what it found.

`SignupProofs`, along `Signup`'s `IInv`: no index makes an address unique, so
`OneAccountPerEmail` needs `CheckOK` (what a request found under the address's lock
still holds at its insert), which needs `LockOK` (it holds that lock from the check
on). `PurgeOK` says of the ids that the purge is about to delete that their
accounts are old and were asleep when it looked again; it needs `IdsOK`, since a
new account must not get a deleted one's id.

* `SignupTyped`, `AddressesUnique`: the invariants of the run.
* `PurgeIsCareful` and `NoReturn`: action properties. Only
  the delete removes an account (`OnlyPurgeDeletes`), only an insert brings an id.
* `SignupRefinesRegistry`: `AccountRegistry` has one account per address, so every
  lemma rests on `SoleAccount`, which is `OneAccountPerEmail`: what becomes of a row is
  what becomes of its address. An insert is `Open` by `CheckOK`; the rows the collector
  reads are `Abandoned` because the criteria (`Stranded`) ask for that and more;
  a list of candidates that is out of date is no step at all.

`DesktopPairingProofs`: `OneResolution` and `OneDecision` need `RowsOK` (a row that
exists has not been answered, and says what its one decision says) and `LocksOK` (a
poll that resolves a row holds it and has read what it says). `TwoPassesSuffice`
needs `RevokersOK`, what the first pass achieved and the second preserves: the
pairings approved before it are gone, so only a token minted before the second
pass's delete is left for that. `PairingRefinesSignIn` is the refinement of
`DeviceSignIn`: the poll that resolves a row is the `Tell`, since `LocksOK` makes what
it read still true, and the row it holds `Redeemable` even if it expired meanwhile;
a tab's conditional update is an `Approve` or `Deny`, because it tests the row again,
or none if the row has expired, for then the code is gone already.
`OneResolution` (`ResolvedOnce`) is what that says of the rows.

`PasskeySignInProofs`: `OneAnswerPerChallenge` needs `ChallengeOK`: a request about
to delete a challenge holds its row, and the challenge is live. `SweepIsComplete`
needs `SweepOK`: what a sweep is about to delete is all that its account had at the
scan, but the recoverer's; that the chunks together are the whole list
(`InChunks`) is arithmetic on the chunk size. The action properties follow from
`RequestOK`. `SignInRefinesUse` is the refinement of `PasskeyUse`. `ConsumeDelete` is
the `Spend` because of `ChallengeOK`; that a sweep ends no other account's session, and
that `login()` after a recovery replaces one session at most, needs a second invariant,
`KeysOK` (`KeysInvariant`): a session key is one session's, and what a sweep has listed
was its own user's and, keys being used once, still is.

`McpServerProofs`: `RevocationsAreSeen` needs `HttpOK`: an entry ends no later than
the time-to-live after its token's revocation, because it counts from before the
question was asked. `OneRetryHeals` needs `StdioOK`: a key minted in this call is the
account's unless that was revoked during the call.

`LibraryProofs`: `DeletedIsGone` needs `RowsOK` (a page upload is at its row's path or
nowhere) and `UploadOK` (an upload not stored yet is nowhere and has no row).
`LoneUploadsWork` needs `AloneOK`: what a lone request has found, nobody changes.

`PageProofs`, of `CeremonyPage`: `OneRequestAtATime` follows from `WaiterIsCurrent` and
`OnePerGeneration`: an attempt that is not aborted is of the page's generation, and
that has one attempt at a time. On the pages without autofill the button is the
guard (`ButtonOnly`). `AutofillLasts` (`AutofillStays`) has two parts: `AutofillKept` (being set up, or the
timeout for the next one runs) is
inductive with these, `AutofillIsTimed` needs `WaiterIsTimed`.

`PageProofs`, of `SecurityPage`: `NewestShown` is `ShowsNewestKnown`, along
`SecurityIInv`. Everything that says something of an item carries a stamp, and `Tells`
is what makes it comparable: what was told is no later than the account, and true as
long as the item has not changed since. `ActionOK` says it of an answer under way,
`LoadingOK` of the list on its way, `KnownOK` of what the page has heard; `OneAction`
(the busy flag) makes an answer newer than all the page knows of its item, so that
showing it is right. An id is used once (`AccountOK`), so an added row is a new one and
a row that was removed does not come back. That the page then has one row per passkey,
in order, is what the edits do to a list. The lemmas about these need no recursion:
`NthEnumerates` (`Nth` counts a finite set up in order), `RowsAtKeeps` and
`ConcatKeeps`, and from them `InsertKeeps`, `RemoveKeeps` and `ReplaceKeeps`, each with
the set of rows that results. `WorkingPasskeysShown` (`NothingHidden`) needs `ActionOK`:
a 404, or the success of a removal, means the passkey is gone.

Only proved, without a run of their own: `CacheNeverOverflows` (a conjunct of
`McpServer`'s `IInv`), `UnsharingEndsAll` (of `Library`'s), `StepUpStaysHome`, and
`OneResolution`, `NoReturn` and `OneAnswerPerChallenge`, which the runs check as parts
of the abstract specifications.

Only model-checked: what is about liveness (`RequestAnswered`, `EveryoneFinishes`,
`StrandedGoes`, `ButtonComesBack`), which TLAPS cannot do under fairness; and the three
properties that the findings refute.

## 6. Not modelled

PROJECT.json's components say it part by part: the read-only content and canon APIs,
stateless OAuth metadata, configuration checks, deployment scripts, seeding of test
data, the legacy AngularJS pages (each shows what one request answered). Left out of
the modelled parts: cryptography and formats (WebAuthn verification, hashing, JSON),
throttling, and `cleartokens` and the admin's deletes of tokens.

The repository's JavaScript is all but about 900 lines third-party code (AngularJS,
Moment, Bootstrap, FileAPI, each in several builds), which is not this program's; of
its own the passkey pages and the security page are modelled, and the rest of the
models translate the Python.
