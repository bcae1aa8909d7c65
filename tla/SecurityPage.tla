------------------------------ MODULE SecurityPage ------------------------------
(***************************************************************************)
(* The account security page (account_security.js) over the account it     *)
(* shows, which is SignInMethods with one account and is also changed by   *)
(* other tabs and devices.  The page loads its list once and then edits it *)
(* from the answers to its own requests.  Requests and answers may be      *)
(* delayed or lost; a stamp on the password and on each passkey tells an   *)
(* old answer from a new one.                                              *)
(*                                                                         *)
(* Next, Spec and the like carry the page's name here, because PageProofs  *)
(* reasons about this page and CeremonyPage's in one module.               *)
(***************************************************************************)
EXTENDS Naturals, Sequences, FiniteSets

CONSTANTS Owner,
          MaxIds,     \* bound: passkeys ever stored
          MaxActions, \* bound: actions begun on this page
          MaxOthers   \* bound: changes made elsewhere

ASSUME BoundsAssumption == {MaxIds, MaxActions, MaxOthers} \subseteq Nat

Ids == 1 .. MaxIds
Password == 0
Items == {Password} \union Ids

VARIABLES
    held, hasPassword, epoch, \* the account, as in SignInMethods
    nextId,
    stamp,      \* how often each item of the account has changed
    others,     \* changes made elsewhere so far
    loading,    \* the GET of load(), with the list the server answered
    passkeys,   \* state.passkeys
    password,   \* state.has_password
    busy,
    actionGeneration,
    actions,    \* actions begun and not settled
    raced,      \* history: an action was begun before load() settled
    known       \* history: the newest state of each item that reached the page

account == <<held, hasPassword, epoch, nextId, stamp>>
shown == <<passkeys, password>>
guards == <<busy, actionGeneration>>
securityVars == <<account, others, loading, shown, guards, actions, raced, known>>

Methods == INSTANCE SignInMethods WITH Users <- {Owner}, Creds <- Ids

\* "sent" until the server has handled it; "ok", "gone" (404) and "failed" are answers.
Action == [op : {"add", "rename", "remove", "removePassword"}, gen : Nat, item : Items,
           pc : {"sent", "ok", "gone", "failed"}, stamp : Nat]

Row == [id : Ids, stamp : Nat]
IsHeld(i) == <<Owner, i>> \in held

Rows(list) == {list[n] : n \in DOMAIN list}

\* The n-th smallest of a set of numbers, and the rows at positions K, in their order.
Nth(K, n) == CHOOSE k \in K : Cardinality({j \in K : j <= k}) = n
RowsAt(rows, K) == [n \in 1 .. Cardinality(K) |-> rows[Nth(K, n)]]

\* list_passkeys: created_at and pk order the rows alike.
ListPasskeys ==
    [pc |-> "answered",
     passkeys |-> RowsAt([i \in Ids |-> [id |-> i, stamp |-> stamp[i]]],
                         {i \in Ids : IsHeld(i)}),
     password |-> [has |-> hasPassword[Owner], stamp |-> stamp[Password]]]

Loading(pc) == [pc |-> pc, passkeys |-> <<>>, password |-> [has |-> FALSE, stamp |-> 0]]

SecurityInit ==
    /\ Methods!Init
    /\ nextId = 1
    /\ stamp = [i \in Items |-> IF i = Password THEN 1 ELSE 0]
    /\ others = 0
    /\ loading = Loading("sent")
    /\ passkeys = <<>>
    /\ password = [has |-> FALSE, stamp |-> 0]
    /\ busy = FALSE
    /\ actionGeneration = 0
    /\ actions = {}
    /\ raced = FALSE
    /\ known = [i \in Items |-> [there |-> FALSE, stamp |-> 0]]
-----------------------------------------------------------------------------
(* The account. *)

Stamped(i) == stamp' = [stamp EXCEPT ![i] = @ + 1]

AddPasskey ==
    /\ nextId \in Ids
    /\ Methods!Add(Owner, nextId)
    /\ Stamped(nextId)
    /\ nextId' = nextId + 1

\* rename_passkey: the account's ways to sign in stay.
RenamePasskey(i) ==
    /\ IsHeld(i)
    /\ Stamped(i)
    /\ UNCHANGED <<held, hasPassword, epoch, nextId>>

DeletePasskey(i) ==
    /\ Methods!Delete(Owner, i)
    /\ Stamped(i)
    /\ UNCHANGED nextId

RemovePassword ==
    /\ Methods!RemovePassword(Owner)
    /\ Stamped(Password)
    /\ UNCHANGED nextId

SetPassword ==
    /\ Methods!SetPassword(Owner)
    /\ Stamped(Password)
    /\ UNCHANGED nextId

\* Another tab, another device or a reset link.
Elsewhere ==
    /\ others < MaxOthers
    /\ others' = others + 1
    /\ \/ AddPasskey \/ RemovePassword \/ SetPassword
       \/ \E i \in Ids : RenamePasskey(i) \/ DeletePasskey(i)
    /\ UNCHANGED <<loading, shown, guards, actions, raced, known>>
-----------------------------------------------------------------------------
(* The page's list. *)

\* insertPasskey: push, then sort.
InsertPasskey(rows, r) ==
    RowsAt(rows, {n \in DOMAIN rows : rows[n].id <= r.id}) \o <<r>>
    \o RowsAt(rows, {n \in DOMAIN rows : rows[n].id > r.id})

RemoveLocally(rows, i) == RowsAt(rows, {n \in DOMAIN rows : rows[n].id # i})

ReplacePasskey_Inserted(rows, r) == InsertPasskey(rows, r)
\* replacePasskey: the first row with this id, or else a new one.
ReplacePasskey(rows, r) ==
    LET same == {n \in DOMAIN rows : rows[n].id = r.id} IN
    IF same = {} THEN InsertPasskey(rows, r) ELSE [rows EXCEPT ![Nth(same, 1)] = r]

\* History: an answer tells the page of item i.
Learn(i, there, at) ==
    known' = IF at > known[i].stamp
             THEN [known EXCEPT ![i] = [there |-> there, stamp |-> at]] ELSE known
-----------------------------------------------------------------------------
(* load(). *)

LoadServed ==
    /\ loading.pc = "sent"
    /\ loading' = ListPasskeys
    /\ UNCHANGED <<account, others, shown, guards, actions, raced, known>>

LoadAnswers ==
    /\ loading.pc = "answered"
    /\ passkeys' = loading.passkeys
    /\ password' = loading.password
    /\ known' = [i \in Items |->
                    IF i = Password THEN [there |-> loading.password.has,
                                          stamp |-> loading.password.stamp]
                    ELSE LET row == {r \in Rows(loading.passkeys) : r.id = i} IN
                         IF row = {} THEN known[i]
                         ELSE [there |-> TRUE, stamp |-> (CHOOSE r \in row : TRUE).stamp]]
    /\ loading' = Loading("done")
    /\ UNCHANGED <<account, others, guards, actions, raced>>

\* Refused by the throttle, or lost either way: the page keeps the state it has.
LoadFails ==
    /\ loading.pc # "done"
    /\ loading' = Loading("done")
    /\ UNCHANGED <<account, others, shown, guards, actions, raced, known>>
-----------------------------------------------------------------------------
(* Actions on the page. *)

BeginAction == ~busy

Begin(op, i) ==
    /\ BeginAction
    /\ actionGeneration < MaxActions
    /\ busy' = TRUE
    /\ actionGeneration' = actionGeneration + 1
    /\ actions' = actions \union
                  {[op |-> op, gen |-> actionGeneration + 1, item |-> i, pc |-> "sent", stamp |-> 0]}
    /\ raced' = (raced \/ loading.pc # "done")
    /\ UNCHANGED <<account, others, loading, shown, known>>

\* What render() puts on the page: the password section needs a password and a passkey.
Press ==
    \/ Begin("add", Password)
    \/ \E n \in DOMAIN passkeys : \E op \in {"rename", "remove"} : Begin(op, passkeys[n].id)
    \/ password.has /\ passkeys # <<>> /\ Begin("removePassword", Password)

Becomes(a, b) == actions' = (actions \ {a}) \union {b}
browser == <<others, loading, shown, guards, raced, known>>

Answered_WithoutId(a, i, n) == Becomes(a, [a EXCEPT !.pc = "ok", !.stamp = n])
Answered(a, i, n) == Becomes(a, [a EXCEPT !.pc = "ok", !.item = i, !.stamp = n])

\* The server does what a asks.  An add is the last of four requests, after a step-up
\* and a prompt; the ones before it change nothing here.
Served(a) ==
    /\ a.pc = "sent"
    /\ \/ /\ a.op = "add"
          /\ AddPasskey
          /\ Answered(a, nextId, 1)
       \/ /\ \/ a.op = "rename" /\ RenamePasskey(a.item)
             \/ a.op = "remove" /\ DeletePasskey(a.item)
             \/ a.op = "removePassword" /\ RemovePassword
          /\ Answered(a, a.item, stamp[a.item] + 1)
    /\ UNCHANGED browser

\* NotFound.
Gone(a) ==
    /\ a.pc = "sent"
    /\ a.op \in {"rename", "remove"}
    /\ ~IsHeld(a.item)
    /\ Becomes(a, [a EXCEPT !.pc = "gone", !.stamp = stamp[a.item]])
    /\ UNCHANGED <<account, browser>>

\* Refused (the lockout guard, the throttle, a wrong password, an invalid name, a
\* dismissed prompt) or lost on the way: the server has done nothing.
Refused(a) ==
    /\ a.pc = "sent"
    /\ Becomes(a, [a EXCEPT !.pc = "failed"])
    /\ UNCHANGED <<account, browser>>

\* The server's answer is lost, whatever it was.
AnswerLost(a) ==
    /\ a.pc \in {"ok", "gone"}
    /\ Becomes(a, [a EXCEPT !.pc = "failed"])
    /\ UNCHANGED <<account, browser>>

\* endAction, failAction.
EndAction(a) == busy' = (busy /\ a.gen # actionGeneration)

\* The answer of a successful request edits the list.
Succeeds(a) ==
    LET r == [id |-> a.item, stamp |-> a.stamp] IN
    /\ a.pc = "ok"
    /\ actions' = actions \ {a}
    /\ EndAction(a)
    /\ Learn(a.item, a.op # "remove" /\ a.op # "removePassword", a.stamp)
    /\ IF a.gen # actionGeneration THEN UNCHANGED shown
       ELSE /\ passkeys' = CASE a.op = "add" -> InsertPasskey(passkeys, r)
                             [] a.op = "rename" -> ReplacePasskey(passkeys, r)
                             [] a.op = "remove" -> RemoveLocally(passkeys, a.item)
                             [] OTHER -> passkeys
            /\ password' = IF a.op = "removePassword"
                           THEN [has |-> FALSE, stamp |-> a.stamp] ELSE password
    /\ UNCHANGED <<account, others, loading, actionGeneration, raced>>

Fails_RowGoes(a) ==
    /\ a.pc \in {"gone", "failed"}
    /\ actions' = actions \ {a}
    /\ EndAction(a)
    /\ IF a.pc = "gone" THEN Learn(a.item, FALSE, a.stamp) ELSE UNCHANGED known
    /\ passkeys' = IF a.gen = actionGeneration THEN RemoveLocally(passkeys, a.item) ELSE passkeys
    /\ UNCHANGED <<account, others, loading, password, actionGeneration, raced>>
\* handleListFailure and failAction: only a 404 takes the row away.
Fails(a) ==
    /\ a.pc \in {"gone", "failed"}
    /\ actions' = actions \ {a}
    /\ EndAction(a)
    /\ IF a.pc = "gone" THEN Learn(a.item, FALSE, a.stamp) ELSE UNCHANGED known
    /\ passkeys' = IF a.pc = "gone" /\ a.gen = actionGeneration
                   THEN RemoveLocally(passkeys, a.item) ELSE passkeys
    /\ UNCHANGED <<account, others, loading, password, actionGeneration, raced>>

SecurityNext ==
    \/ Elsewhere
    \/ LoadServed \/ LoadAnswers \/ LoadFails
    \/ Press
    \/ \E a \in actions :
          Served(a) \/ Gone(a) \/ Refused(a) \/ AnswerLost(a) \/ Succeeds(a) \/ Fails(a)

SecuritySpec == SecurityInit /\ [][SecurityNext]_securityVars
-----------------------------------------------------------------------------
(* Properties. *)

\* In the order of the server's list, and no passkey twice.
Ascending(rows) == \A m, n \in DOMAIN rows : m < n => rows[m].id < rows[n].id

PasswordState == [has : BOOLEAN, stamp : Nat]

\* Every variable holds a value of its kind.
SecurityTypeOK ==
    /\ held \subseteq {Owner} \X Ids
    /\ hasPassword \in [{Owner} -> BOOLEAN]
    /\ epoch \in [{Owner} -> Nat]
    /\ nextId \in 1 .. MaxIds + 1
    /\ stamp \in [Items -> Nat]
    /\ others \in 0 .. MaxOthers
    /\ loading \in [pc : {"sent", "answered", "done"}, passkeys : Seq(Row),
                    password : PasswordState]
    /\ passkeys \in Seq(Row)
    /\ password \in PasswordState
    /\ busy \in BOOLEAN
    /\ actionGeneration \in 0 .. MaxActions
    /\ actions \subseteq Action
    /\ raced \in BOOLEAN
    /\ known \in [Items -> [there : BOOLEAN, stamp : Nat]]

\* Once load() has settled the page shows, of every passkey and of the password, the
\* newest state an answer told it of, in one row per passkey and in the order of the
\* server's list; not so when an action was begun before load() settled.
ShowsNewestKnown ==
    loading.pc = "done" /\ ~raced =>
        /\ Ascending(passkeys)
        /\ Rows(passkeys) = {[id |-> i, stamp |-> known[i].stamp] :
                             i \in {j \in Ids : known[j].there}}
        /\ password = [has |-> known[Password].there, stamp |-> known[Password].stamp]

Shows(i) == \E r \in Rows(passkeys) : r.id = i

\* A row goes only when its passkey can no longer sign in: no failed request hides a
\* passkey that still works.
NothingHidden == [][\A i \in Ids : Shows(i) /\ ~Shows(i)' => ~IsHeld(i) \/ raced]_securityVars
-----------------------------------------------------------------------------
(* Why the properties hold: SecurityIInv is inductive. *)

Have(i) == IF i = Password THEN hasPassword[Owner] ELSE IsHeld(i)

\* What was told of item i at that stamp was no later than now, and is true until the
\* next change of i.
Tells(i, there, at) == at <= stamp[i] /\ (at = stamp[i] => (there <=> Have(i)))

\* An id is used once.
AccountOK ==
    \A i \in Ids : /\ i >= nextId => ~IsHeld(i) /\ stamp[i] = 0
                   /\ IsHeld(i) => stamp[i] > 0

\* The list that load() will bring was the account's.
LoadingOK ==
    loading.pc = "answered" =>
        /\ Ascending(loading.passkeys)
        /\ \A r \in Rows(loading.passkeys) :
              r.id < nextId /\ r.stamp > 0 /\ Tells(r.id, TRUE, r.stamp)
        /\ Tells(Password, loading.password.has, loading.password.stamp)

\* beginAction and endAction keep the actions one after the other.
OneAction ==
    /\ actions # {} => busy
    /\ \A a, b \in actions : a = b
    /\ \A a \in actions : a.gen = actionGeneration

\* What an answer on its way says is what the server did or found; a passkey that is
\* gone does not come back.
ActionOK(a) ==
    /\ a.op \in {"rename", "remove"} \/ (a.op = "add" /\ a.pc = "ok") =>
          a.item \in Ids /\ a.item < nextId
    /\ a.op = "removePassword" => a.item = Password
    /\ a.pc = "ok" => a.stamp > 0 /\ Tells(a.item, a.op \in {"add", "rename"}, a.stamp)
    /\ a.pc = "ok" /\ a.op = "add" => a.stamp = 1
    /\ a.pc = "ok" /\ a.op = "remove" => ~IsHeld(a.item)
    /\ a.pc = "gone" => /\ a.op \in {"rename", "remove"}
                       /\ a.stamp = stamp[a.item] /\ ~IsHeld(a.item)

ActionsOK == \A a \in actions : ActionOK(a)

\* Nothing the page has heard is newer than the account or than the answer under way.
KnownOK ==
    /\ \A r \in Rows(passkeys) : r.id < nextId
    /\ ~raced =>
          /\ \A i \in Items : Tells(i, known[i].there, known[i].stamp)
          /\ \A i \in Ids : known[i].there => known[i].stamp > 0
          /\ \A a \in actions : a.pc = "ok" => known[a.item].stamp < a.stamp
          /\ loading.pc # "done" =>
                /\ actions = {} /\ passkeys = <<>> /\ password = [has |-> FALSE, stamp |-> 0]
                /\ \A i \in Items : known[i] = [there |-> FALSE, stamp |-> 0]

SecurityIInv ==
    /\ SecurityTypeOK /\ AccountOK /\ LoadingOK /\ OneAction /\ ActionsOK /\ KnownOK
    /\ ShowsNewestKnown
=============================================================================
