----------------------------- MODULE PasskeyUse -----------------------------
(***************************************************************************)
(* What using a passkey promises, each change one step: a challenge is     *)
(* spent once; only who has spent one can have a proof accepted, of a      *)
(* passkey that is there, and its counter never falls; only such a proof,  *)
(* or a recovery that has signed the account's other browsers out, lets a  *)
(* browser be signed in, once and as that account.  PasskeySignIn is the   *)
(* same system with its locks, transactions, retries and crashes.          *)
(***************************************************************************)
EXTENDS Naturals

CONSTANTS Users, Passkeys, OwnerOf, Challenges, Requests,
          MaxCount,  \* bound: signature counters
          None       \* no account

VARIABLES challenge,   \* each challenge: unissued, live or gone
          passkey,     \* whether it is there, and its counter
          spent,       \* the requests that have spent a challenge and proved nothing yet
          entitled,    \* the account a request may sign its browser in to
          sessions,    \* the browsers signed in: [id, user]
          nextKey      \* the next session's key

vars == <<challenge, passkey, spent, entitled, sessions, nextKey>>

Init ==
    /\ challenge = [c \in Challenges |-> "unissued"]
    /\ passkey = [p \in Passkeys |-> [there |-> TRUE, count |-> 0]]
    /\ spent = {}
    /\ entitled = [r \in Requests |-> None]
    /\ sessions = {}
    /\ nextKey = 1

Turns(c, from, to) ==
    /\ challenge[c] = from
    /\ challenge' = [challenge EXCEPT ![c] = to]

Issue(c) ==
    /\ Turns(c, "unissued", "live")
    /\ UNCHANGED <<passkey, spent, entitled, sessions, nextKey>>

Lapse(c) ==
    /\ Turns(c, "live", "gone")
    /\ UNCHANGED <<passkey, spent, entitled, sessions, nextKey>>

Spend(r, c) ==
    /\ Turns(c, "live", "gone")
    /\ r \notin spent /\ entitled[r] = None
    /\ spent' = spent \union {r}
    /\ UNCHANGED <<passkey, entitled, sessions, nextKey>>

\* An accepted proof counts; a step-up's ends there, a sign-in's may go on.
Prove(r, p) ==
    /\ r \in spent
    /\ passkey[p].there
    /\ \E count \in passkey[p].count .. MaxCount : passkey' = [passkey EXCEPT ![p].count = count]
    /\ spent' = spent \ {r}
    /\ entitled' \in {entitled, [entitled EXCEPT ![r] = OwnerOf[p]]}
    /\ UNCHANGED <<challenge, sessions, nextKey>>

\* A proof fails, a sign-in is refused, or its worker dies.
GiveUp(r) ==
    /\ spent' = spent \ {r}
    /\ entitled' = [entitled EXCEPT ![r] = None]
    /\ UNCHANGED <<challenge, passkey, sessions, nextKey>>

\* The browser's session, if it had one, is replaced.
SignIn(r) ==
    /\ entitled[r] # None
    /\ \E old \in {{}} \union {{s} : s \in sessions} :
          sessions' = (sessions \ old) \union {[id |-> nextKey, user |-> entitled[r]]}
    /\ nextKey' = nextKey + 1
    /\ entitled' = [entitled EXCEPT ![r] = None]
    /\ UNCHANGED <<challenge, passkey, spent>>

\* A recovering browser's session, if it has one, gets another key and stays whose it is.
Cycle ==
    /\ sessions' \in {sessions} \union
                     {(sessions \ {s}) \union {[id |-> nextKey, user |-> s.user]} : s \in sessions}
    /\ nextKey' = nextKey + 1
    /\ UNCHANGED <<challenge, passkey, spent, entitled>>

\* A recovery signs browsers of its account out, of no other, and may then sign in its own.
Recover(r, u) ==
    /\ r \notin spent /\ entitled[r] = None
    /\ sessions' \subseteq sessions
    /\ \A s \in sessions \ sessions' : s.user = u
    /\ entitled' = [entitled EXCEPT ![r] = u]
    /\ UNCHANGED <<challenge, passkey, spent, nextKey>>

Logout(s) ==
    /\ sessions' = sessions \ {s}
    /\ UNCHANGED <<challenge, passkey, spent, entitled, nextKey>>

Delete(p) ==
    /\ passkey' = [passkey EXCEPT ![p] = [there |-> FALSE, count |-> 0]]
    /\ UNCHANGED <<challenge, spent, entitled, sessions, nextKey>>

Next ==
    \/ \E c \in Challenges : Issue(c) \/ Lapse(c) \/ \E r \in Requests : Spend(r, c)
    \/ \E r \in Requests :
          \/ GiveUp(r) \/ SignIn(r)
          \/ \E p \in Passkeys : Prove(r, p)
          \/ \E u \in Users : Recover(r, u)
    \/ Cycle
    \/ \E s \in sessions : Logout(s)
    \/ \E p \in Passkeys : Delete(p)

Spec == Init /\ [][Next]_vars
=============================================================================
