--------------------------- MODULE AccountRegistry ---------------------------
(***************************************************************************)
(* What signing up and the purge promise together, each change one step:   *)
(* an address has one account or none, every account has a number of its   *)
(* own that nobody gets again, and the only accounts that ever go were,    *)
(* when they were condemned all at once, of the age at which the purge     *)
(* takes accounts, not active, and without a password.  Signup is the same *)
(* system with its checks, locks and racing requests.                      *)
(***************************************************************************)
EXTENDS Naturals

CONSTANTS Emails

VARIABLES account,    \* the account of each address: a set, of one or none
          next,       \* the next account's number
          condemned   \* the numbers that the purge is about to delete

vars == <<account, next, condemned>>

Account(id, active, old, password) ==
    [id |-> id, active |-> active, old |-> old, password |-> password]

Everyone == UNION {account[e] : e \in Emails}

Becomes(e, accounts) ==
    /\ account' = [account EXCEPT ![e] = accounts]
    /\ UNCHANGED condemned

Init ==
    /\ account = [e \in Emails |-> {}]
    /\ next = 1
    /\ condemned = {}

\* An address without an account gets one, which is asleep until it is verified.
Open(e) ==
    /\ account[e] = {}
    /\ \E password \in BOOLEAN :
          Becomes(e, {Account(next, FALSE, FALSE, password)})
    /\ next' = next + 1

Verify(e) ==
    /\ \E a \in account[e] : Becomes(e, {Account(a.id, TRUE, a.old, a.password)})
    /\ UNCHANGED next

\* EMAIL_VERIFICATION_MAX_AGE has passed since it joined; its link may verify for longer.
Age(e) ==
    /\ \E a \in account[e] : Becomes(e, {Account(a.id, a.active, TRUE, a.password)})
    /\ UNCHANGED next

\* An administrator disables it; its owner may have set or removed the password before.
Disable(e) ==
    /\ \E a \in account[e], password \in BOOLEAN :
          a.active /\ Becomes(e, {Account(a.id, FALSE, a.old, password)})
    /\ UNCHANGED next

Abandoned(a) == a.old /\ ~a.active /\ ~a.password

\* The purge looks at every account at once.
Condemn ==
    /\ condemned = {}
    /\ condemned' \in SUBSET {a.id : a \in {b \in Everyone : Abandoned(b)}}
    /\ UNCHANGED <<account, next>>

Purge ==
    /\ account' = [e \in Emails |-> {a \in account[e] : a.id \notin condemned}]
    /\ condemned' = {}
    /\ UNCHANGED next

Spare ==
    /\ condemned' = {}
    /\ UNCHANGED <<account, next>>

Next ==
    \/ \E e \in Emails : Open(e) \/ Verify(e) \/ Age(e) \/ Disable(e)
    \/ Condemn \/ Purge \/ Spare

Spec == Init /\ [][Next]_vars
=============================================================================
