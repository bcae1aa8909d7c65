---------------------------- MODULE SignInMethods ----------------------------
(***************************************************************************)
(* What the account layer promises about the ways a person can sign in,    *)
(* with every change a single atomic step: the passkeys of each account,   *)
(* whether it has a usable password, and the epoch that counts passkey     *)
(* changes.  PasskeyAccount is the same system with its requests, its row  *)
(* lock and its crashes; it implements this one.                           *)
(***************************************************************************)
EXTENDS Naturals

CONSTANTS Users,       \* accounts
          Creds        \* WebAuthn credential ids

VARIABLES held,        \* pairs <<user, credential>>: the passkeys
          hasPassword, \* has_usable_password() of each account
          epoch        \* PasskeyEpoch.value of each account

vars == <<held, hasPassword, epoch>>

Of(u) == {h \in held : h[1] = u}

Init ==
    /\ held = {}
    /\ hasPassword = [u \in Users |-> TRUE]
    /\ epoch = [u \in Users |-> 0]

Bump(u) == epoch' = [epoch EXCEPT ![u] = @ + 1]

\* A passkey is added under a credential nobody holds.
Add(u, c) ==
    /\ \A h \in held : h[2] # c
    /\ held' = held \union {<<u, c>>}
    /\ Bump(u)
    /\ UNCHANGED hasPassword

\* A passkey may go while another way to sign in remains.
Delete(u, c) ==
    /\ <<u, c>> \in held
    /\ hasPassword[u] \/ Of(u) # {<<u, c>>}
    /\ held' = held \ {<<u, c>>}
    /\ Bump(u)
    /\ UNCHANGED hasPassword

\* The password may go while a passkey remains.
RemovePassword(u) ==
    /\ hasPassword[u]
    /\ Of(u) # {}
    /\ hasPassword' = [hasPassword EXCEPT ![u] = FALSE]
    /\ UNCHANGED <<held, epoch>>

SetPassword(u) ==
    /\ hasPassword' = [hasPassword EXCEPT ![u] = TRUE]
    /\ UNCHANGED <<held, epoch>>

Next ==
    \E u \in Users :
        \/ \E c \in Creds : Add(u, c) \/ Delete(u, c)
        \/ RemovePassword(u)
        \/ SetPassword(u)

Spec == Init /\ [][Next]_vars
=============================================================================
