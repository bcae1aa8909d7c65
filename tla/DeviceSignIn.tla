---------------------------- MODULE DeviceSignIn ----------------------------
(***************************************************************************)
(* What signing a desktop application in promises, with every decision and *)
(* every answer one step: a code is shown, one person approves or denies   *)
(* it, and the application is told so at most once, which is when the      *)
(* account that approved gets its token.  A code that was told, withdrawn  *)
(* or has lapsed is gone for good.  DesktopPairing is the same system with *)
(* its rows, locks, requests and crashes; it implements this one.          *)
(***************************************************************************)
EXTENDS Naturals, Sequences

CONSTANTS Users,
          Devices,     \* device codes: each is drawn once
          None         \* no user

VARIABLES code,        \* each device code: its phase, and who approved it
          told,        \* what the application was told, in order
          withToken    \* the accounts with an API token

vars == <<code, told, withToken>>

At(phase, user) == [phase |-> phase, user |-> user]
Verdict(c) == [verdict |-> c.phase, user |-> c.user]

Becomes(d, c) == code' = [code EXCEPT ![d] = c]

Init ==
    /\ code = [d \in Devices |-> At("unissued", None)]
    /\ told = [d \in Devices |-> <<>>]
    /\ withToken = {}

Issue(d) ==
    /\ code[d].phase = "unissued"
    /\ Becomes(d, At("pending", None))
    /\ UNCHANGED <<told, withToken>>

Approve(d, u) ==
    /\ code[d].phase = "pending"
    /\ Becomes(d, At("approved", u))
    /\ UNCHANGED <<told, withToken>>

Deny(d) ==
    /\ code[d].phase = "pending"
    /\ Becomes(d, At("denied", None))
    /\ UNCHANGED <<told, withToken>>

\* The one answer; telling an approved code is what signs its account in.
Tell(d) ==
    /\ code[d].phase \in {"approved", "denied"}
    /\ told' = [told EXCEPT ![d] = Append(@, Verdict(code[d]))]
    /\ withToken' = IF code[d].phase = "approved" THEN withToken \union {code[d].user}
                                                  ELSE withToken
    /\ Becomes(d, At("gone", None))

\* It expires before it is told.
Lapse(d) ==
    /\ code[d].phase \in {"pending", "approved", "denied"}
    /\ Becomes(d, At("gone", None))
    /\ UNCHANGED <<told, withToken>>

\* A pass of a revocation: every code the account has approved, and the token it found.
Withdraw(u) ==
    /\ code' = [d \in Devices |-> IF code[d].user = u THEN At("gone", None) ELSE code[d]]
    /\ withToken' \in {withToken, withToken \ {u}}
    /\ UNCHANGED told

\* Login and logout of a user.
SignsIn(u) == withToken' = withToken \union {u} /\ UNCHANGED <<code, told>>
SignsOut(u) == withToken' = withToken \ {u} /\ UNCHANGED <<code, told>>

Next ==
    \/ \E d \in Devices : Issue(d) \/ Deny(d) \/ Tell(d) \/ Lapse(d)
    \/ \E d \in Devices, u \in Users : Approve(d, u)
    \/ \E u \in Users : Withdraw(u) \/ SignsIn(u) \/ SignsOut(u)

Spec == Init /\ [][Next]_vars
=============================================================================
